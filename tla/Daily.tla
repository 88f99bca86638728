--------------------------------- MODULE Daily ---------------------------------
(***************************************************************************)
(* The daily round of the scheduler (scheduler.py, _loop and _run_daily)    *)
(* and the mails it sends (notification.py).                                *)
(*                                                                          *)
(* The day of the last round is in the settings; what was already announced *)
(* is known to the process only.  A step that raises ends the round, and a  *)
(* renewed TLS certificate restarts the process a moment later.  One        *)
(* mailbox with its signing certificate and one licence stand for all.      *)
(***************************************************************************)
EXTENDS Integers, FiniteSets

CONSTANTS
    Rung,         \* CERT_RENEWAL_THRESHOLDS and those of the licence, in days
    WarnDays,     \* CERT_WARN_DAYS
    Validity,     \* days a renewed certificate is valid
    LicenceUntil,  \* day on which the licence expires
    MaxDay,       \* the clock stops there
    MaxDailyStop  \* bound on restarts and on lost settings

ASSUME DailyAssumption ==
    /\ Rung \subseteq Nat /\ IsFiniteSet(Rung)
    /\ {WarnDays, Validity, LicenceUntil, MaxDay, MaxDailyStop} \subseteq Nat

VARIABLES
    day, reached,   \* today; DAILY_REPORT_TIME has come
    lastRun,        \* _DAILY_LAST_RUN
    step,           \* where the round is, or "idle"
    restarting,     \* a restart of the process is under way
    expires,        \* day on which the signing certificate expires
    alerted,        \* _cert_alerts_sent
    reminded,       \* _user_notif_sent
    renewTried,     \* _le_renewed_date
    posts,          \* history: mails of each kind sent today
    dailyStops

dailyMemory == <<alerted, reminded, renewTried>>
dailyVars == <<day, reached, lastRun, step, restarting, expires, dailyMemory, posts, dailyStops>>

Never == -1
Kind == {"tls", "listener", "expiry", "reminder", "licence", "report"}
NoPosts == [k \in Kind |-> 0]

DailyInit ==
    /\ day = 0 /\ reached = FALSE /\ lastRun = Never /\ step = "idle" /\ restarting = FALSE
    /\ expires \in {1, MaxDay} /\ alerted = {} /\ reminded = {} /\ renewTried = Never
    /\ posts = NoPosts /\ dailyStops = 0

\* _graph_send: whether a mail went out is logged, and nothing depends on it.
Post(kind) == posts' \in {posts, [posts EXCEPT ![kind] = @ + 1]}
Quiet == posts' = posts

\* The most urgent of some thresholds.
Urgent(rungs) == CHOOSE r \in rungs : \A other \in rungs : r <= other

(***************************************************************************)
(* The round                                                               *)
(***************************************************************************)

\* Mutant: the day is written down when the round is over.
PersistedAfter(point) == IF point = "end" THEN day ELSE lastRun

\* The day is written down before anything is done.
Persisted(point) == IF point = "begin" THEN day ELSE lastRun

\* _should_run_daily
BeginDaily ==
    /\ step = "idle" /\ reached /\ lastRun # day
    /\ lastRun' = Persisted("begin") /\ step' = "tls"
    /\ UNCHANGED <<day, reached, restarting, expires, dailyMemory, posts, dailyStops>>

\* _check_tls_cert: near its end the certificate is renewed, or its end
\* announced when renewing is switched off or brings nothing.
CheckTls ==
    /\ step = "tls" /\ step' = "listener"
    /\ \/ Quiet /\ UNCHANGED <<renewTried, restarting>>
       \/ Post("tls") /\ UNCHANGED <<renewTried, restarting>>
       \/ /\ renewTried # day /\ renewTried' = day
          /\ Post("tls") /\ restarting' \in {restarting, TRUE}
    /\ UNCHANGED <<day, reached, lastRun, expires, alerted, reminded, dailyStops>>

\* _check_smtp_cert: the listener's own certificate is only announced.
CheckListener ==
    /\ step = "listener" /\ step' = "expiry"
    /\ Quiet \/ Post("listener")
    /\ UNCHANGED <<day, reached, lastRun, restarting, expires, dailyMemory, dailyStops>>

\* _check_smime_lifecycle, to the administrators: once a day, and marked before
\* it is sent.
AlertAdmins ==
    /\ step = "expiry" /\ step' = "reminder"
    /\ IF expires - day <= WarnDays /\ <<"expiry", day>> \notin alerted
       THEN alerted' = alerted \cup {<<"expiry", day>>} /\ Post("expiry")
       ELSE UNCHANGED alerted /\ Quiet
    /\ UNCHANGED <<day, reached, lastRun, restarting, expires, reminded, renewTried, dailyStops>>

\* The thresholds of the owner's certificate that are not announced yet.
Open == {r \in Rung : expires - day <= r /\ <<expires, r>> \notin reminded}

\* _check_smime_lifecycle, to the owner: the most urgent threshold that is not
\* announced yet, one a day, and marked whatever came of it.  The certificate
\* may be renewed at once, the owner asked for consent, or told what to do.
RemindOwner ==
    /\ step = "reminder" /\ step' = "licence"
    /\ IF Open = {} THEN UNCHANGED <<reminded, expires>> /\ Quiet
       ELSE /\ reminded' = reminded \cup {<<expires, Urgent(Open)>>}
            /\ \/ expires' = day + Validity /\ Quiet
               \/ UNCHANGED expires /\ Post("reminder")
    /\ UNCHANGED <<day, reached, lastRun, restarting, alerted, renewTried, dailyStops>>

\* _check_license_expiry: a licence that has expired is not spoken of.
LicenceRungs == {r \in Rung : LicenceUntil >= day /\ LicenceUntil - day <= r}
CheckLicence ==
    /\ step = "licence" /\ step' = "report"
    /\ IF LicenceRungs # {} /\ <<"licence", Urgent(LicenceRungs)>> \notin alerted
       THEN alerted' = alerted \cup {<<"licence", Urgent(LicenceRungs)>>} /\ Post("licence")
       ELSE UNCHANGED alerted /\ Quiet
    /\ UNCHANGED <<day, reached, lastRun, restarting, expires, reminded, renewTried, dailyStops>>

\* The clean-ups that follow are caught one by one; the report ends the round.
SendReport ==
    /\ step = "report" /\ step' = "idle"
    /\ lastRun' = Persisted("end")
    /\ Quiet \/ Post("report")
    /\ UNCHANGED <<day, reached, restarting, expires, dailyMemory, dailyStops>>

\* Something raised; _loop logs it.
RoundRaises ==
    /\ step \in {"tls", "listener", "expiry", "reminder", "report"} /\ step' = "idle"
    /\ UNCHANGED <<day, reached, lastRun, restarting, expires, dailyMemory, posts, dailyStops>>

(***************************************************************************)
(* Around it                                                               *)
(***************************************************************************)

\* The process starts anew, by itself or because of the renewed certificate.
DailyRestart ==
    /\ \/ restarting /\ UNCHANGED dailyStops
       \/ dailyStops < MaxDailyStop /\ dailyStops' = dailyStops + 1
    /\ restarting' = FALSE /\ step' = "idle"
    /\ alerted' = {} /\ reminded' = {} /\ renewTried' = Never
    /\ UNCHANGED <<day, reached, lastRun, expires, posts>>

\* settings.json is lost, or an older one restored: the count starts anew.
SettingsGone ==
    /\ dailyStops < MaxDailyStop /\ dailyStops' = dailyStops + 1
    /\ step = "idle" /\ lastRun' = Never /\ posts' = NoPosts
    /\ alerted' = {} /\ reminded' = {} /\ renewTried' = Never
    /\ UNCHANGED <<day, reached, step, restarting, expires>>

\* The report time may be changed after it has come; a round ends on its day.
DailyTick ==
    /\ \/ reached' = ~reached /\ UNCHANGED <<day, posts>>
       \/ /\ day < MaxDay /\ step = "idle" /\ reached
          /\ day' = day + 1 /\ reached' = FALSE /\ posts' = NoPosts
    /\ UNCHANGED <<lastRun, step, restarting, expires, dailyMemory, dailyStops>>

DailyNext ==
    \/ BeginDaily \/ CheckTls \/ CheckListener \/ AlertAdmins \/ RemindOwner
    \/ CheckLicence \/ SendReport \/ RoundRaises
    \/ DailyRestart \/ SettingsGone \/ DailyTick

DailySpec == DailyInit /\ [][DailyNext]_dailyVars

-----------------------------------------------------------------------------
DailyTypeOK ==
    /\ day \in 0..MaxDay /\ reached \in BOOLEAN /\ lastRun \in Never..MaxDay
    /\ step \in Kind \cup {"idle"} /\ restarting \in BOOLEAN
    /\ expires \in Nat /\ renewTried \in Never..MaxDay
    /\ alerted \subseteq {"expiry", "licence"} \X Nat /\ reminded \subseteq Nat \X Rung
    /\ posts \in [Kind -> Nat] /\ dailyStops \in 0..MaxDailyStop

\* Whatever stops the process, in the middle of a round too, nobody gets the
\* same mail twice on one day.
OnceADay == \A k \in Kind : posts[k] <= 1
=============================================================================
