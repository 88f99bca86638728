-------------------------------- MODULE TlsCert --------------------------------
(***************************************************************************)
(* The TLS certificate of the listeners: certbot's renewal                 *)
(* (le_certbot.py, scheduler.py), the import of a PFX (tls_cert.py), the   *)
(* manual DNS-01 order (tls_acme_dns.py), the separate pair of the SMTP    *)
(* listener (smtp_cert.py), and what a start loads (main.py).              *)
(*                                                                         *)
(* A pair is two files, written one after the other by whoever renews or   *)
(* imports; the process reads them only when it starts.  A renewal         *)
(* restarts the process by itself, an import asks the administrator to.    *)
(* Pairs are numbered as they are made; file contents are these numbers, 0 *)
(* is a file that does not exist, and CutShort one written in part.        *)
(***************************************************************************)
EXTENDS Naturals

CONSTANTS MaxDay,       \* bound on the clock; it counts in renewal periods
          MaxImport,    \* bound on imports and orders of the administrator
          MaxTlsCrash   \* bound on crashes, the administrator's restarts and failed writes

ASSUME TlsAssumption ==
    MaxDay \in Nat /\ MaxImport \in Nat /\ MaxTlsCrash \in Nat

MaxPair == MaxDay + 2 + MaxImport
PairNo == 0..MaxPair
Down == MaxPair + 1
CutShort == MaxPair + 1
Target == {"common", "separate"}
Writer == {"daily", "web", "dns"}

VARIABLES
    day, made,      \* the clock, pairs made so far
    ends,           \* [pair -> when it is due for renewal]
    cert, key,      \* [Target -> pair in the file]
    live,           \* certbot's own pair, 0 if it manages none
    pendingOrder,   \* tls_dns01_pending.json: the pair ordered, or 0
    job,            \* [Writer -> at, pair, target, alone]
    restartDue,     \* _schedule_self_restart has been called
    listener,       \* the pair the SMTP listener has loaded, 0 for no TLS
    web,            \* the pair of the web interface, 0 for http, or Down
    imports, tlsCrashes,
    broken,         \* ghost: targets where a write was cut off, failed or mixed
    byDaily         \* ghost: the common pair is of the daily run

tlsVars == <<day, made, ends, cert, key, live, pendingOrder, job, restartDue,
             listener, web, imports, tlsCrashes, broken, byDaily>>

running == <<restartDue, listener, web>>
files == <<cert, key, broken, byDaily>>

NoJob == [at |-> "idle", pair |-> 0, target |-> "common", alone |-> TRUE]

Due(p) == ends[p] <= day
Fits(t) == cert[t] \notin {0, CutShort} /\ key[t] = cert[t]
There(t) == cert[t] # 0 /\ key[t] # 0

\* A new pair is good for one period or for two.
NewPair ==
    /\ made < MaxPair /\ made' = made + 1
    /\ \E n \in {1, 2} : ends' = [ends EXCEPT ![made + 1] = day + n]

TlsInit ==
    /\ day = 0 /\ made = 1 /\ ends = [p \in PairNo |-> 1]
    /\ cert = [t \in Target |-> IF t = "common" THEN 1 ELSE 0] /\ key = cert
    /\ live = 1 /\ pendingOrder = 0
    /\ job = [w \in Writer |-> NoJob]
    /\ restartDue = FALSE /\ listener = 1 /\ web = 1
    /\ imports = 0 /\ tlsCrashes = 0
    /\ broken = {} /\ byDaily = TRUE

(***************************************************************************)
(* Writing a pair                                                          *)
(***************************************************************************)

\* A writer that is between its two files no longer has the pair to itself when
\* another one writes the certificate.
Disturbed(w, t) ==
    [v \in Writer |-> IF v # w /\ job[v].at = "key" /\ job[v].target = t
                         THEN [job[v] EXCEPT !.alone = FALSE] ELSE job[v]]

\* The certificate first, the key in a later step.
WriteCert(w, p, t) ==
    /\ cert' = [cert EXCEPT ![t] = p]
    /\ job' = [Disturbed(w, t) EXCEPT ![w] = [at |-> "key", pair |-> p, target |-> t,
                                              alone |-> Disturbed(w, t) = job]]

\* Mutant: the key goes to the common path, whichever pair it belongs to.
KeyToCommon(w) ==
    LET j == job[w]
    IN  /\ j.at = "key"
        /\ key' = [key EXCEPT !["common"] = j.pair]
        /\ job' = [job EXCEPT ![w] = NoJob]
        /\ broken' = IF j.alone THEN broken \ {j.target} ELSE broken \cup {j.target}
        /\ byDaily' = IF j.target = "common" THEN w = "daily" ELSE byDaily
        /\ restartDue' = (restartDue \/ w = "daily")
        /\ pendingOrder' = IF w = "dns" THEN 0 ELSE pendingOrder
        /\ UNCHANGED <<day, made, ends, cert, live, listener, web, imports, tlsCrashes>>

WriteKey(w) ==
    LET j == job[w]
    IN  /\ j.at = "key"
        /\ key' = [key EXCEPT ![j.target] = j.pair]
        /\ job' = [job EXCEPT ![w] = NoJob]
        /\ broken' = IF j.alone THEN broken \ {j.target} ELSE broken \cup {j.target}
        /\ byDaily' = IF j.target = "common" THEN w = "daily" ELSE byDaily
        /\ restartDue' = (restartDue \/ w = "daily")
        /\ pendingOrder' = IF w = "dns" THEN 0 ELSE pendingOrder
        /\ UNCHANGED <<day, made, ends, cert, live, listener, web, imports, tlsCrashes>>

Failing == tlsCrashes < MaxTlsCrash /\ tlsCrashes' = tlsCrashes + 1

\* The second write fails, and whoever wrote goes on: the caller's except clause
\* reports it, and nobody takes back the certificate.  Certbot's pair is copied
\* in place, so the key may be torn, or there but with the wrong rights.
KeyFails(w) ==
    LET j == job[w]
    IN  /\ j.at = "key" /\ Failing
        /\ \E k \in IF w = "daily" THEN {key[j.target], CutShort, j.pair} ELSE {key[j.target]} :
              key' = [key EXCEPT ![j.target] = k]
        /\ job' = [job EXCEPT ![w] = NoJob]
        /\ broken' = broken \cup {j.target}
        /\ UNCHANGED <<day, made, ends, cert, live, pendingOrder, running, imports, byDaily>>

(***************************************************************************)
(* The daily run                                                           *)
(***************************************************************************)

\* Mutant: the pair counts as renewed only if certbot renewed it just now.
OnlyFresh(renewed) == renewed

\* The pair in the files is compared with certbot's, whatever certbot did now.
TakesOver(renewed) == ends'[live'] > ends[cert["common"]]

\* _check_tls_cert, _try_le_renewal, erneuern: certbot may renew its pair, or
\* find that it need not, or fail.  With a certificate that cannot be read
\* nothing is renewed at all (_tls_days_left).
DailyRun ==
    /\ job["daily"].at = "idle" /\ ~restartDue
    /\ cert["common"] \notin {0, CutShort} /\ Due(cert["common"]) /\ live # 0
    /\ \E renewed \in BOOLEAN :
          /\ IF renewed THEN Due(live) /\ NewPair /\ live' = made + 1
                        ELSE UNCHANGED <<made, ends, live>>
          /\ job' = [job EXCEPT !["daily"].at =
                        IF TakesOver(renewed) THEN "copy" ELSE "idle"]
    /\ UNCHANGED <<day, cert, key, pendingOrder, running, imports, tlsCrashes, broken,
                   byDaily>>

\* uebernehmen
CopyCert ==
    /\ job["daily"].at = "copy"
    /\ WriteCert("daily", live, "common")
    /\ UNCHANGED <<day, made, ends, key, live, pendingOrder, running, imports,
                   tlsCrashes, broken, byDaily>>

CopyFails ==
    /\ job["daily"].at = "copy" /\ Failing
    /\ job' = [Disturbed("daily", "common") EXCEPT !["daily"] = NoJob]
    /\ \E c \in {cert["common"], CutShort, live} :
          /\ cert' = [cert EXCEPT !["common"] = c]
          /\ broken' = IF c = cert["common"] THEN broken ELSE broken \cup {"common"}
    /\ UNCHANGED <<day, made, ends, key, live, pendingOrder, running, imports, byDaily>>

(***************************************************************************)
(* The administrator, who needs the web interface                          *)
(***************************************************************************)

WebUp == web # Down

\* Writes of the common pair do not give up the web interface's event loop; a
\* separate pair is written in a thread.
LoopFree == \A v \in {"web", "dns"} : job[v].at = "key" => job[v].target = "separate"

\* install_pfx, speichern_pfx: what is uploaded has been checked.
Import(t) ==
    /\ WebUp /\ LoopFree /\ job["web"].at = "idle"
    /\ imports < MaxImport /\ imports' = imports + 1
    /\ NewPair /\ WriteCert("web", made + 1, t)
    /\ UNCHANGED <<day, key, live, pendingOrder, running, tlsCrashes, broken, byDaily>>

RemoveSeparate ==
    /\ WebUp /\ LoopFree /\ cert["separate"] # 0
    /\ cert' = [cert EXCEPT !["separate"] = 0] /\ key' = [key EXCEPT !["separate"] = 0]
    /\ UNCHANGED <<day, made, ends, live, pendingOrder, job, running, imports,
                   tlsCrashes, broken, byDaily>>

DnsStart ==
    /\ WebUp /\ LoopFree /\ imports < MaxImport /\ imports' = imports + 1
    /\ NewPair /\ pendingOrder' = made + 1
    /\ UNCHANGED <<day, cert, key, live, job, running, tlsCrashes, broken, byDaily>>

DnsFinish ==
    /\ WebUp /\ LoopFree /\ pendingOrder # 0
    /\ WriteCert("dns", pendingOrder, "common")
    /\ UNCHANGED <<day, made, ends, key, live, pendingOrder, running, imports,
                   tlsCrashes, broken, byDaily>>

(***************************************************************************)
(* Starts                                                                  *)
(***************************************************************************)

\* _build_tls_context: the separate pair, then the common one; one that cannot
\* be loaded is skipped.
Chosen ==
    CASE Fits("separate") -> cert["separate"]
      [] ~Fits("separate") /\ Fits("common") -> cert["common"]
      [] OTHER -> 0

\* Every writer is cut off.  The web interface does not come up with a pair
\* that does not fit.
Started ==
    /\ listener' = Chosen
    /\ web' = CASE Fits("common") -> cert["common"]
               [] There("common") /\ ~Fits("common") -> Down
               [] OTHER -> 0
    /\ broken' = broken \cup {job[w].target : w \in {v \in Writer : job[v].at = "key"}}
    /\ job' = [w \in Writer |-> NoJob]
    /\ restartDue' = FALSE
    /\ UNCHANGED <<day, made, ends, cert, key, live, pendingOrder, imports, byDaily>>

SelfRestart == restartDue /\ Started /\ UNCHANGED tlsCrashes

\* A crash, or a restart by the administrator.
TlsCrash == Failing /\ Started

DayPasses ==
    /\ day < MaxDay /\ day' = day + 1
    /\ UNCHANGED <<made, ends, cert, key, live, pendingOrder, job, running, imports,
                   tlsCrashes, broken, byDaily>>

TlsNext ==
    \/ DayPasses \/ DailyRun \/ CopyCert \/ CopyFails
    \/ \E w \in Writer : WriteKey(w) \/ KeyFails(w)
    \/ \E t \in Target : Import(t)
    \/ RemoveSeparate \/ DnsStart \/ DnsFinish
    \/ SelfRestart \/ TlsCrash

TlsSpec == TlsInit /\ [][TlsNext]_tlsVars

\* The daily run comes again, certbot is not out of reach for ever.
TlsFairness ==
    /\ SF_tlsVars(DailyRun /\ job'["daily"].at = "copy")
    /\ SF_tlsVars(CopyCert) /\ SF_tlsVars(WriteKey("daily"))
    /\ WF_tlsVars(SelfRestart)

(***************************************************************************)
(* Properties                                                              *)
(***************************************************************************)

TlsTypeOK ==
    /\ day \in 0..MaxDay /\ made \in 1..MaxPair
    /\ ends \in [PairNo -> 0..(MaxDay + 2)]
    /\ {cert, key} \subseteq [Target -> PairNo \cup {CutShort}]
    /\ live \in PairNo /\ pendingOrder \in PairNo /\ listener \in PairNo
    /\ job \in [Writer -> [at : {"idle", "copy", "key"}, pair : PairNo,
                           target : Target, alone : BOOLEAN]]
    /\ restartDue \in BOOLEAN /\ web \in 0..Down
    /\ imports \in 0..MaxImport /\ tlsCrashes \in 0..MaxTlsCrash
    /\ broken \subseteq Target /\ byDaily \in BOOLEAN

\* Certificate and key fit, except while they are written, and after a write that
\* failed, was cut off by a restart or mixed with another one, until somebody has
\* the pair to himself: only then a start comes up without its web interface.
PairsFit ==
    /\ \A t \in Target :
          There(t) /\ ~Fits(t) =>
              t \in broken \/ \E w \in Writer : job[w].at = "key" /\ job[w].target = t
    /\ web = Down => "common" \in broken \/ restartDue

\* certbot's pair is in time in the files and in use, after whatever restart,
\* failed run or import, unless the files do not fit or their last write failed.
RenewalArrives ==
    <>[](Fits("common") /\ "common" \notin broken =>
             /\ ~Due(cert["common"])
             /\ byDaily => web = cert["common"] /\ (imports = 0 => listener = web))
===============================================================================
