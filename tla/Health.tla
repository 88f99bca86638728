--------------------------------- MODULE Health ---------------------------------
(***************************************************************************)
(* The state of the mailboxes on the overview (health_check.py).            *)
(*                                                                          *)
(* The scheduler thread and the button of an administrator each run the     *)
(* check in a loop of their own.  One PowerShell session looks at all       *)
(* mailboxes, and repairs what is missing at Exchange; the mailboxes follow *)
(* one after the other, and each one's entry goes into a copy of the whole  *)
(* table that is then stored.  A test signature in the vault is paid for,   *)
(* so one that succeeded counts for a day.                                  *)
(***************************************************************************)
EXTENDS Integers

CONSTANTS
    Checked,      \* mailboxes
    Checker,      \* the scheduler, the button
    KvValid,      \* _KV_GUELTIG, in units of the clock
    MaxHour,      \* the clock stops there
    MaxCheck,     \* bound on the rounds
    MaxTurn       \* bound on changes from outside

ASSUME HealthAssumption ==
    /\ KvValid \in Nat \ {0} /\ {MaxHour, MaxCheck, MaxTurn} \subseteq Nat
    /\ Checked \cap {"idle", "prune", "batch", "next", "store"} = {}

VARIABLES
    hour,
    on,           \* MAILBOX_CONFIG
    signing,      \* mailboxes with S/MIME whose default key is in the vault
    plus,         \* REINJECT_MODE is graph_plus
    members, access,   \* Exchange: members of the group; mailboxes with FullAccess
    signable,        \* mailboxes whose key the vault would sign with just now
    health,       \* MAILBOX_HEALTH
    round,        \* each checker: the run under way
    rounds, healthTurns,
    probes,       \* history: the signatures that succeeded
    seen          \* history: memberships Exchange confirmed, or would not add in
                  \* words that speak of a member

healthWorld == <<on, signing, plus, signable>>
healthVars == <<hour, on, signing, plus, members, access, signable, health, round,
                rounds, healthTurns, probes, seen>>

\* _make_result: what was found, and when.
Found(status) == [status |-> status, at |-> hour]
Skip == [status |-> "skip", at |-> 0]
Pending == [status |-> "pending", at |-> 0]   \* no result of the test yet
NotChecked == [member |-> Skip, access |-> Skip, kv |-> Skip, rest |-> TRUE, at |-> -1]
Verdict == {"none", "error", "ok", "fixed"}
NoRound == [left |-> {}, member |-> [m \in Checked |-> "none"],
            access |-> [m \in Checked |-> "none"], pc |-> "idle", kv |-> Pending,
            copy |-> [m \in Checked |-> NotChecked]]

HealthInit ==
    /\ hour = 0 /\ on = Checked /\ signing = Checked /\ plus = TRUE
    /\ members = Checked /\ access = Checked /\ signable = Checked
    /\ health = [m \in Checked |-> NotChecked] /\ round = [c \in Checker |-> NoRound]
    /\ rounds = 0 /\ healthTurns = 0 /\ probes = {} /\ seen = {}

(***************************************************************************)
(* A round                                                                 *)
(***************************************************************************)

\* _veraltete_entfernen: the entries of mailboxes no longer configured go.
Current == [m \in Checked |-> IF m \in on THEN health[m] ELSE NotChecked]

\* What follows: the session after the pruning, the next mailbox after an entry;
\* without a mailbox left the round is over.
Onwards(r) ==
    IF r.left = {} THEN NoRound
    ELSE [r EXCEPT !.pc = IF r.pc = "prune" THEN "batch" ELSE "next",
                   !.kv = Pending, !.copy = NoRound.copy]

\* run_all_checks takes the list of the mailboxes; where an entry has to go, the
\* table without it is stored first.
BeginRound(c) ==
    LET begun == [NoRound EXCEPT !.left = on, !.copy = Current, !.pc = "prune"]
    IN  /\ round[c].pc = "idle" /\ rounds < MaxCheck /\ rounds' = rounds + 1
        /\ round' = [round EXCEPT ![c] = IF Current = health THEN Onwards(begun) ELSE begun]
        /\ UNCHANGED <<hour, healthWorld, members, access, health, healthTurns, probes, seen>>

\* What the session says of each mailbox: who is there, who was put there, and
\* who is taken to be there.
Says(list, there, new) ==
    [m \in Checked |-> IF m \notin list THEN "none" ELSE IF m \in there THEN "ok"
                       ELSE IF m \in new THEN "fixed" ELSE "error"]

\* _check_exo_batch_sync: what is missing is repaired, where Exchange lets it.  An
\* error over adding a member counts as membership when its text has "member",
\* "already" or "Duplicate" in it.  FullAccess matters in graph_plus only, and
\* only when the service principal is found.
Batch(c) ==
    LET list == round[c].left
        look == plus
    IN  /\ round[c].pc = "batch"
        /\ \E new, taken \in SUBSET (list \ members) :
             /\ new \cap taken = {}
             /\ members' = members \cup new
             /\ seen' = seen \cup {<<m, hour>> : m \in list \cap (members \cup new \cup taken)}
             /\ \E granted \in IF look THEN SUBSET (list \ access) ELSE {{}} :
                  /\ access' = access \cup granted
                  /\ \E found \in {look, FALSE} :
                       /\ ~found => granted = {}
                       /\ round' = [round EXCEPT ![c] =
                              [@ EXCEPT !.pc = "next", !.member = Says(list, members \cup taken, new),
                                        !.access = IF found THEN Says(list, access, granted)
                                                   ELSE NoRound.access]]
    /\ UNCHANGED <<hour, healthWorld, health, rounds, healthTurns, probes>>

\* Nothing usable comes back: no certificate, no connection, no group, an answer
\* that cannot be read.  After a timeout the repairs may be done all the same.
BatchFails(c) ==
    LET list == round[c].left
    IN  /\ round[c].pc = "batch"
        /\ \E new \in SUBSET (list \ members) : members' = members \cup new
        /\ \E granted \in IF plus THEN SUBSET (list \ access) ELSE {{}} :
             access' = access \cup granted
        /\ round' = [round EXCEPT ![c] = [@ EXCEPT !.pc = "next",
                       !.member = [m \in Checked |-> IF m \in list THEN "error" ELSE "none"]]]
        /\ UNCHANGED <<hour, healthWorld, health, rounds, healthTurns, probes, seen>>

\* _kv_frisch: the result of a former round, while it counts.
Fresh(kv) == kv.status = "ok" /\ hour - kv.at < KvValid
\* Mutant: the result that is handed on gets the time of the round.
ReusedAsNew(kv) == [kv EXCEPT !.at = hour]
Reused(kv) == kv

\* The checks that only read, TRUE for "ok" and "skip"; a key that is in the
\* vault is one that exists.
MailboxCheck == BOOLEAN
TemplateCheck == BOOLEAN
GraphCheck == BOOLEAN
AbsenceCheck == BOOLEAN
AddinCheck == BOOLEAN
CertCheck == BOOLEAN
KeyCheck(m) == IF m \in signing THEN {TRUE} ELSE BOOLEAN
ReadOnly(m) ==
    {fine \in BOOLEAN :
       \E b \in MailboxCheck, t \in TemplateCheck, g \in GraphCheck, x \in AbsenceCheck,
          i \in AddinCheck, q \in CertCheck, k \in KeyCheck(m) :
            fine = (b /\ t /\ g /\ x /\ i /\ q /\ k)}

\* run_checks_for_mailbox up to the test signature; a mailbox whose former one
\* still counts is not tested.
LookAt(c, m) ==
    /\ round[c].pc = "next" /\ m \in round[c].left
    /\ round' = [round EXCEPT ![c] = [@ EXCEPT !.pc = m, !.kv =
                    CASE m \notin signing -> Skip
                      [] m \in signing /\ Fresh(health[m].kv) -> Reused(health[m].kv)
                      [] OTHER -> Pending]]
    /\ UNCHANGED <<hour, healthWorld, members, access, health, rounds, healthTurns, probes, seen>>

\* _check_kv_sign: the vault signs a digest, or it does not.
ProbeResult(m) == Found(IF m \in signable THEN "ok" ELSE "error")
Probe(c, m) ==
    /\ round[c].pc = m /\ round[c].kv = Pending
    /\ round' = [round EXCEPT ![c].kv = ProbeResult(m)]
    /\ probes' = IF m \in signable THEN probes \cup {<<m, hour>>} ELSE probes
    /\ UNCHANGED <<hour, healthWorld, members, access, health, rounds, healthTurns, seen>>

\* The entry of one mailbox; FullAccess is read by the mode of this moment.
Entry(c, m, fine) ==
    [member |-> Found(round[c].member[m]),
     access |-> IF plus /\ round[c].access[m] # "none" THEN Found(round[c].access[m]) ELSE Skip,
     kv |-> round[c].kv, rest |-> fine, at |-> hour]

\* It goes into a copy of the table, also when the mailbox was switched off
\* meanwhile.
TakeDown(c, m) ==
    /\ round[c].pc = m /\ round[c].kv # Pending
    /\ \E fine \in ReadOnly(m) :
         round' = [round EXCEPT ![c] =
            [round[c] EXCEPT !.left = @ \ {m}, !.pc = "store", !.kv = Pending,
                             !.copy = [health EXCEPT ![m] = Entry(c, m, fine)]]]
    /\ UNCHANGED <<hour, healthWorld, members, access, health, rounds, healthTurns, probes, seen>>

\* The copy becomes the table: with it, what another thread has put into the
\* table since goes.
StoreTable(c) ==
    /\ round[c].pc \in {"prune", "store"}
    /\ health' = round[c].copy
    /\ round' = [round EXCEPT ![c] = Onwards(round[c])]
    /\ UNCHANGED <<hour, healthWorld, members, access, rounds, healthTurns, probes, seen>>

\* An exception in a mailbox's checks: the former entry stays.
Skipped(c, m) ==
    /\ round[c].pc = m
    /\ round' = [round EXCEPT ![c] = Onwards([round[c] EXCEPT !.left = @ \ {m}])]
    /\ UNCHANGED <<hour, healthWorld, members, access, health, rounds, healthTurns, probes, seen>>

\* A restart; the entries are in the settings.
HealthRestart ==
    /\ \E c \in Checker : round[c].pc # "idle"
    /\ round' = [c \in Checker |-> NoRound]
    /\ UNCHANGED <<hour, healthWorld, members, access, health, rounds, healthTurns, probes, seen>>

(***************************************************************************)
(* What happens around it                                                  *)
(***************************************************************************)

Turned(set, m) == IF m \in set THEN set \ {m} ELSE set \cup {m}

\* The page of the mailboxes and of the settings, the vault, Exchange's
\* administrators.
HealthTurn ==
    /\ healthTurns < MaxTurn /\ healthTurns' = healthTurns + 1
    /\ \/ \E m \in Checked : /\ on' = Turned(on, m)
                             /\ UNCHANGED <<signing, plus, members, access, signable>>
       \/ \E m \in Checked : /\ signing' = Turned(signing, m)
                             /\ UNCHANGED <<on, plus, members, access, signable>>
       \/ plus' = ~plus /\ UNCHANGED <<on, signing, members, access, signable>>
       \/ \E m \in members : /\ members' = members \ {m}
                             /\ UNCHANGED <<on, signing, plus, access, signable>>
       \/ \E m \in access : /\ access' = access \ {m}
                            /\ UNCHANGED <<on, signing, plus, members, signable>>
       \/ \E m \in Checked : /\ signable' = Turned(signable, m)
                             /\ UNCHANGED <<on, signing, plus, members, access>>
    /\ UNCHANGED <<hour, health, round, rounds, probes, seen>>

\* Half a day; a round takes less.
HealthTick ==
    /\ hour < MaxHour /\ hour' = hour + 1
    /\ \A c \in Checker : round[c].pc = "idle"
    /\ UNCHANGED <<healthWorld, members, access, health, round, rounds, healthTurns, probes, seen>>

HealthNext ==
    \/ \E c \in Checker : BeginRound(c) \/ Batch(c) \/ BatchFails(c) \/ StoreTable(c)
    \/ \E c \in Checker, m \in Checked :
         LookAt(c, m) \/ Probe(c, m) \/ TakeDown(c, m) \/ Skipped(c, m)
    \/ HealthRestart \/ HealthTurn \/ HealthTick

HealthSpec == HealthInit /\ [][HealthNext]_healthVars

-----------------------------------------------------------------------------
Result == [status : Verdict \cup {"skip"}, at : 0..MaxHour]

HealthTypeOK ==
    /\ hour \in 0..MaxHour /\ on \subseteq Checked /\ signing \subseteq Checked
    /\ plus \in BOOLEAN /\ members \subseteq Checked /\ access \subseteq Checked
    /\ signable \subseteq Checked
    /\ health \in [Checked -> [member : Result, access : Result, kv : Result, rest : BOOLEAN,
                           at : -1..MaxHour]]
    /\ \A c \in Checker : round[c].left \subseteq Checked /\ round[c].kv \in Result \cup {Pending}
    /\ rounds \in 0..MaxCheck /\ healthTurns \in 0..MaxTurn

\* _compute_overall
Green(entry) ==
    /\ entry.rest
    /\ \A r \in {entry.member, entry.access, entry.kv} : r.status \in {"ok", "skip"}

\* A green mailbox has been looked at: at the time its entry names, Exchange
\* confirmed its membership or would not add it in words that speak of a member,
\* and if its keys are said to work then a signature succeeded at the time that is
\* written there, less than a day before, however many rounds handed the result
\* on and whichever thread's copy of the table was stored last.
GreenIsEarned ==
    \A m \in Checked : health[m].at >= 0 /\ Green(health[m]) =>
        /\ <<m, health[m].at>> \in seen
        /\ health[m].kv.status = "ok" =>
             /\ <<m, health[m].kv.at>> \in probes
             /\ health[m].at - health[m].kv.at < KvValid
=============================================================================
