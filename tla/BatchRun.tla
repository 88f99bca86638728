------------------------------- MODULE BatchRun -------------------------------
(***************************************************************************)
(* Certificates for many mailboxes at once (sammelbestellung.py).          *)
(*                                                                         *)
(* One run at a time lives in a module variable; a background task works   *)
(* off its list, one order after the other, looks again for a certificate  *)
(* before each order, pauses when the money is gone and goes on when told  *)
(* so.  Starting a run awaits the preview (price, quota, funds) between    *)
(* the check that no run is active and the assignment of the new one.      *)
(***************************************************************************)
EXTENDS Naturals, Sequences, FiniteSets, SequencesExt

CONSTANTS BatchMailbox,    \* mailboxes the operator can select
          StartSlot,       \* start requests (batch page, auto-enrolment)
          MaxFunds,        \* bound on the balance, in certificates
          MaxTopUps        \* bound on top-ups by hand

ASSUME BatchAssumption ==
    IsFiniteSet(BatchMailbox) /\ "none" \notin BatchMailbox
        /\ MaxFunds \in Nat /\ MaxTopUps \in Nat

NoRun == [status |-> "none", open |-> <<>>, done |-> {}, wish |-> FALSE]
Active == {"laeuft", "pausiert"}

VARIABLES
    run,         \* _lauf
    asking,      \* [StartSlot -> the start request: mailboxes, or none]
    worker,      \* [StartSlot -> the task the request started: where it is]
    selected,    \* mailboxes the current run was started for
    owned,       \* mailboxes with a valid certificate
    funds,       \* certificates the balance pays for
    automatic,   \* TRUE when the hub tops up by itself
    topUps,
    overlapped   \* TRUE once two tasks worked at the same time

batchVars == <<run, asking, worker, selected, owned, funds,
               automatic, topUps, overlapped>>

Idler == [at |-> "none", mail |-> "none"]
Working == {w \in StartSlot : worker[w].at # "none"}

BatchInit ==
    /\ run = NoRun
    /\ asking = [s \in StartSlot |-> {}]
    /\ worker = [s \in StartSlot |-> Idler]
    /\ selected = {}
    /\ owned \in SUBSET BatchMailbox
    /\ funds \in 0..MaxFunds
    /\ automatic \in BOOLEAN
    /\ topUps = 0
    /\ overlapped = FALSE

SpawnedBy(s) == worker' = [worker EXCEPT ![s] = [Idler EXCEPT !.at = "loop"]]

(***************************************************************************)
(* lauf_starten                                                            *)
(***************************************************************************)

\* vorschau leaves out who has a certificate.
Orderable(ms) == ms \ owned

\* Refused while a run is active; the preview reads the certificates, then
\* awaits the hub's price and quota.
AskStart(s, ms) ==
    /\ asking[s] = {} /\ worker[s] = Idler
    /\ run.status \notin Active
    /\ Orderable(ms) # {}
    /\ asking' = [asking EXCEPT ![s] = Orderable(ms)]
    /\ UNCHANGED <<run, worker, selected, owned, funds, automatic, topUps,
                   overlapped>>

\* The preview is back.  Covered, or the automatic top-up covers it: the run
\* is assigned without a second look at the one that may exist by now.
Covered(s) == automatic \/ Cardinality(asking[s]) <= funds

Launch(s) ==
    /\ asking[s] # {} /\ Covered(s)
    /\ run' = [NoRun EXCEPT !.status = "laeuft", !.open = SetToSeq(asking[s])]
    /\ selected' = asking[s]
    /\ asking' = [asking EXCEPT ![s] = {}]
    /\ SpawnedBy(s) /\ overlapped' = (Working # {})
    /\ UNCHANGED <<owned, funds, automatic, topUps>>

Decline(s) ==
    /\ asking[s] # {}
    /\ asking' = [asking EXCEPT ![s] = {}]
    /\ UNCHANGED <<run, worker, selected, owned, funds, automatic, topUps,
                   overlapped>>

(***************************************************************************)
(* lauf_abbrechen, lauf_fortsetzen                                         *)
(***************************************************************************)

CancelRun ==
    /\ run.status \in Active
    /\ run' = [run EXCEPT !.wish = TRUE]
    /\ UNCHANGED <<asking, worker, selected, owned, funds, automatic, topUps,
                   overlapped>>

Resume(s) ==
    /\ run.status = "pausiert" /\ worker[s] = Idler /\ asking[s] = {}
    /\ run' = [run EXCEPT !.status = "laeuft"]
    /\ SpawnedBy(s) /\ overlapped' = (overlapped \/ Working # {})
    /\ UNCHANGED <<asking, selected, owned, funds, automatic, topUps>>

TopUp ==
    /\ topUps < MaxTopUps /\ funds < MaxFunds
    /\ topUps' = topUps + 1 /\ funds' = funds + 1
    /\ UNCHANGED <<run, asking, worker, selected, owned, automatic, overlapped>>

(***************************************************************************)
(* _arbeiten                                                               *)
(***************************************************************************)

Finished(w) == worker' = [worker EXCEPT ![w] = Idler]
workUnchanged == <<asking, selected, automatic, topUps>>

\* Mutant: the last one is left.
OneLeft == Len(run.open) <= 1

AllTried == run.open = <<>>

\* The loop's condition and the two ways out of it.
EndLoop(w) ==
    /\ worker[w].at = "loop"
    /\ \/ /\ run.status = "laeuft" /\ AllTried
          /\ run' = [run EXCEPT !.status = "fertig"]
       \/ /\ run.status = "laeuft" /\ run.open # <<>> /\ run.wish
          /\ run' = [run EXCEPT !.status = "abgebrochen"]
       \/ run.status # "laeuft" /\ UNCHANGED run
    /\ Finished(w)
    /\ UNCHANGED <<workUnchanged, overlapped, owned, funds>>

\* The result is entered and the head of the list of the run, whichever run
\* it is by now, is taken off; with nothing to take off the task dies.
BackToLoop(w) == worker' = [worker EXCEPT ![w] = [Idler EXCEPT !.at = "loop"]]

Book(w, m) ==
    IF run.open = <<>> THEN Finished(w) /\ UNCHANGED run
    ELSE /\ run' = [run EXCEPT !.open = Tail(@), !.done = @ \cup {m}]
         /\ BackToLoop(w)

HeadReady(w) ==
    /\ worker[w].at = "loop" /\ run.status = "laeuft"
    /\ run.open # <<>> /\ ~run.wish

\* Shortly before the order: a certificate that has arrived meanwhile.
SkipServed(w) ==
    /\ HeadReady(w) /\ Head(run.open) \in owned
    /\ Book(w, Head(run.open))
    /\ UNCHANGED <<workUnchanged, overlapped, owned, funds>>

OrderHead(w) ==
    /\ HeadReady(w) /\ Head(run.open) \notin owned
    /\ worker' = [worker EXCEPT ![w] = [at |-> "order", mail |-> Head(run.open)]]
    /\ UNCHANGED <<run, workUnchanged, overlapped, owned, funds>>

\* The hub took the order, or it failed, or the owner is asked for consent.
OrderTaken(w) ==
    /\ worker[w].at = "order"
    /\ funds > 0 \/ automatic
    /\ funds' = IF funds > 0 THEN funds - 1 ELSE 0
    /\ Book(w, worker[w].mail)
    /\ UNCHANGED <<workUnchanged, overlapped, owned>>

OrderFailed(w) ==
    /\ worker[w].at = "order"
    /\ Book(w, worker[w].mail)
    /\ UNCHANGED <<workUnchanged, overlapped, owned, funds>>

\* Mutant: the head is taken off before the money is looked at.
PauseAfterPop(w) ==
    /\ worker[w].at = "order" /\ funds = 0
    /\ run' = [run EXCEPT !.status = "pausiert", !.open = Tail(@)]
    /\ Finished(w)
    /\ UNCHANGED <<workUnchanged, overlapped, owned, funds>>

\* Not enough money: the mailbox keeps its place and the run waits.
Pause(w) ==
    /\ worker[w].at = "order" /\ funds = 0
    /\ run' = [run EXCEPT !.status = "pausiert"]
    /\ Finished(w)
    /\ UNCHANGED <<workUnchanged, overlapped, owned, funds>>

(***************************************************************************)
(* Certificates come and go; a restart forgets the run                     *)
(***************************************************************************)

CertificateArrives(m) ==
    /\ m \notin owned /\ owned' = owned \cup {m}
    /\ UNCHANGED <<run, asking, worker, selected, funds, automatic, topUps,
                   overlapped>>

RestartBatch ==
    /\ run' = NoRun /\ selected' = {}
    /\ asking' = [s \in StartSlot |-> {}]
    /\ worker' = [s \in StartSlot |-> Idler]
    /\ overlapped' = FALSE
    /\ UNCHANGED <<owned, funds, automatic, topUps>>

Work(w) ==
    \/ EndLoop(w) \/ SkipServed(w) \/ OrderHead(w)
    \/ OrderTaken(w) \/ OrderFailed(w) \/ Pause(w)

BatchNext ==
    \/ \E s \in StartSlot :
          \/ \E ms \in SUBSET BatchMailbox : AskStart(s, ms)
          \/ Launch(s) \/ Decline(s) \/ Resume(s) \/ Work(s)
    \/ CancelRun \/ TopUp \/ RestartBatch
    \/ \E m \in BatchMailbox : CertificateArrives(m)

\* The event loop runs every task; nothing else is promised.
BatchSpec == /\ BatchInit /\ [][BatchNext]_batchVars
             /\ \A w \in StartSlot : WF_batchVars(Work(w))

(***************************************************************************)
(* Properties                                                              *)
(***************************************************************************)

BatchTypeOK ==
    /\ run.status \in {"none", "laeuft", "pausiert", "fertig", "abgebrochen"}
    /\ run.status = "fertig" => run.open = <<>>
    /\ Range(run.open) \subseteq BatchMailbox /\ run.done \subseteq BatchMailbox
    /\ asking \in [StartSlot -> SUBSET BatchMailbox]
    /\ worker \in [StartSlot -> [at : {"none", "loop", "order"},
                                 mail : BatchMailbox \cup {"none"}]]
    /\ automatic \in BOOLEAN /\ overlapped \in BOOLEAN
    /\ selected \subseteq BatchMailbox /\ owned \subseteq BatchMailbox
    /\ funds \in 0..MaxFunds /\ topUps \in 0..MaxTopUps

\* As long as a single task works, every mailbox the run was started for is
\* still on the list or has its own result: none is dropped by a pause, a
\* resumption or a certificate that arrived meanwhile, and none is tried twice.
NobodyDropped ==
    ~overlapped =>
        /\ selected = Range(run.open) \cup run.done
        /\ Range(run.open) \cap run.done = {}
===============================================================================
