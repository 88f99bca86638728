------------------------------- MODULE Forwarding -------------------------------
(***************************************************************************)
(* The brake on circles between two gateways: mail of a foreign tenant is  *)
(* passed on unchanged, without a mark, and may come back (the tenant      *)
(* route of handler.handle_DATA, app/domain_routing.py).  Exchange Online  *)
(* keeps a mail it got no 250 for; the brake counts in memory.             *)
(***************************************************************************)
EXTENDS Naturals, FiniteSets

CONSTANTS
  MessageId,     \* mails of the foreign tenant
  Fork,          \* sets of recipients Exchange splits a mail by
  LoopMax,       \* SCHLEIFE_MAX
  Window,        \* SCHLEIFE_FENSTER_S
  MaxNow,        \* bound on the time
  MaxCopies,     \* bound on the times a mail is passed on within a minute
  MaxRestarts    \* bound on the restarts within a minute

ASSUME ForwardingAssumption ==
  LoopMax \in Nat \ {0} /\ MaxNow \in Nat \ {0} /\ {Window, MaxCopies, MaxRestarts} \subseteq Nat

Visit == MessageId \X Fork
Stamp == (1..MaxNow) \X Nat     \* a float of time.time(), no two alike: a minute and a number in it

VARIABLES
  nameless,      \* mails without a Message-ID
  queued,        \* [Visit -> copies at Exchange Online, addressed to this gateway]
  away,          \* [Visit -> copies the target has]
  seen,          \* _weitergeleitet: [Visit -> stamps of its forwarding]
  now,           \* time.time()
  passed,        \* history: [Visit -> stamps of all times it was passed on and counted]
  restarts       \* history: stamps of the restarts

forwardingVars == <<nameless, queued, away, seen, now, passed, restarts>>

(* Mutant: a mail is known by its Message-ID alone.                        *)
KeyById(v) == {w \in Visit : w[1] = v[1]}

(* _schleifen_schluessel: the visits that share an entry.                  *)
LoopKey(v) == {v}

(* The stamps that are in the window now; the next one of this minute.     *)
InWindow(stamps) == {s \in stamps : s[1] + Window > now}
NextStamp(stamps, n) ==
  <<now, n>> \notin stamps /\ \A k \in 1..(n - 1) : <<now, k>> \in stamps

(* _frische: what has left the window does not count.                      *)
Recent(v) == InWindow(seen[v])

(* Mutant: off by one.                                                     *)
LoopLate(v) == \E w \in LoopKey(v) : Cardinality(Recent(w)) > LoopMax

IsLoop(v) == \E w \in LoopKey(v) : Cardinality(Recent(w)) >= LoopMax       \* ist_schleife

-----------------------------------------------------------------------------
ForwardingInit ==
  /\ nameless \in SUBSET MessageId
  /\ queued = [v \in Visit |-> 1] /\ away = [v \in Visit |-> 0]
  /\ seen = [v \in Visit |-> {}] /\ now = 1
  /\ passed = [v \in Visit |-> {}] /\ restarts = {}

(* 554: the mail is over.                                                  *)
RejectLoop(v) ==
  /\ queued[v] > 0 /\ IsLoop(v)
  /\ queued' = [queued EXCEPT ![v] = @ - 1]
  /\ UNCHANGED <<nameless, away, seen, now, passed, restarts>>

(* A mail without a Message-ID is not known again, and goes uncounted.     *)
Uncounted(v) == v[1] \in nameless

ForwardUncounted(v) ==
  /\ queued[v] > 0 /\ Uncounted(v)
  /\ queued' = [queued EXCEPT ![v] = @ - 1] /\ away' = [away EXCEPT ![v] = @ + 1]
  /\ UNCHANGED <<nameless, seen, now, passed, restarts>>

(* The hop takes it, and merke_weiterleitung counts it; nothing else runs  *)
(* in the SMTP thread in between.                                          *)
Forward(v, n) ==
  /\ queued[v] > 0 /\ ~Uncounted(v) /\ ~IsLoop(v) /\ NextStamp(passed[v], n)
  /\ queued' = [queued EXCEPT ![v] = @ - 1] /\ away' = [away EXCEPT ![v] = @ + 1]
  /\ seen' = [seen EXCEPT ![v] = Recent(v) \cup {<<now, n>>}]
  /\ passed' = [passed EXCEPT ![v] = @ \cup {<<now, n>>}]
  /\ UNCHANGED <<nameless, now, restarts>>

(* The hop takes it but the answer is lost: 451, not counted, and Exchange *)
(* sends it again.  A hop that does not take it leaves everything as it is. *)
ForwardUnheard(v) ==
  /\ queued[v] > 0 /\ ~IsLoop(v) /\ away[v] = 0
  /\ away' = [away EXCEPT ![v] = 1]
  /\ UNCHANGED <<nameless, queued, seen, now, passed, restarts>>

(* The other side delivers a copy, or sends it back.                       *)
Arrive(v) ==
  /\ away[v] > 0 /\ away' = [away EXCEPT ![v] = @ - 1]
  /\ \/ queued' = [queued EXCEPT ![v] = @ + 1] /\ queued[v] = 0
     \/ UNCHANGED queued
  /\ UNCHANGED <<nameless, seen, now, passed, restarts>>

ForgetLoops(n) ==
  /\ NextStamp(restarts, n)
  /\ restarts' = restarts \cup {<<now, n>>} /\ seen' = [v \in Visit |-> {}]
  /\ UNCHANGED <<nameless, queued, away, now, passed>>

Pass ==
  /\ now < MaxNow /\ now' = now + 1
  /\ UNCHANGED <<nameless, queued, away, seen, passed, restarts>>

ForwardingNext ==
  \/ \E v \in Visit :
       \/ RejectLoop(v) \/ ForwardUnheard(v) \/ ForwardUncounted(v) \/ Arrive(v)
       \/ \E n \in 1..MaxCopies : Forward(v, n)
  \/ \E n \in 1..MaxRestarts : ForgetLoops(n)
  \/ Pass

ForwardingSpec == ForwardingInit /\ [][ForwardingNext]_forwardingVars

-----------------------------------------------------------------------------
(* Type correctness.                                                       *)
ForwardingTypeOK ==
  /\ nameless \subseteq MessageId
  /\ queued \in [Visit -> 0..1] /\ away \in [Visit -> 0..2]
  /\ {seen, passed} \subseteq [Visit -> SUBSET Stamp] /\ now \in 1..MaxNow
  /\ restarts \subseteq Stamp

(* "innerhalb des Fensters hoechstens SCHLEIFE_MAX-mal": whatever the other *)
(* side sends back, a mail that has a Message-ID is passed on to the same   *)
(* recipients a bounded number of times in any window; every restart allows *)
(* LoopMax more (the comment at SCHLEIFE_MAX), and an answer that is lost   *)
(* is not counted.                                                          *)
LoopBraked ==
  \A v \in Visit :
    Cardinality(InWindow(passed[v])) <= LoopMax * (1 + Cardinality(InWindow(restarts)))

(* A fork is no loop: a mail is rejected only after this very fork was     *)
(* passed on LoopMax times in the window.                                  *)
ForksPass ==
  [][\A v \in Visit : queued'[v] < queued[v] /\ away'[v] = away[v]
       => Cardinality(InWindow(passed[v])) >= LoopMax]_forwardingVars
==================================================================================
