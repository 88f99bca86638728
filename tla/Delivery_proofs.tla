---------------------------- MODULE Delivery_proofs ----------------------------
(***************************************************************************)
(* Proofs about the delivery machinery of Delivery, for every number of    *)
(* mails, recipients and transactions, every routing, mode, retry cadence  *)
(* and set of faults.                                                      *)
(***************************************************************************)
EXTENDS Delivery, TLAPS

USE DeliveryAssumption

(* A stage of send(): a program counter and the Graph call it is about.    *)
Stage == [pc : PC \ {"hold", "fail", "mark", "write"}, call : Call]

(* Every stage but the last one of mark_retry_failed.                      *)
AnyStage == [pc : PC \ {"write"}, call : Call]

(* The stages are well typed, and send() is done only with nobody left.    *)
LEMMA PathStageType ==
  ASSUME NEW m \in Mail
  PROVE  PathStage(m) \in Stage /\ PathStage(m).pc # "done"
BY DEF PathStage, Stage, At, PC, Call

LEMMA MixedStageType ==
  ASSUME NEW m \in Mail
  PROVE  MixedStage(m) \in Stage /\ MixedStage(m).pc # "done"
BY PathStageType DEF MixedStage, Stage, At, PC, Call

LEMMA ForkStageType ==
  ASSUME NEW m \in Mail, NEW S \in SUBSET Rcpt
  PROVE  ForkStage(m, S) \in Stage /\ ForkStage(m, S).pc # "done"
BY PathStageType, MixedStageType DEF ForkStage, Stage, At, PC, Call

LEMMA SendStageType ==
  ASSUME NEW m \in Mail, NEW S \in SUBSET Rcpt
  PROVE  SendStage(m, S) \in Stage /\ SendStage(m, S).pc # "done"
BY ForkStageType DEF SendStage, Stage, At, PC, Call

LEMMA StartStageType ==
  ASSUME NEW m \in Mail, NEW S \in SUBSET Rcpt
  PROVE  /\ StartStage(m, S) \in Stage
         /\ StartStage(m, S).pc = "done" => S = {}
BY SendStageType DEF StartStage, Stage, At, PC, Call

(* Goto changes the stage of a job and nothing else.                       *)
LEMMA GotoType ==
  ASSUME NEW t \in Thread, NEW j \in JobOf(t), NEW s \in AnyStage
  PROVE  /\ Goto(j, s) \in JobOf(t)
         /\ Goto(j, s).pc = s.pc /\ Goto(j, s).call = s.call
         /\ Goto(j, s).mid = j.mid /\ Goto(j, s).all = j.all
         /\ Goto(j, s).todo = j.todo /\ Goto(j, s).bad = j.bad
         /\ Goto(j, s).fork = j.fork /\ Goto(j, s).hid = j.hid
         /\ Goto(j, s).second = j.second /\ Goto(j, s).snap = j.snap
BY DEF Goto, Job, JobOf, AnyStage

(* A new job carries all its recipients, none of them handled.             *)
LEMMA NewSmtpJobType ==
  ASSUME NEW m \in Mail, NEW S \in SUBSET Rcpt, NEW f \in Fork, NEW sec \in BOOLEAN
  PROVE  LET j == NewJob(m, S, f, None, sec) IN
         /\ j \in JobOf("smtp") /\ j.pc = StartStage(m, S).pc
         /\ j.mid = m /\ j.all = S /\ j.todo = S /\ j.bad = {} /\ j.fork = f
BY StartStageType DEF NewJob, Job, JobOf, Stage, PC

LEMMA NewHeldJobType ==
  ASSUME NEW t \in {"sched", "web"}, NEW m \in Mail, NEW S \in SUBSET Rcpt,
         NEW h \in HeldId
  PROVE  LET j == NewJob(m, S, None, h, FALSE) IN
         /\ j \in JobOf(t) /\ j.pc = StartStage(m, S).pc
         /\ j.mid = m /\ j.all = S /\ j.todo = S /\ j.bad = {} /\ j.hid = h
BY StartStageType DEF NewJob, Job, JobOf, Stage, PC

-----------------------------------------------------------------------------
(* Type correctness.                                                       *)

LEMMA NoteType ==
  ASSUME NEW m \in Mail, NEW S \in SUBSET Rcpt, NEW c \in Cause
  PROVE  Note(m, S, c) \subseteq Pair \X Cause
BY DEF Note, PairsOf, Pair

LEMMA PairsOfType ==
  ASSUME NEW m \in Mail, NEW S \in SUBSET Rcpt
  PROVE  PairsOf(m, S) \subseteq Pair
BY DEF PairsOf, Pair

LEMMA CadenceType ==
  ASSUME NEW n \in Nat
  PROVE  Cadence(n) \in 0..LongestWait
BY DEF Cadence, LongestWait

LEMMA NewEntryType ==
  ASSUME NEW m \in Mail, NEW S \in SUBSET Rcpt,
         NEW why \in {"delivery_failed", "maintenance"}
  PROVE  /\ NewEntry(m, S, why) \in Entry
         /\ [NewEntry(m, S, why) EXCEPT !.torn = TRUE] \in Entry
         /\ NewEntry(m, S, why).mid = m /\ NewEntry(m, S, why).to = S
         /\ ~NewEntry(m, S, why).torn
<1>1. Cadence(0) \in 0..LongestWait
  BY CadenceType
<1>2. 0 \in 0..TriesCap /\ 0 \in 0..GiveUp /\ 0 \in 0..LongestWait
  BY DEF TriesCap, LongestWait
<1> QED
  BY <1>1, <1>2 DEF NewEntry, Entry

LEMMA FailedType ==
  ASSUME NEW e \in Entry
  PROVE  /\ Failed(e) \in Entry
         /\ Failed(e).mid = e.mid /\ Failed(e).to = e.to /\ Failed(e).torn = e.torn
<1> DEFINE n == IF e.tries < TriesCap THEN e.tries + 1 ELSE TriesCap
<1>1. n \in 0..TriesCap /\ n \in Nat
  BY DEF Entry, TriesCap
<1>2. Cadence(n) \in 0..LongestWait
  BY <1>1, CadenceType
<1>3. (e.age >= GiveUp) \in BOOLEAN /\ 0 \in 0..LongestWait
  BY DEF Entry, LongestWait
<1> HIDE DEF n
<1>4. Failed(e) = [e EXCEPT !.tries = n, !.over = e.age >= GiveUp,
                            !.wait = IF e.age >= GiveUp THEN 0 ELSE Cadence(n)]
  BY DEF Failed, n
<1> QED
  BY <1>1, <1>2, <1>3, <1>4 DEF Entry

LEMMA StoreType ==
  ASSUME TypeOK
  PROVE  /\ Kept \in [HeldId -> Entry \cup {None}]
         /\ OlderKept \subseteq HeldId \X HeldId
         /\ Lost \subseteq Pair \X Cause
<1>1. ASSUME NEW id \in Evicted
      PROVE  Note(held[id].mid, held[id].to, "evicted") \subseteq Pair \X Cause
  <2>1. id \in HeldId /\ held[id] \in Entry
    BY <1>1 DEF TypeOK, Evicted, Files
  <2>2. held[id].mid \in Mail /\ held[id].to \in SUBSET Rcpt /\ "evicted" \in Cause
    BY <2>1 DEF Entry, Cause
  <2> QED
    BY <2>2, NoteType
<1>2. Lost \subseteq Pair \X Cause
  BY <1>1 DEF Lost
<1> QED
  BY <1>2 DEF TypeOK, Kept, OlderKept

LEMMA WriteNewType ==
  ASSUME TypeOK, NEW id \in HeldId, NEW e \in Entry, WriteNew(id, e)
  PROVE  /\ held' \in [HeldId -> Entry \cup {None}]
         /\ older' \subseteq HeldId \X HeldId
BY StoreType DEF WriteNew, Files

LEMMA OutcomeType ==
  ASSUME NEW m \in Mail, NEW S \in SUBSET Rcpt
  PROVE  /\ \A o \in SmtpOutcome(S) : o.got \in SUBSET S /\ o.ok \in BOOLEAN
         /\ \A o \in GraphOutcome(m, S) : o.got \in SUBSET S /\ o.ok \in BOOLEAN
BY DEF SmtpOutcome, GraphOutcome, Outcome

(* Every outcome recorded by Deliver keeps the history well typed.         *)
LEMMA DeliverType ==
  ASSUME TypeOK, NEW m \in Mail, NEW S \in SUBSET Rcpt, Deliver(m, S)
  PROVE  delivered' \subseteq Pair
BY PairsOfType DEF Deliver, TypeOK

LEMMA DestType ==
  ASSUME NEW j \in Job
  PROVE  Dest(j) \in SUBSET Rcpt
BY DEF Dest, Job

(* What get_raw returns.                                                   *)
LEMMA ReadableEntry ==
  ASSUME TypeOK, NEW id \in HeldId, Readable(id)
  PROVE  /\ held[id] \in Entry /\ ~held[id].torn
         /\ held[id].mid \in Mail /\ held[id].to \in SUBSET Rcpt
BY DEF Readable, TypeOK, Entry

(* A job that runs is a job.                                               *)
LEMMA RunningJob ==
  ASSUME TypeOK, NEW t \in Thread, job[t] # None
  PROVE  /\ job[t] \in JobOf(t) /\ job[t] \in Job
         /\ job[t].mid \in Mail /\ job[t].all \in SUBSET Rcpt
         /\ job[t].todo \in SUBSET Rcpt /\ job[t].bad \in SUBSET Rcpt
         /\ job[t].fork \in Fork \cup {None} /\ job[t].hid \in HeldId \cup {None}
         /\ IF t = "smtp" THEN job[t].fork \in Fork /\ job[t].hid = None
            ELSE job[t].fork = None /\ job[t].hid \in HeldId
BY DEF TypeOK, JobTypeOK, JobOf, Job

(* The ages a registration starts with and ends with.                      *)
LEMMA AgeRange ==
  /\ 0 \in 0..(DedupTtl + 1) /\ DedupTtl + 1 \in 0..(DedupTtl + 1)
  /\ 0 \in 0..(ForkTtl + 1) /\ ForkTtl + 1 \in 0..(ForkTtl + 1)
OBVIOUS

LEMMA AgedRange ==
  ASSUME NEW top \in Nat, NEW a \in 0..top
  PROVE  Aged(a, top) \in 0..top
BY DEF Aged

(* A held mail after a minute.                                             *)
LEMMA AgedEntry ==
  ASSUME NEW e \in Entry
  PROVE  LET a == [e EXCEPT !.age = Aged(@, GiveUp),
                            !.wait = IF @ > 0 THEN @ - 1 ELSE 0] IN
         /\ a \in Entry
         /\ a.mid = e.mid /\ a.to = e.to /\ a.torn = e.torn
<1>1. e.age \in 0..GiveUp /\ e.wait \in 0..LongestWait
  BY DEF Entry
<1>2. Aged(e.age, GiveUp) \in 0..GiveUp
  BY <1>1, AgedRange
<1>3. (IF e.wait > 0 THEN e.wait - 1 ELSE 0) \in 0..LongestWait
  BY <1>1 DEF LongestWait
<1> QED
  BY <1>1, <1>2, <1>3 DEF Entry

(* Replacing one thread's job by a job, or by none.                        *)
LEMMA SetJobType ==
  ASSUME TypeOK, NEW t \in Thread, NEW j \in JobOf(t) \cup {None}, SetJob(t, j)
  PROVE  JobTypeOK'
BY DEF SetJob, TypeOK, JobTypeOK, JobOf

LEMMA TransferType ==
  ASSUME TypeOK, NEW t \in Thread, job[t] # None,
         NEW S \in SUBSET Rcpt, Transfer(t, S)
  PROVE  TypeOK'
<1> DEFINE j == job[t]
           rest == [j EXCEPT !.todo = @ \ S]
<1>1. j \in JobOf(t) /\ j.mid \in Mail /\ j.todo \in SUBSET Rcpt
  BY RunningJob
<1>2. rest \in JobOf(t) /\ rest.todo \in SUBSET Rcpt /\ [rest EXCEPT !.bad = S] \in JobOf(t)
  BY <1>1 DEF Job, JobOf
<1>3. PICK o \in SmtpOutcome(S) :
        /\ Deliver(j.mid, o.got)
        /\ gone' = gone \cup (IF o.ok THEN Note(j.mid, S \ o.got, "refused") ELSE {})
        /\ SetJob(t, IF o.ok THEN Goto(rest, StartStage(j.mid, rest.todo))
                     ELSE Goto([rest EXCEPT !.bad = S], At("fail", "none")))
        /\ UNCHANGED <<exch, store, memory, bookkeeping>>
  BY DEF Transfer
<1>4. o.got \in SUBSET Rcpt /\ o.ok \in BOOLEAN
  BY <1>1, OutcomeType
<1>5. StartStage(j.mid, rest.todo) \in AnyStage
  BY <1>1, <1>2, StartStageType DEF Stage, AnyStage
<1>6. At("fail", "none") \in AnyStage
  BY DEF At, PC, Call, AnyStage
<1>7. JobTypeOK'
  <2>1. Goto(rest, StartStage(j.mid, rest.todo)) \in JobOf(t)
    BY <1>2, <1>5, GotoType
  <2>2. Goto([rest EXCEPT !.bad = S], At("fail", "none")) \in JobOf(t)
    BY <1>2, <1>6, GotoType
  <2> HIDE DEF rest
  <2> QED
    BY <1>3, <1>4, <2>1, <2>2, SetJobType
<1>8. delivered' \subseteq Pair
  BY <1>1, <1>3, <1>4, DeliverType
<1>9. gone' \subseteq Pair \X Cause
  <2>1. Note(j.mid, S \ o.got, "refused") \subseteq Pair \X Cause
    BY <1>1, NoteType DEF Cause
  <2> QED
    BY <1>3, <2>1 DEF TypeOK
<1> HIDE DEF rest
<1> QED
  BY <1>3, <1>7, <1>8, <1>9 DEF TypeOK, store, memory, bookkeeping

LEMMA RaiseType ==
  ASSUME TypeOK, NEW t \in Thread, job[t] # None,
         NEW lost \in SUBSET (Pair \X Cause), Raise(t, lost)
  PROVE  /\ exch' \in [Fork -> {"queued", "busy", "taken"}]
         /\ JobTypeOK'
         /\ told' \subseteq Pair
         /\ gone' \subseteq Pair \X Cause
<1> DEFINE j == job[t]
<1>1. /\ j \in JobOf(t) /\ j.mid \in Mail /\ j.all \in SUBSET Rcpt
      /\ t = "smtp" => j.fork \in Fork
  BY RunningJob
<1>2. t = "smtp" => NewJob(j.mid, j.all, j.fork, None, TRUE) \in JobOf(t)
  BY <1>1, NewSmtpJobType
<1>3. Goto(j, At("mark", "none")) \in JobOf(t)
  BY <1>1, GotoType DEF At, PC, Call, AnyStage, Thread
<1>4. /\ PairsOf(j.mid, j.all) \subseteq Pair
      /\ Note(j.mid, j.all, "unreported") \subseteq Pair \X Cause
  BY <1>1, PairsOfType, NoteType DEF Cause
<1>5. JobTypeOK'
  BY <1>2, <1>3, SetJobType DEF Raise
<1>6. exch' \in [Fork -> {"queued", "busy", "taken"}]
  BY DEF Raise, TypeOK
<1>7. told' \subseteq Pair
  BY <1>4 DEF Raise, TypeOK
<1>8. gone' \subseteq Pair \X Cause
  BY <1>4 DEF Raise, TypeOK
<1> QED
  BY <1>5, <1>6, <1>7, <1>8

LEMMA StepType ==
  ASSUME TypeOK, NEW t \in Thread, Step(t)
  PROVE  TypeOK'
<1> DEFINE j == job[t]
<1>1. job[t] # None
  BY DEF Step, RelayGroup, SmtpSend, AsSender, ForkCheck, GraphCheck,
         GraphRegister, GraphPost, ImapAppend, FailDelivery, MaintenanceHold, Finish
<1>2. /\ j \in JobOf(t) /\ j \in Job /\ j.mid \in Mail /\ j.all \in SUBSET Rcpt
      /\ j.todo \in SUBSET Rcpt /\ j.bad \in SUBSET Rcpt
  BY <1>1, RunningJob
<1>3. [j EXCEPT !.todo = {}] \in JobOf(t) /\ [j EXCEPT !.bad = {}] \in JobOf(t)
  BY <1>2 DEF Job, JobOf
<1>4. At("done", "none") \in AnyStage
  BY DEF At, PC, Call, AnyStage
<1>5. Goto([j EXCEPT !.todo = {}], At("done", "none")) \in JobOf(t)
  BY <1>3, <1>4, GotoType
<1>6. Dest(j) \in SUBSET Rcpt
  BY <1>2, DestType
<1>7. GraphFalse(j) \in JobOf(t)
  <2>1. Goto(j, ForkStage(j.mid, j.todo)) \in JobOf(t)
    BY <1>2, ForkStageType, GotoType DEF Stage, AnyStage
  <2>2. Goto(j, PathStage(j.mid)) \in JobOf(t)
    BY <1>2, PathStageType, GotoType DEF Stage, AnyStage
  <2>3. Goto(j, At("smtp", "none")) \in JobOf(t) /\ Goto(j, At("imap", "none")) \in JobOf(t)
    BY <1>2, GotoType DEF At, PC, Call, AnyStage, Thread
  <2>4. Goto([j EXCEPT !.bad = j.todo, !.todo = {}], At("fail", "none")) \in JobOf(t)
    <3>1. [j EXCEPT !.bad = j.todo, !.todo = {}] \in JobOf(t)
      BY <1>2 DEF Job, JobOf
    <3> QED
      BY <3>1, GotoType DEF At, PC, Call, AnyStage, Thread
  <2> HIDE DEF j
  <2> QED
    BY <2>1, <2>2, <2>3, <2>4 DEF GraphFalse
<1>8. Left(j, Dest(j), "swallowed") \subseteq Pair \X Cause
  BY <1>2, <1>6, NoteType DEF Left, Cause
<1>9. ASSUME NEW g \in SUBSET Rcpt
      PROVE  Left(j, Dest(j) \ g, "refused") \subseteq Pair \X Cause
  BY <1>2, <1>6, NoteType DEF Left, Cause
<1>10. CASE RelayGroup(t)
  <2>1. PICK z \in {Target[r] : r \in j.todo} \ {Exo} :
          Transfer(t, {r \in j.todo : Target[r] = z})
    BY <1>10 DEF RelayGroup
  <2>2. {r \in j.todo : Target[r] = z} \in SUBSET Rcpt
    BY <1>2
  <2> QED
    BY <1>1, <2>1, <2>2, TransferType
<1>11. CASE SmtpSend(t)
  BY <1>1, <1>2, <1>11, TransferType DEF SmtpSend
<1>12. CASE AsSender(t)
  <2>1. PICK o \in SmtpOutcome(j.todo) :
          /\ Deliver(j.mid, o.got)
          /\ gone' = gone \cup (IF o.ok THEN Note(j.mid, j.todo \ o.got, "refused") ELSE {})
          /\ SetJob(t, IF o.ok THEN Goto([j EXCEPT !.todo = {}], At("done", "none"))
                       ELSE Goto(j, MixedStage(j.mid)))
    BY <1>12 DEF AsSender
  <2>2. o.got \in SUBSET Rcpt /\ o.ok \in BOOLEAN
    BY <1>2, OutcomeType
  <2>3. Goto(j, MixedStage(j.mid)) \in JobOf(t)
    BY <1>2, MixedStageType, GotoType DEF Stage, AnyStage
  <2>4. JobTypeOK'
    BY <1>5, <2>1, <2>2, <2>3, SetJobType
  <2>5. delivered' \subseteq Pair
    BY <1>2, <2>1, <2>2, DeliverType
  <2>6. Note(j.mid, j.todo \ o.got, "refused") \subseteq Pair \X Cause
    BY <1>2, NoteType DEF Cause
  <2>7. gone' \subseteq Pair \X Cause
    BY <2>1, <2>6 DEF TypeOK
  <2> QED
    BY <1>12, <2>4, <2>5, <2>7 DEF AsSender, TypeOK, store, memory, bookkeeping
<1>13. CASE ForkCheck(t)
  <2>1. Goto(j, At("check", "all")) \in JobOf(t)
    BY <1>2, GotoType DEF At, PC, Call, AnyStage, Thread
  <2>2. JobTypeOK'
    BY <1>5, <1>13, <2>1, SetJobType DEF ForkCheck
  <2>3. Note(j.mid, j.todo, "uncovered") \subseteq Pair \X Cause
    BY <1>2, NoteType DEF Cause
  <2>4. gone' \subseteq Pair \X Cause
    BY <1>13, <2>3 DEF ForkCheck, TypeOK
  <2> QED
    BY <1>13, <2>2, <2>4 DEF ForkCheck, TypeOK, store, memory, bookkeeping, outcome
<1>14. ASSUME GraphTrue(t, j)
       PROVE  /\ JobTypeOK'
              /\ forkReg' \in [Mail -> 0..(ForkTtl + 1)]
  <2>1. JobTypeOK'
    BY <1>5, <1>14, SetJobType DEF GraphTrue
  <2>2. forkReg' \in [Mail -> 0..(ForkTtl + 1)]
    BY <1>14, AgeRange DEF GraphTrue, TypeOK
  <2> QED
    BY <2>1, <2>2
<1>15. CASE GraphCheck(t)
  <2>1. ASSUME NEW pc \in {"post", "register"}
        PROVE  Goto(j, At(pc, j.call)) \in JobOf(t)
    BY <1>2, GotoType DEF At, PC, Job, JobOf, AnyStage
  <2>2. /\ JobTypeOK'
        /\ forkReg' \in [Mail -> 0..(ForkTtl + 1)]
        /\ gone' \subseteq Pair \X Cause
    <3>1. CASE SetJob(t, GraphFalse(j)) /\ UNCHANGED <<gone, forkReg>>
      BY <1>7, <3>1, SetJobType DEF TypeOK
    <3>2. CASE gone' = gone \cup Left(j, Dest(j), "swallowed") /\ GraphTrue(t, j)
      BY <1>8, <1>14, <3>2 DEF TypeOK
    <3>3. CASE /\ SetJob(t, Goto(j, At(IF j.mid \in NoMid THEN "post" ELSE "register", j.call)))
               /\ UNCHANGED <<gone, forkReg>>
      BY <2>1, <3>3, SetJobType DEF TypeOK
    <3> QED
      BY <1>15, <3>1, <3>2, <3>3 DEF GraphCheck
  <2> QED
    BY <1>15, <2>2 DEF GraphCheck, TypeOK, store, bookkeeping, outcome
<1>16. CASE GraphRegister(t)
  <2>1. Goto(j, At("post", j.call)) \in JobOf(t)
    BY <1>2, GotoType DEF At, PC, Job, JobOf, AnyStage
  <2>2. JobTypeOK'
    BY <1>16, <2>1, SetJobType DEF GraphRegister
  <2>3. dedup' \in [Key -> 0..(DedupTtl + 1)]
    BY <1>16, AgeRange DEF GraphRegister, TypeOK
  <2> QED
    BY <1>16, <2>2, <2>3 DEF GraphRegister, TypeOK, store, bookkeeping, outcome
<1>17. CASE GraphPost(t)
  <2>1. PICK o \in GraphOutcome(j.mid, Dest(j)) :
          /\ Deliver(j.mid, o.got)
          /\ \/ /\ o.ok
                /\ gone' = gone \cup Left(j, Dest(j) \ o.got, "refused")
                /\ GraphTrue(t, j)
             \/ /\ ~o.ok
                /\ SetJob(t, GraphFalse(j))
                /\ UNCHANGED <<gone, forkReg>>
    BY <1>17 DEF GraphPost
  <2>2. o.got \in SUBSET Rcpt
    BY <1>2, <1>6, OutcomeType
  <2>3. delivered' \subseteq Pair
    BY <1>2, <2>1, <2>2, DeliverType
  <2>4. /\ JobTypeOK'
        /\ forkReg' \in [Mail -> 0..(ForkTtl + 1)]
        /\ gone' \subseteq Pair \X Cause
    <3>1. CASE gone' = gone \cup Left(j, Dest(j) \ o.got, "refused") /\ GraphTrue(t, j)
      BY <1>9, <1>14, <2>2, <3>1 DEF TypeOK
    <3>2. CASE SetJob(t, GraphFalse(j)) /\ UNCHANGED <<gone, forkReg>>
      BY <1>7, <3>2, SetJobType DEF TypeOK
    <3> QED
      BY <2>1, <3>1, <3>2
  <2> QED
    BY <1>17, <2>3, <2>4 DEF GraphPost, TypeOK, store, bookkeeping
<1>18. CASE ImapAppend(t)
  <2>1. PICK r \in j.todo, ok \in BOOLEAN, got \in BOOLEAN :
          LET k == [j EXCEPT !.todo = j.todo \ {r},
                             !.bad = IF ok THEN j.bad ELSE j.bad \cup {r}] IN
          /\ Deliver(j.mid, IF got THEN {r} ELSE {})
          /\ SetJob(t, IF k.todo # {} THEN k
                       ELSE IF k.bad = {} THEN Goto(k, At("done", "none"))
                       ELSE IF j.mid \in Internal THEN Goto(k, At("fail", "none"))
                       ELSE Goto([k EXCEPT !.todo = k.bad, !.bad = {}], At("check", "direct")))
    BY <1>2, <1>18 DEF ImapAppend, JobOf, Job
  <2> DEFINE k == [j EXCEPT !.todo = j.todo \ {r},
                            !.bad = IF ok THEN j.bad ELSE j.bad \cup {r}]
  <2>2. k \in JobOf(t) /\ [k EXCEPT !.todo = k.bad, !.bad = {}] \in JobOf(t)
    BY <1>2 DEF Job, JobOf
  <2>3. (IF got THEN {r} ELSE {}) \in SUBSET Rcpt
    BY <1>2
  <2>4. delivered' \subseteq Pair
    BY <1>2, <2>1, <2>3, DeliverType
  <2>5. /\ At("fail", "none") \in AnyStage
        /\ At("check", "direct") \in AnyStage
    BY DEF At, PC, Call, AnyStage
  <2>6. /\ Goto(k, At("done", "none")) \in JobOf(t) /\ Goto(k, At("fail", "none")) \in JobOf(t)
        /\ Goto([k EXCEPT !.todo = k.bad, !.bad = {}], At("check", "direct")) \in JobOf(t)
    BY <1>4, <2>2, <2>5, GotoType
  <2> HIDE DEF k
  <2>7. JobTypeOK'
    BY <2>1, <2>2, <2>6, SetJobType DEF k
  <2> QED
    BY <1>18, <2>4, <2>7 DEF ImapAppend, TypeOK, store, memory, bookkeeping
<1>19. ASSUME NEW m \in Mail, NEW S \in SUBSET Rcpt,
              NEW why \in {"delivery_failed", "maintenance"},
              Hold(m, S, why) \/ HoldFails(m, S, why)
       PROVE  /\ held' \in [HeldId -> Entry \cup {None}]
              /\ older' \subseteq HeldId \X HeldId
  BY <1>19, NewEntryType, StoreType, WriteNewType DEF Hold, HoldFails
<1>20. /\ Lost \in SUBSET (Pair \X Cause) /\ {} \in SUBSET (Pair \X Cause)
       /\ gone \cup Lost \subseteq Pair \X Cause
  BY StoreType DEF TypeOK
<1>21. CASE FailDelivery(t)
  <2>1. CASE /\ Hold(j.mid, j.bad, "delivery_failed") /\ gone' = gone \cup Lost
             /\ SetJob(t, Goto([j EXCEPT !.bad = {}], StartStage(j.mid, j.todo)))
             /\ UNCHANGED <<exch, told>>
    <3>1. Goto([j EXCEPT !.bad = {}], StartStage(j.mid, j.todo)) \in JobOf(t)
      BY <1>2, <1>3, StartStageType, GotoType DEF Stage, AnyStage
    <3>2. JobTypeOK'
      BY <2>1, <3>1, SetJobType
    <3> QED
      BY <1>2, <1>19, <1>20, <1>21, <2>1, <3>2 DEF FailDelivery, TypeOK, memory, outcome
  <2>2. CASE HoldFails(j.mid, j.bad, "delivery_failed") /\ Raise(t, Lost)
    BY <1>1, <1>2, <1>19, <1>20, <1>21, <2>2, RaiseType
       DEF FailDelivery, TypeOK, memory, outcome
  <2>3. CASE Raise(t, {}) /\ UNCHANGED store
    BY <1>1, <1>20, <1>21, <2>3, RaiseType DEF FailDelivery, TypeOK, memory, store, outcome
  <2> QED
    BY <1>21, <2>1, <2>2, <2>3 DEF FailDelivery
<1>22. CASE MaintenanceHold(t)
  <2>1. CASE /\ Hold(j.mid, j.todo, "maintenance") /\ gone' = gone \cup Lost
             /\ SetJob(t, Goto([j EXCEPT !.todo = {}], At("done", "none")))
             /\ UNCHANGED <<exch, told>>
    <3>1. JobTypeOK'
      BY <1>5, <2>1, SetJobType
    <3> QED
      BY <1>2, <1>19, <1>20, <1>22, <2>1, <3>1 DEF MaintenanceHold, TypeOK, memory, outcome
  <2>2. CASE HoldFails(j.mid, j.todo, "maintenance") /\ Raise(t, Lost)
    BY <1>1, <1>2, <1>19, <1>20, <1>22, <2>2, RaiseType
       DEF MaintenanceHold, TypeOK, memory, outcome
  <2> QED
    BY <1>22, <2>1, <2>2 DEF MaintenanceHold
<1>23. CASE Finish(t)
  <2>1. JobTypeOK'
    BY <1>23, SetJobType DEF Finish
  <2>2. exch' \in [Fork -> {"queued", "busy", "taken"}]
    BY <1>23 DEF Finish, TypeOK
  <2>3. held' \in [HeldId -> Entry \cup {None}] /\ older' \subseteq HeldId \X HeldId
    BY <1>23 DEF Finish, Remove, Without, store, TypeOK
  <2> QED
    BY <1>23, <2>1, <2>2, <2>3 DEF Finish, TypeOK, memory, bookkeeping, outcome
<1> QED
  BY <1>10, <1>11, <1>12, <1>13, <1>15, <1>16, <1>17, <1>18, <1>21, <1>22, <1>23 DEF Step

LEMMA TypeInit == Init => TypeOK
BY AgeRange DEF Init, TypeOK, JobTypeOK, Pair, Cause

LEMMA TypeNext == TypeOK /\ [Next]_vars => TypeOK'
<1> SUFFICES ASSUME TypeOK, [Next]_vars PROVE TypeOK'
  OBVIOUS
<1>1. ASSUME NEW f \in Fork, Accept(f) PROVE TypeOK'
  <2> DEFINE j == NewJob(MailOf[f], Env[f], f, None, FALSE)
  <2>1. j \in JobOf("smtp")
    <3>1. MailOf[f] \in Mail /\ Env[f] \in SUBSET Rcpt /\ FALSE \in BOOLEAN
      OBVIOUS
    <3> QED
      BY <3>1, NewSmtpJobType
  <2>2. Goto(j, At("hold", "none")) \in JobOf("smtp")
    BY <2>1, GotoType DEF At, PC, Call, AnyStage, Thread
  <2> HIDE DEF j
  <2>3. SetJob("smtp", IF maint THEN Goto(j, At("hold", "none")) ELSE j)
    BY <1>1 DEF Accept, j
  <2>4. JobTypeOK'
    BY <2>1, <2>2, <2>3, SetJobType DEF Thread
  <2> QED
    BY <1>1, <2>4 DEF Accept, TypeOK, store, memory, bookkeeping, outcome
<1>2. ASSUME NEW t \in Thread, Step(t) PROVE TypeOK'
  BY <1>2, StepType
<1>3. CASE SchedScan
  BY <1>3 DEF SchedScan, Due, TypeOK, JobTypeOK, store, bookkeeping, outcome
<1>4. ASSUME NEW id \in HeldId, SchedTake(id) PROVE TypeOK'
  <2>1. Readable(id) => NewJob(held[id].mid, held[id].to, None, id, FALSE) \in JobOf("sched")
    BY ReadableEntry, NewHeldJobType
  <2>2. JobTypeOK'
    BY <1>4, <2>1, SetJobType DEF SchedTake, Thread, TypeOK, JobTypeOK
  <2> QED
    BY <1>4, <2>2 DEF SchedTake, TypeOK, store, bookkeeping, outcome
<1>5. CASE MarkRead
  <2> DEFINE j == job["sched"]
  <2>1. j \in JobOf("sched") /\ j.hid \in HeldId
    BY <1>5, RunningJob DEF MarkRead, Thread
  <2>2. Readable(j.hid) =>
          Goto([j EXCEPT !.snap = Failed(held[j.hid])], At("write", "none")) \in JobOf("sched")
    <3> SUFFICES ASSUME Readable(j.hid)
                 PROVE  Goto([j EXCEPT !.snap = Failed(held[j.hid])], At("write", "none"))
                          \in JobOf("sched")
      OBVIOUS
    <3>1. Failed(held[j.hid]) \in Entry
      BY <2>1, FailedType DEF Readable, TypeOK
    <3>2. Failed(held[j.hid]) # None
      BY <3>1, NoneAssumption
    <3> QED
      BY <2>1, <3>1, <3>2 DEF Goto, At, PC, Call, Job, JobOf
  <2>3. JobTypeOK'
    BY <1>5, <2>2, SetJobType DEF MarkRead, Thread
  <2> QED
    BY <1>5, <2>3 DEF MarkRead, TypeOK, store, memory, bookkeeping, outcome
<1>7. ASSUME NEW id \in HeldId, Release(id) PROVE TypeOK'
  <2>1. NewJob(held[id].mid, held[id].to, None, id, FALSE) \in JobOf("web")
    BY <1>7, ReadableEntry, NewHeldJobType DEF Release
  <2>2. JobTypeOK'
    BY <1>7, <2>1, SetJobType DEF Release, Thread
  <2>3. events' \in 0..MaxEvents
    BY <1>7 DEF Release, Event, TypeOK
  <2> QED
    BY <1>7, <2>2, <2>3 DEF Release, TypeOK, store, memory, outcome
<1>8. ASSUME NEW id \in HeldId, Discard(id) PROVE TypeOK'
  <2>1. PairsOf(held[id].mid, held[id].to) \subseteq Pair
    BY <1>8, PairsOfType DEF Discard, Readable, TypeOK, Entry
  <2>2. held' \in [HeldId -> Entry \cup {None}] /\ older' \subseteq HeldId \X HeldId
    BY <1>8 DEF Discard, Remove, Without, TypeOK
  <2>3. events' \in 0..MaxEvents
    BY <1>8 DEF Discard, Event, TypeOK
  <2> QED
    BY <1>8, <2>1, <2>2, <2>3 DEF Discard, TypeOK, JobTypeOK, memory, outcome
<1>9. CASE SetMaintenance
  <2>1. events' \in 0..MaxEvents
    BY <1>9 DEF SetMaintenance, Event, TypeOK
  <2> QED
    BY <1>9, <2>1 DEF SetMaintenance, TypeOK, JobTypeOK, store, memory, outcome
<1>10. CASE Restart
  <2>1. events' \in 0..MaxEvents
    BY <1>10 DEF Restart, Event, TypeOK
  <2>2. /\ exch' \in [Fork -> {"queued", "busy", "taken"}]
        /\ JobTypeOK' /\ due' \subseteq HeldId
        /\ dedup' \in [Key -> 0..(DedupTtl + 1)]
        /\ forkReg' \in [Mail -> 0..(ForkTtl + 1)]
    BY <1>10, AgeRange DEF Restart, TypeOK, JobTypeOK
  <2> QED
    BY <1>10, <2>1, <2>2 DEF Restart, TypeOK, store, outcome
<1>11. CASE Tick
  <2>2. dedup' \in [Key -> 0..(DedupTtl + 1)] /\ forkReg' \in [Mail -> 0..(ForkTtl + 1)]
    <3>1. \A k \in Key : Aged(dedup[k], DedupTtl + 1) \in 0..(DedupTtl + 1)
      BY AgedRange DEF TypeOK
    <3>2. \A m \in Mail : Aged(forkReg[m], ForkTtl + 1) \in 0..(ForkTtl + 1)
      BY AgedRange DEF TypeOK
    <3> QED
      BY <1>11, <3>1, <3>2 DEF Tick
  <2>3. held' \in [HeldId -> Entry \cup {None}]
    <3>1. ASSUME NEW id \in HeldId, held[id] # None
          PROVE  [held[id] EXCEPT !.age = Aged(@, GiveUp),
                                  !.wait = IF @ > 0 THEN @ - 1 ELSE 0] \in Entry
      <4>1. held[id] \in Entry
        BY <3>1 DEF TypeOK
      <4> QED
        BY <4>1, AgedEntry
    <3> QED
      BY <1>11, <3>1 DEF Tick
  <2> QED
    BY <1>11, <2>2, <2>3 DEF Tick, TypeOK, JobTypeOK, bookkeeping, outcome
<1>12. CASE UNCHANGED vars
  BY <1>12 DEF vars, TypeOK, JobTypeOK, JobOf, Job
<1>6. CASE MarkWrite
  <2> DEFINE j == job["sched"]
  <2>1. /\ j \in JobOf("sched") /\ j.hid \in HeldId
        /\ j.mid \in Mail /\ j.all \in SUBSET Rcpt
    BY <1>6, RunningJob DEF MarkWrite, Thread
  <2>2. Note(j.mid, j.all, "torn") \subseteq Pair \X Cause
    BY <2>1, NoteType DEF Cause
  <2>3. JobTypeOK'
    BY <1>6, SetJobType DEF MarkWrite, Thread
  <2>4. j.snap \in Entry /\ [j.snap EXCEPT !.torn = TRUE] \in Entry
    <3>1. j.snap \in Entry
      BY <1>6, <2>1 DEF MarkWrite, Job, JobOf
    <3> QED
      BY <3>1 DEF Entry
  <2>5. held' \in [HeldId -> Entry \cup {None}] /\ older' \subseteq HeldId \X HeldId
    <3>1. older' \subseteq HeldId \X HeldId
      BY <1>6, <2>1 DEF MarkWrite, Without, Files, TypeOK
    <3> QED
      BY <1>6, <2>4, <3>1 DEF MarkWrite, TypeOK
  <2> QED
    BY <1>6, <2>2, <2>3, <2>5 DEF MarkWrite, TypeOK, bookkeeping, outcome
<1> QED
  BY <1>1, <1>2, <1>3, <1>4, <1>5, <1>6, <1>7, <1>8, <1>9, <1>10, <1>11, <1>12 DEF Next

(* Type correctness: every queue entry, job, age and outcome keeps its     *)
(* range, so a thread of app/reinject.py, app/held_mails.py or             *)
(* app/scheduler.py never reaches a stage its path does not have.          *)
THEOREM TypeCorrect == Spec => []TypeOK
BY TypeInit, TypeNext, PTL DEF Spec

(***************************************************************************)
(* Nothing is lost without a cause.  LossExplained is not inductive: when  *)
(* send() returns, its entry in the queue is deleted or Exchange gets its  *)
(* 250, and that every recipient is safe by then is what the ledger of the *)
(* running jobs says.                                                      *)
(***************************************************************************)

(* What no step takes back, and what every step does to queue and jobs.    *)
Grows ==
  /\ delivered \subseteq delivered' /\ told \subseteq told'
  /\ discarded \subseteq discarded' /\ gone \subseteq gone'

QueueKept == \A p \in Pair : InQueue(p) => Safe(p)'

HeldKept ==
  \A u \in Thread :
    job[u] # None /\ u # "smtp" /\ held'[job[u].hid] # None =>
      /\ held'[job[u].hid].mid = job[u].mid
      /\ held'[job[u].hid].to = job[u].all

TakenSafely ==
  \A f \in Fork : exch'[f] = "taken" =>
    exch[f] = "taken" \/ \A r \in Env[f] : Safe(<<MailOf[f], r>>)'

(* The history only grows, so what is settled or explained stays so.       *)
LEMMA SettledKept ==
  ASSUME Grows, NEW p
  PROVE  Settled(p) \/ Explained(p) => Settled(p)' \/ Explained(p)'
BY DEF Grows, Settled, Explained

LEMMA SafeKept ==
  ASSUME Grows, QueueKept, NEW p \in Pair, Safe(p)
  PROVE  Safe(p)'
BY SettledKept DEF QueueKept, Safe

(* A cause noted for a recipient explains the loss of its copy.            *)
LEMMA Noted ==
  ASSUME Grows, NEW m, NEW S, NEW r \in S, NEW c \in Cause, Note(m, S, c) \subseteq gone'
  PROVE  Settled(<<m, r>>)' \/ Explained(<<m, r>>)'
<1>1. CASE <<m, r>> \in delivered
  BY <1>1 DEF Grows, Settled
<1>2. CASE <<m, r>> \notin delivered
  BY <1>2 DEF Note, PairsOf, Explained
<1> QED
  BY <1>1, <1>2

LEMMA LossStep ==
  ASSUME LossExplained, Grows, QueueKept, TakenSafely
  PROVE  LossExplained'
<1> SUFFICES ASSUME NEW p \in Sent PROVE InExchange(p)' \/ Safe(p)'
  BY DEF LossExplained, Safe, Sent
<1>1. p \in Pair
  BY DEF Sent
<1>2. CASE Safe(p)
  BY <1>1, <1>2, SafeKept
<1>3. CASE InExchange(p)
  <2>1. PICK f \in Fork : MailOf[f] = p[1] /\ p[2] \in Env[f] /\ exch[f] # "taken"
    BY <1>3 DEF InExchange
  <2>2. CASE exch'[f] # "taken"
    BY <2>1, <2>2 DEF InExchange
  <2>3. CASE exch'[f] = "taken"
    <3>1. Safe(<<MailOf[f], p[2]>>)'
      BY <2>1, <2>3 DEF TakenSafely
    <3>2. <<MailOf[f], p[2]>> = p
      BY <1>1, <2>1 DEF Pair
    <3> QED
      BY <3>1, <3>2
  <2> QED
    BY <2>2, <2>3
<1> QED
  BY <1>2, <1>3 DEF LossExplained, Safe

(* A job whose fate is settled step by step is read as a value here: the   *)
(* ledger of the value is the ledger of the job that has it.               *)
LEMMA ValueOfJob ==
  ASSUME NEW u \in Thread, NEW k, k = job'[u], JobLedger(u, k)'
  PROVE  JobLedger(u, job[u])'
BY DEF JobLedger, Settled, Explained, InQueue, Readable, PairsOf

(* A thread's step leaves the ledger of the other threads in order.        *)
LEMMA OtherJobs ==
  ASSUME TypeOK, Ledger, Grows, QueueKept, HeldKept,
         NEW u \in Thread, NEW j, j = job[u], j # None
  PROVE  JobLedger(u, j)'
<1>1. /\ JobLedger(u, j) /\ j.mid \in Mail /\ j.all \in SUBSET Rcpt
  BY RunningJob DEF Ledger
<1>2. ASSUME NEW r \in j.all \ (j.todo \cup j.bad)
      PROVE  \/ Settled(<<j.mid, r>>)' \/ Explained(<<j.mid, r>>)'
             \/ u = "smtp" /\ InQueue(<<j.mid, r>>)'
  <2>1. <<j.mid, r>> \in Pair
    BY <1>1 DEF Pair
  <2>2. CASE Settled(<<j.mid, r>>) \/ Explained(<<j.mid, r>>)
    BY <2>2, SettledKept
  <2>3. CASE u = "smtp" /\ InQueue(<<j.mid, r>>)
    BY <2>1, <2>3 DEF QueueKept, Safe
  <2> QED
    BY <1>1, <2>2, <2>3 DEF JobLedger
<1>3. u # "smtp" /\ held'[j.hid] # None => held'[j.hid].mid = j.mid /\ held'[j.hid].to = j.all
  BY DEF HeldKept
<1> QED
  BY <1>1, <1>2, <1>3 DEF JobLedger

(* A step of thread t, whose job becomes k.                                *)
LEMMA Frame ==
  ASSUME TypeOK, Ledger, Grows, QueueKept, HeldKept, TakenSafely, SameMail',
         NEW t \in Thread, NEW k, SetJob(t, k), k # None => JobLedger(t, k)'
  PROVE  Ledger'
<1>1. LossExplained'
  BY LossStep DEF Ledger
<1>2. ASSUME NEW u \in Thread, job'[u] # None
      PROVE  JobLedger(u, job[u])'
  <2>1. CASE u = t
    <3>1. k = job'[u]
      BY <2>1 DEF SetJob, TypeOK, JobTypeOK
    <3> QED
      BY <1>2, <2>1, <3>1, ValueOfJob
  <2>2. CASE u # t
    <3>1. job'[u] = job[u]
      BY <2>2 DEF SetJob, TypeOK, JobTypeOK
    <3>2. PICK j : j = job[u]
      OBVIOUS
    <3>3. JobLedger(u, j)'
      BY <1>2, <3>1, <3>2, OtherJobs
    <3> QED
      BY <3>1, <3>2, <3>3, ValueOfJob
  <2> QED
    BY <2>1, <2>2
<1> QED
  BY <1>1, <1>2 DEF Ledger

(* The held mail of a job never changes, so SameMail is kept by any step   *)
(* that gives a job its successor.                                         *)
LEMMA SameMailStep ==
  ASSUME TypeOK, SameMail, NEW t \in Thread, job[t] # None, NEW k, SetJob(t, k),
         k # None /\ t # "smtp" =>
           k.hid = job[t].hid /\ k.mid = job[t].mid /\ k.all = job[t].all
  PROVE  SameMail'
BY DEF SameMail, SetJob, TypeOK, JobTypeOK, Thread

(* Nothing happens to the queue.                                           *)
LEMMA StoreUnchanged ==
  ASSUME TypeOK, Ledger, held' = held
  PROVE  QueueKept /\ HeldKept
<1>1. QueueKept
  BY DEF QueueKept, InQueue, Safe, Readable
<1>2. HeldKept
  BY DEF HeldKept, Ledger, JobLedger
<1> QED
  BY <1>1, <1>2

LEMMA NobodyTaken ==
  ASSUME \A f \in Fork : exch'[f] = "taken" => exch[f] = "taken"
  PROVE  TakenSafely
BY DEF TakenSafely

(* The files that survive hold() are in the queue, the evicted ones are    *)
(* noted.                                                                  *)
LEMMA StoreKept ==
  ASSUME TypeOK, Ledger, Grows, Lost \subseteq gone',
         \A id \in InUse : held'[id] = Kept[id]
  PROVE  QueueKept /\ HeldKept
<1>1. QueueKept
  <2> SUFFICES ASSUME NEW p \in Pair, InQueue(p) PROVE Safe(p)'
    BY DEF QueueKept
  <2>1. PICK id \in HeldId : Readable(id) /\ p \in PairsOf(held[id].mid, held[id].to)
    BY DEF InQueue
  <2>2. id \in Files /\ id \in InUse
    BY <2>1 DEF Readable, Files, InUse
  <2>3. CASE id \in Evicted
    <3>1. Note(held[id].mid, held[id].to, "evicted") \subseteq gone'
      BY <2>3 DEF Lost
    <3>2. PICK m, S : m = held[id].mid /\ S = held[id].to
      OBVIOUS
    <3>3. PICK r \in S : p = <<m, r>>
      BY <2>1, <3>2 DEF PairsOf
    <3>4. Settled(<<m, r>>)' \/ Explained(<<m, r>>)'
      BY <3>1, <3>2, Noted DEF Cause
    <3> QED
      BY <3>3, <3>4 DEF Safe
  <2>4. CASE id \notin Evicted
    <3>1. held'[id] = held[id]
      BY <2>2, <2>4 DEF Kept
    <3>2. InQueue(p)'
      BY <2>1, <3>1 DEF InQueue, Readable
    <3> QED
      BY <3>2 DEF Safe
  <2> QED
    BY <2>3, <2>4
<1>2. HeldKept
  <2> SUFFICES ASSUME NEW u \in Thread, job[u] # None, u # "smtp", held'[job[u].hid] # None
               PROVE  /\ held'[job[u].hid].mid = job[u].mid
                      /\ held'[job[u].hid].to = job[u].all
    BY DEF HeldKept
  <2>1. job[u].hid \in InUse /\ job[u].hid \in HeldId
    BY RunningJob DEF InUse
  <2>2. held'[job[u].hid] = held[job[u].hid]
    BY <2>1 DEF Kept
  <2> QED
    BY <2>2 DEF Ledger, JobLedger
<1> QED
  BY <1>1, <1>2

LEMMA WriteNewKept ==
  ASSUME TypeOK, NEW id \in HeldId \ InUse, NEW e, WriteNew(id, e)
  PROVE  \A i \in InUse : held'[i] = Kept[i]
<1>1. InUse \subseteq HeldId \cup {None}
  BY RunningJob DEF InUse, Files, TypeOK
<1> QED
  BY <1>1 DEF WriteNew, Kept

(* The step of a running job: recipients it no longer answers for are      *)
(* settled, explained or, on the automatic way, in the queue.              *)
LEMMA Advance ==
  ASSUME TypeOK, Ledger, Grows, QueueKept, HeldKept, TakenSafely,
         NEW t \in Thread, NEW j, j = job[t], j # None,
         NEW k, SetJob(t, k),
         k.hid = j.hid, k.mid = j.mid, k.all = j.all, k.fork = j.fork,
         k.pc = "done" => k.todo = {},
         k.pc \notin {"imap", "fail", "mark", "write"} => k.bad = {},
         k.pc = "write" => k.snap.mid = k.mid /\ k.snap.to = k.all /\ ~k.snap.torn,
         \A r \in (j.todo \cup j.bad) \ (k.todo \cup k.bad) :
            \/ Settled(<<j.mid, r>>)' \/ Explained(<<j.mid, r>>)'
            \/ t = "smtp" /\ InQueue(<<j.mid, r>>)'
  PROVE  Ledger'
<1>1. JobLedger(t, j)'
  BY OtherJobs
<1>2. JobLedger(t, k)'
  BY <1>1 DEF JobLedger
<1>3. SameMail'
  BY SameMailStep DEF Ledger
<1> QED
  BY <1>2, <1>3, Frame

(* The end of a job.                                                       *)
LEMMA End ==
  ASSUME TypeOK, Ledger, Grows, QueueKept, HeldKept, TakenSafely,
         NEW t \in Thread, job[t] # None, SetJob(t, None)
  PROVE  Ledger'
<1>1. SameMail'
  BY SameMailStep DEF Ledger
<1> QED
  BY <1>1, Frame

(* The step of a job that leaves queue and Exchange alone.                 *)
LEMMA Proceed ==
  ASSUME TypeOK, Ledger, Grows, UNCHANGED <<exch, held>>,
         NEW t \in Thread, NEW j, j = job[t], j # None,
         NEW k, SetJob(t, k),
         k.hid = j.hid, k.mid = j.mid, k.all = j.all, k.fork = j.fork,
         k.pc = "done" => k.todo = {},
         k.pc \notin {"imap", "fail", "mark"} => k.bad = {}, k.pc # "write",
         \A r \in (j.todo \cup j.bad) \ (k.todo \cup k.bad) :
            Settled(<<j.mid, r>>)' \/ Explained(<<j.mid, r>>)'
  PROVE  Ledger'
BY StoreUnchanged, NobodyTaken, Advance

(* What a server answered is settled or noted as refused.                  *)
LEMMA Answered ==
  ASSUME Grows, NEW m, NEW S, NEW T, Deliver(m, T), Note(m, S \ T, "refused") \subseteq gone',
         NEW r \in S
  PROVE  Settled(<<m, r>>)' \/ Explained(<<m, r>>)'
<1>1. CASE r \in T
  BY <1>1 DEF Deliver, PairsOf, Settled
<1>2. CASE r \notin T
  BY <1>2, Noted DEF Cause
<1> QED
  BY <1>1, <1>2

LEMMA TransferLedger ==
  ASSUME TypeOK, Ledger, NEW t \in Thread, job[t] # None, job[t].bad = {},
         NEW S \in SUBSET job[t].todo, Transfer(t, S)
  PROVE  Ledger'
<1>1. PICK j : j = job[t]
  OBVIOUS
<1> DEFINE rest == [j EXCEPT !.todo = j.todo \ S]
<1>2. j \in JobOf(t) /\ j \in Job /\ j.mid \in Mail /\ j.todo \in SUBSET Rcpt
  BY <1>1, RunningJob
<1>3. PICK o \in SmtpOutcome(S) :
        /\ Deliver(j.mid, o.got)
        /\ gone' = gone \cup (IF o.ok THEN Note(j.mid, S \ o.got, "refused") ELSE {})
        /\ SetJob(t, IF o.ok THEN Goto(rest, StartStage(j.mid, rest.todo))
                     ELSE Goto([rest EXCEPT !.bad = S], At("fail", "none")))
        /\ UNCHANGED <<exch, store, memory, bookkeeping>>
  BY <1>1 DEF Transfer
<1>4. Grows /\ UNCHANGED <<exch, held>>
  BY <1>3 DEF Grows, Deliver, store, bookkeeping
<1>5. /\ rest \in JobOf(t) /\ rest.todo = j.todo \ S /\ rest.todo \in SUBSET Rcpt
      /\ rest.bad = {} /\ rest.mid = j.mid /\ rest.all = j.all
      /\ rest.hid = j.hid /\ rest.fork = j.fork
  BY <1>1, <1>2 DEF Job, JobOf
<1>6. CASE o.ok
  <2> DEFINE s == StartStage(j.mid, rest.todo)
             k == Goto(rest, s)
  <2> HIDE DEF rest
  <2>0. s \in AnyStage /\ (s.pc = "done" => rest.todo = {}) /\ s.pc # "write"
    BY <1>2, <1>5, StartStageType DEF Stage, AnyStage
  <2> HIDE DEF s
  <2>1. /\ k.todo = j.todo \ S /\ k.bad = {} /\ k.mid = j.mid /\ k.all = j.all
        /\ k.hid = j.hid /\ k.fork = j.fork /\ k.pc = s.pc
    BY <1>5, <2>0, GotoType
  <2>2. (k.pc = "done" => k.todo = {}) /\ k.pc # "write"
    BY <1>5, <2>0, <2>1
  <2>3. \A r \in S : Settled(<<j.mid, r>>)' \/ Explained(<<j.mid, r>>)'
    BY <1>3, <1>4, <1>6, Answered
  <2>4. SetJob(t, k)
    BY <1>3, <1>6 DEF s
  <2> HIDE DEF k
  <2> QED
    BY <1>1, <1>4, <2>1, <2>2, <2>3, <2>4, Proceed
<1>7. CASE ~o.ok
  <2> DEFINE k == Goto([rest EXCEPT !.bad = S], At("fail", "none"))
  <2>1. /\ k.todo = j.todo \ S /\ k.bad = S /\ k.mid = j.mid /\ k.all = j.all
        /\ k.hid = j.hid /\ k.fork = j.fork /\ k.pc = "fail"
    BY <1>2 DEF Goto, At, Job
  <2>2. SetJob(t, k)
    BY <1>3, <1>7
  <2> HIDE DEF k, rest
  <2> QED
    BY <1>1, <1>4, <2>1, <2>2, Proceed
<1> QED
  BY <1>3, <1>6, <1>7 DEF SmtpOutcome, Outcome

(* A fork dropped or sent as its sender: nobody is left in the job.        *)
LEMMA EmptiedJob ==
  ASSUME NEW t \in Thread, NEW j \in JobOf(t)
  PROVE  LET k == Goto([j EXCEPT !.todo = {}], At("done", "none")) IN
         /\ k.todo = {} /\ k.bad = j.bad /\ k.mid = j.mid /\ k.all = j.all
         /\ k.hid = j.hid /\ k.fork = j.fork /\ k.pc = "done"
BY DEF Goto, At, Job, JobOf

LEMMA AsSenderLedger ==
  ASSUME TypeOK, Ledger, NEW t \in Thread, AsSender(t)
  PROVE  Ledger'
<1>1. PICK j : j = job[t]
  OBVIOUS
<1>2. /\ j \in JobOf(t) /\ j.mid \in Mail /\ j.todo \in SUBSET Rcpt
      /\ j # None /\ j.bad = {}
  BY <1>1, RunningJob DEF AsSender, Ledger, JobLedger
<1>3. PICK o \in SmtpOutcome(j.todo) :
        /\ Deliver(j.mid, o.got)
        /\ gone' = gone \cup (IF o.ok THEN Note(j.mid, j.todo \ o.got, "refused") ELSE {})
        /\ SetJob(t, IF o.ok THEN Goto([j EXCEPT !.todo = {}], At("done", "none"))
                     ELSE Goto(j, MixedStage(j.mid)))
  BY <1>1 DEF AsSender
<1>4. Grows /\ UNCHANGED <<exch, held>>
  BY <1>3 DEF AsSender, Grows, Deliver, store, bookkeeping
<1>5. CASE o.ok
  <2> DEFINE k == Goto([j EXCEPT !.todo = {}], At("done", "none"))
  <2>1. \A r \in j.todo : Settled(<<j.mid, r>>)' \/ Explained(<<j.mid, r>>)'
    BY <1>3, <1>4, <1>5, Answered
  <2>2. SetJob(t, k)
    BY <1>3, <1>5
  <2>3. /\ k.todo = {} /\ k.bad = {} /\ k.mid = j.mid /\ k.all = j.all
        /\ k.hid = j.hid /\ k.fork = j.fork /\ k.pc = "done"
    BY <1>2, EmptiedJob
  <2> HIDE DEF k
  <2> QED
    BY <1>1, <1>2, <1>4, <2>1, <2>2, <2>3, Proceed
<1>6. CASE ~o.ok
  <2> DEFINE k == Goto(j, MixedStage(j.mid))
  <2>1. /\ k.todo = j.todo /\ k.bad = {} /\ k.mid = j.mid /\ k.all = j.all
        /\ k.hid = j.hid /\ k.fork = j.fork /\ k.pc \notin {"done", "write"}
    <3>1. MixedStage(j.mid) \in AnyStage /\ MixedStage(j.mid).pc \notin {"done", "write"}
      BY <1>2, MixedStageType DEF Stage, AnyStage
    <3> QED
      BY <1>2, <3>1, GotoType
  <2>2. SetJob(t, k)
    BY <1>3, <1>6
  <2> HIDE DEF k
  <2> QED
    BY <1>1, <1>2, <1>4, <2>1, <2>2, Proceed
<1> QED
  BY <1>3, <1>5, <1>6 DEF SmtpOutcome, Outcome

LEMMA ForkCheckLedger ==
  ASSUME TypeOK, Ledger, NEW t \in Thread, ForkCheck(t)
  PROVE  Ledger'
<1>1. PICK j : j = job[t]
  OBVIOUS
<1>2. /\ j \in JobOf(t) /\ j.mid \in Mail /\ j.todo \in SUBSET Rcpt
      /\ j # None /\ j.bad = {}
  BY <1>1, RunningJob DEF ForkCheck, Ledger, JobLedger
<1>3. UNCHANGED <<exch, held, delivered, told, discarded>>
  BY DEF ForkCheck, store, bookkeeping, outcome
<1>4. CASE /\ gone' = gone \cup Note(j.mid, j.todo, "uncovered")
           /\ SetJob(t, Goto([j EXCEPT !.todo = {}], At("done", "none")))
  <2> DEFINE k == Goto([j EXCEPT !.todo = {}], At("done", "none"))
  <2>1. Grows
    BY <1>3, <1>4 DEF Grows
  <2>2. \A r \in j.todo : Settled(<<j.mid, r>>)' \/ Explained(<<j.mid, r>>)'
    BY <1>4, <2>1, Noted DEF Cause
  <2>3. /\ k.todo = {} /\ k.bad = {} /\ k.mid = j.mid /\ k.all = j.all
        /\ k.hid = j.hid /\ k.fork = j.fork /\ k.pc = "done"
    BY <1>2, EmptiedJob
  <2>4. SetJob(t, k)
    BY <1>4
  <2> HIDE DEF k
  <2> QED
    BY <1>1, <1>2, <1>3, <2>1, <2>2, <2>3, <2>4, Proceed
<1>5. CASE SetJob(t, Goto(j, At("check", "all"))) /\ UNCHANGED gone
  <2> DEFINE k == Goto(j, At("check", "all"))
  <2>1. Grows
    BY <1>3, <1>5 DEF Grows
  <2>2. /\ k.todo = j.todo /\ k.bad = {} /\ k.mid = j.mid /\ k.all = j.all
        /\ k.hid = j.hid /\ k.fork = j.fork /\ k.pc = "check"
    BY <1>2 DEF Goto, At, Job, JobOf
  <2>3. SetJob(t, k)
    BY <1>5
  <2> HIDE DEF k
  <2> QED
    BY <1>1, <1>2, <1>3, <2>1, <2>2, <2>3, Proceed
<1> QED
  BY <1>1, <1>4, <1>5 DEF ForkCheck

(* A Graph call that returned True: whoever it did not reach is noted.     *)
LEMMA GraphTrueLedger ==
  ASSUME TypeOK, Ledger, Grows, UNCHANGED <<exch, held>>,
         NEW t \in Thread, NEW j, j = job[t], j # None, j.bad = {},
         GraphTrue(t, j), NEW T, NEW c \in Cause, Left(j, Dest(j) \ T, c) \subseteq gone',
         PairsOf(j.mid, T) \subseteq delivered'
  PROVE  Ledger'
<1> DEFINE k == Goto([j EXCEPT !.todo = {}], At("done", "none"))
<1>1. /\ k.todo = {} /\ k.bad = {} /\ k.mid = j.mid /\ k.all = j.all
      /\ k.hid = j.hid /\ k.fork = j.fork /\ k.pc = "done"
  BY RunningJob, EmptiedJob
<1>2. SetJob(t, k)
  BY DEF GraphTrue
<1>3. ASSUME NEW r \in j.todo
      PROVE  Settled(<<j.mid, r>>)' \/ Explained(<<j.mid, r>>)'
  <2>1. PICK D : D = Dest(j)
    OBVIOUS
  <2>2. CASE r \in T
    BY <2>2 DEF PairsOf, Settled
  <2>3. CASE r \in D \ T
    BY <2>1, <2>3, Noted DEF Left
  <2>4. CASE r \notin D
    <3>1. Note(j.mid, j.todo \ D, "uncovered") \subseteq gone' /\ r \in j.todo \ D
      BY <1>3, <2>1, <2>4 DEF Left
    <3> QED
      BY <3>1, Noted DEF Cause
  <2> QED
    BY <2>2, <2>3, <2>4
<1> HIDE DEF k
<1> QED
  BY <1>1, <1>2, <1>3, Proceed

(* A Graph call that returned False: every recipient is still in the job.  *)
LEMMA GraphFalseLedger ==
  ASSUME TypeOK, Ledger, Grows, UNCHANGED <<exch, held>>,
         NEW t \in Thread, NEW j, j = job[t], j # None, j.bad = {},
         SetJob(t, GraphFalse(j))
  PROVE  Ledger'
<1>1. j \in JobOf(t) /\ j \in Job /\ j.mid \in Mail /\ j.todo \in SUBSET Rcpt
  BY RunningJob
<1>2. ASSUME NEW s \in AnyStage, s.pc # "done", SetJob(t, Goto(j, s))
      PROVE  Ledger'
  <2> DEFINE k == Goto(j, s)
  <2>1. /\ k.todo = j.todo /\ k.bad = {} /\ k.mid = j.mid /\ k.all = j.all
        /\ k.hid = j.hid /\ k.fork = j.fork /\ k.pc = s.pc
    BY <1>1, <1>2, GotoType
  <2>2. k.pc \notin {"done", "write"} /\ SetJob(t, k)
    BY <1>2, <2>1 DEF AnyStage
  <2> HIDE DEF k
  <2> QED
    BY <2>1, <2>2, Proceed
<1>3. /\ ForkStage(j.mid, j.todo) \in AnyStage /\ ForkStage(j.mid, j.todo).pc # "done"
      /\ PathStage(j.mid) \in AnyStage /\ PathStage(j.mid).pc # "done"
  BY <1>1, ForkStageType, PathStageType DEF Stage, AnyStage
<1>4. /\ At("smtp", "none") \in AnyStage /\ At("smtp", "none").pc # "done"
      /\ At("imap", "none") \in AnyStage /\ At("imap", "none").pc # "done"
  BY DEF At, PC, Call, AnyStage
<1>5. CASE SetJob(t, Goto([j EXCEPT !.bad = j.todo, !.todo = {}], At("fail", "none")))
  <2> DEFINE k == Goto([j EXCEPT !.bad = j.todo, !.todo = {}], At("fail", "none"))
  <2>1. /\ k.todo = {} /\ k.bad = j.todo /\ k.mid = j.mid /\ k.all = j.all
        /\ k.hid = j.hid /\ k.fork = j.fork /\ k.pc = "fail"
    BY <1>1 DEF Goto, At, Job
  <2>2. SetJob(t, k)
    BY <1>5
  <2> HIDE DEF k
  <2> QED
    BY <2>1, <2>2, Proceed
<1> QED
  BY <1>2, <1>3, <1>4, <1>5 DEF GraphFalse

LEMMA GraphCheckLedger ==
  ASSUME TypeOK, Ledger, NEW t \in Thread, GraphCheck(t)
  PROVE  Ledger'
<1>1. PICK j : j = job[t]
  OBVIOUS
<1>2. /\ j \in JobOf(t) /\ j \in Job /\ j # None /\ j.bad = {}
  BY <1>1, RunningJob DEF GraphCheck, Ledger, JobLedger
<1>3. UNCHANGED <<exch, held, delivered, told, discarded>>
  BY DEF GraphCheck, store, bookkeeping, outcome
<1>4. CASE SetJob(t, GraphFalse(j)) /\ UNCHANGED <<gone, forkReg>>
  <2>1. Grows
    BY <1>3, <1>4 DEF Grows
  <2> QED
    BY <1>1, <1>2, <1>3, <1>4, <2>1, GraphFalseLedger
<1>5. CASE gone' = gone \cup Left(j, Dest(j), "swallowed") /\ GraphTrue(t, j)
  <2>1. Grows
    BY <1>3, <1>5 DEF Grows
  <2>2. Left(j, Dest(j) \ {}, "swallowed") \subseteq gone'
    BY <1>5
  <2>3. PairsOf(j.mid, {}) \subseteq delivered'
    BY DEF PairsOf
  <2> QED
    BY <1>1, <1>2, <1>3, <1>5, <2>1, <2>2, <2>3, GraphTrueLedger DEF Cause
<1>6. CASE /\ SetJob(t, Goto(j, At(IF j.mid \in NoMid THEN "post" ELSE "register", j.call)))
           /\ UNCHANGED <<gone, forkReg>>
  <2> DEFINE k == Goto(j, At(IF j.mid \in NoMid THEN "post" ELSE "register", j.call))
  <2>1. /\ k.todo = j.todo /\ k.bad = {} /\ k.mid = j.mid /\ k.all = j.all
        /\ k.hid = j.hid /\ k.fork = j.fork /\ k.pc \in {"post", "register"}
    BY <1>2 DEF Goto, At, Job
  <2>2. SetJob(t, k) /\ Grows
    BY <1>3, <1>6 DEF Grows
  <2> HIDE DEF k
  <2> QED
    BY <1>1, <1>2, <1>3, <2>1, <2>2, Proceed
<1> QED
  BY <1>1, <1>4, <1>5, <1>6 DEF GraphCheck

LEMMA GraphRegisterLedger ==
  ASSUME TypeOK, Ledger, NEW t \in Thread, GraphRegister(t)
  PROVE  Ledger'
<1>1. PICK j : j = job[t]
  OBVIOUS
<1>2. /\ j \in Job /\ j # None /\ j.bad = {}
  BY <1>1, RunningJob DEF GraphRegister, Ledger, JobLedger
<1> DEFINE k == Goto(j, At("post", j.call))
<1>3. /\ k.todo = j.todo /\ k.bad = {} /\ k.mid = j.mid /\ k.all = j.all
      /\ k.hid = j.hid /\ k.fork = j.fork /\ k.pc = "post"
  BY <1>2 DEF Goto, At, Job
<1>4. Grows /\ UNCHANGED <<exch, held>> /\ SetJob(t, k)
  BY <1>1 DEF GraphRegister, Grows, store, bookkeeping, outcome
<1> HIDE DEF k
<1> QED
  BY <1>1, <1>2, <1>3, <1>4, Proceed

LEMMA GraphPostLedger ==
  ASSUME TypeOK, Ledger, NEW t \in Thread, GraphPost(t)
  PROVE  Ledger'
<1>1. PICK j : j = job[t]
  OBVIOUS
<1>2. /\ j \in Job /\ j # None /\ j.bad = {}
  BY <1>1, RunningJob DEF GraphPost, Ledger, JobLedger
<1>3. PICK o \in GraphOutcome(j.mid, Dest(j)) :
        /\ Deliver(j.mid, o.got)
        /\ \/ /\ gone' = gone \cup Left(j, Dest(j) \ o.got, "refused")
              /\ GraphTrue(t, j)
           \/ /\ SetJob(t, GraphFalse(j))
              /\ UNCHANGED <<gone, forkReg>>
  BY <1>1 DEF GraphPost
<1>4. Grows /\ UNCHANGED <<exch, held>>
  BY <1>3 DEF GraphPost, Grows, Deliver, store, bookkeeping
<1>5. CASE gone' = gone \cup Left(j, Dest(j) \ o.got, "refused") /\ GraphTrue(t, j)
  <2>1. PairsOf(j.mid, o.got) \subseteq delivered'
    BY <1>3 DEF Deliver
  <2>2. Left(j, Dest(j) \ o.got, "refused") \subseteq gone' /\ "refused" \in Cause
    BY <1>5 DEF Cause
  <2> QED
    BY <1>1, <1>2, <1>4, <1>5, <2>1, <2>2, GraphTrueLedger
<1>6. CASE SetJob(t, GraphFalse(j)) /\ UNCHANGED <<gone, forkReg>>
  BY <1>1, <1>2, <1>4, <1>6, GraphFalseLedger
<1> QED
  BY <1>3, <1>5, <1>6

LEMMA ImapAppendLedger ==
  ASSUME TypeOK, Ledger, NEW t \in Thread, ImapAppend(t)
  PROVE  Ledger'
<1>1. PICK j : j = job[t]
  OBVIOUS
<1>2. j \in JobOf(t) /\ j \in Job /\ j # None
  BY <1>1, RunningJob DEF ImapAppend
<1>3. PICK r \in job[t].todo, ok \in BOOLEAN, got \in BOOLEAN :
        /\ ok => got
        /\ Deliver(job[t].mid, IF got THEN {r} ELSE {})
        /\ LET todo == job[t].todo \ {r}
               bad == IF ok THEN job[t].bad ELSE job[t].bad \cup {r}
               k == [job[t] EXCEPT !.todo = todo, !.bad = bad] IN
           SetJob(t, IF todo # {} THEN k
                     ELSE IF bad = {} THEN Goto(k, At("done", "none"))
                     ELSE IF job[t].mid \in Internal THEN Goto(k, At("fail", "none"))
                     ELSE Goto([k EXCEPT !.todo = bad, !.bad = {}], At("check", "direct")))
  BY DEF ImapAppend
<1> DEFINE todo == j.todo \ {r}
           bad == IF ok THEN j.bad ELSE j.bad \cup {r}
           k == [j EXCEPT !.todo = todo, !.bad = bad]
<1>4. Grows /\ UNCHANGED <<exch, held>>
  BY <1>3 DEF ImapAppend, Grows, Deliver, store, bookkeeping
<1>5. ok => Settled(<<j.mid, r>>)'
  BY <1>1, <1>3 DEF Deliver, PairsOf, Settled
<1>6. /\ k \in Job /\ k.todo = todo /\ k.bad = bad
      /\ k.mid = j.mid /\ k.all = j.all /\ k.hid = j.hid /\ k.fork = j.fork
      /\ k.pc = j.pc /\ j.pc = "imap"
  BY <1>1, <1>2 DEF ImapAppend, Job
<1>7. \A q \in (j.todo \cup j.bad) \ (k.todo \cup k.bad) :
         Settled(<<j.mid, q>>)' \/ Explained(<<j.mid, q>>)'
  BY <1>5, <1>6
<1> HIDE DEF k
<1>8. SetJob(t, IF todo # {} THEN k
                ELSE IF bad = {} THEN Goto(k, At("done", "none"))
                ELSE IF j.mid \in Internal THEN Goto(k, At("fail", "none"))
                ELSE Goto([k EXCEPT !.todo = bad, !.bad = {}], At("check", "direct")))
  BY <1>1, <1>3 DEF k
<1> HIDE DEF todo, bad
<1>9. CASE SetJob(t, k)
  BY <1>1, <1>2, <1>4, <1>6, <1>7, <1>9, Proceed
<1>10. ASSUME NEW pc \in {"done", "fail"}, SetJob(t, Goto(k, At(pc, "none"))),
              k.todo = {}, pc = "done" => k.bad = {}
       PROVE  Ledger'
  <2> DEFINE i == Goto(k, At(pc, "none"))
  <2>1. /\ i.todo = k.todo /\ i.bad = k.bad /\ i.mid = j.mid /\ i.all = j.all
        /\ i.hid = j.hid /\ i.fork = j.fork /\ i.pc = pc
    BY <1>6 DEF Goto, At, Job
  <2>2. SetJob(t, i)
    BY <1>10
  <2> HIDE DEF i
  <2> QED
    BY <1>1, <1>2, <1>4, <1>7, <1>10, <2>1, <2>2, Proceed
<1>11. CASE SetJob(t, Goto([k EXCEPT !.todo = bad, !.bad = {}], At("check", "direct")))
            /\ k.todo = {}
  <2> DEFINE i == Goto([k EXCEPT !.todo = bad, !.bad = {}], At("check", "direct"))
  <2>1. /\ i.todo = k.bad /\ i.bad = {} /\ i.mid = j.mid /\ i.all = j.all
        /\ i.hid = j.hid /\ i.fork = j.fork /\ i.pc = "check"
    BY <1>6 DEF Goto, At, Job
  <2>2. SetJob(t, i)
    BY <1>11
  <2> HIDE DEF i
  <2> QED
    BY <1>1, <1>2, <1>4, <1>7, <1>11, <2>1, <2>2, Proceed
<1> QED
  BY <1>6, <1>8, <1>9, <1>10, <1>11

(* An exception: the sender is told, the copy is noted as unreported, or   *)
(* somebody still holds the mail.                                          *)
LEMMA RaiseLedger ==
  ASSUME TypeOK, Ledger, QueueKept, HeldKept,
         UNCHANGED <<delivered, discarded>>,
         NEW t \in Thread, job[t] # None, NEW lost, Raise(t, lost)
  PROVE  Ledger'
<1>1. PICK j : j = job[t]
  OBVIOUS
<1>2. /\ j \in JobOf(t) /\ j \in Job /\ j.mid \in Mail /\ j.all \in SUBSET Rcpt /\ j # None
      /\ t = "smtp" => j.fork \in Fork /\ j.mid = MailOf[j.fork] /\ j.all = Env[j.fork]
  BY <1>1, RunningJob DEF Ledger, JobLedger
<1>3. Grows
  BY DEF Grows, Raise
<1>4. CASE t = "smtp" /\ j.mid \in Enc
  <2>1. /\ SetJob(t, None)
        /\ exch' = [exch EXCEPT ![j.fork] = "taken"]
        /\ \/ PairsOf(j.mid, j.all) \subseteq told'
           \/ Note(j.mid, j.all, "unreported") \subseteq gone'
    BY <1>1, <1>4 DEF Raise
  <2>2. ASSUME NEW r \in j.all
        PROVE  Settled(<<j.mid, r>>)' \/ Explained(<<j.mid, r>>)'
    <3>1. CASE PairsOf(j.mid, j.all) \subseteq told'
      BY <3>1 DEF PairsOf, Settled
    <3>2. CASE Note(j.mid, j.all, "unreported") \subseteq gone'
      BY <1>3, <3>2, Noted DEF Cause
    <3> QED
      BY <2>1, <3>1, <3>2
  <2>3. TakenSafely
    BY <1>2, <1>4, <2>1, <2>2 DEF TakenSafely, Safe, TypeOK
  <2> QED
    BY <1>1, <1>2, <1>3, <2>1, <2>3, End
<1>5. CASE t = "smtp" /\ SetJob(t, NewJob(j.mid, j.all, j.fork, None, TRUE)) /\ UNCHANGED exch
  <2> DEFINE k == NewJob(j.mid, j.all, j.fork, None, TRUE)
  <2>1. /\ k.pc = StartStage(j.mid, j.all).pc /\ k.mid = j.mid /\ k.all = j.all
        /\ k.todo = j.all /\ k.bad = {} /\ k.fork = j.fork
    BY DEF NewJob
  <2>3. SetJob(t, k)
    BY <1>5
  <2> HIDE DEF k
  <2>2. (k.pc = "done" => k.todo = {}) /\ k.pc # "write"
    <3>1. /\ StartStage(j.mid, j.all) \in Stage
          /\ StartStage(j.mid, j.all).pc = "done" => j.all = {}
      BY <1>2, StartStageType
    <3> QED
      BY <2>1, <3>1 DEF Stage
  <2>4. JobLedger(t, k)'
    BY <1>2, <1>5, <2>1, <2>2 DEF JobLedger
  <2>5. SameMail'
    BY <1>1, <1>2, <1>5, <2>3, SameMailStep DEF Ledger
  <2> QED
    BY <1>3, <1>5, <2>3, <2>4, <2>5, Frame, NobodyTaken
<1>6. CASE SetJob(t, None) /\ (exch' = [exch EXCEPT ![j.fork] = "queued"] \/ UNCHANGED exch)
  <2>1. TakenSafely
    BY <1>6, NobodyTaken DEF TypeOK
  <2> QED
    BY <1>1, <1>2, <1>3, <1>6, <2>1, End
<1>7. CASE t = "sched" /\ SetJob(t, Goto(j, At("mark", "none"))) /\ UNCHANGED exch
  <2> DEFINE k == Goto(j, At("mark", "none"))
  <2>1. /\ k.todo = j.todo /\ k.bad = j.bad /\ k.mid = j.mid /\ k.all = j.all
        /\ k.hid = j.hid /\ k.fork = j.fork /\ k.pc = "mark"
    BY <1>2 DEF Goto, At, Job
  <2>2. SetJob(t, k)
    BY <1>7
  <2> HIDE DEF k
  <2> QED
    BY <1>1, <1>2, <1>3, <1>7, <2>1, <2>2, Advance, NobodyTaken
<1> QED
  BY <1>1, <1>4, <1>5, <1>6, <1>7 DEF Raise

(* hold() failed: nothing but the evicted mails has left the queue.        *)
LEMMA HoldFailsLedger ==
  ASSUME TypeOK, Ledger, UNCHANGED <<delivered, discarded>>,
         NEW t \in Thread, job[t] # None, NEW m, NEW S, NEW why,
         HoldFails(m, S, why), Raise(t, Lost)
  PROVE  Ledger'
<1>1. \A id \in InUse : held'[id] = Kept[id]
  BY WriteNewKept DEF HoldFails
<1>2. Grows /\ Lost \subseteq gone'
  BY DEF Grows, Raise
<1>3. QueueKept /\ HeldKept
  BY <1>1, <1>2, StoreKept
<1>4. PICK lost : lost = Lost
  OBVIOUS
<1> QED
  BY <1>3, <1>4, RaiseLedger

(* hold() succeeded: the recipients it was given are in the queue.         *)
LEMMA Queued ==
  ASSUME TypeOK, Ledger, NEW m \in Mail, NEW S \in SUBSET Rcpt,
         NEW why \in {"delivery_failed", "maintenance"}, Hold(m, S, why),
         gone' = gone \cup Lost, UNCHANGED <<delivered, told, discarded>>
  PROVE  /\ Grows /\ QueueKept /\ HeldKept
         /\ \A r \in S : InQueue(<<m, r>>)'
<1>1. PICK id \in HeldId \ InUse : WriteNew(id, NewEntry(m, S, why))
  BY DEF Hold
<1>2. Grows /\ Lost \subseteq gone'
  BY DEF Grows
<1>3. QueueKept /\ HeldKept
  BY <1>1, <1>2, StoreKept, WriteNewKept
<1>4. PICK e : e = NewEntry(m, S, why)
  OBVIOUS
<1>5. e \in Entry /\ e.mid = m /\ e.to = S /\ ~e.torn /\ e # None
  <2>1. /\ NewEntry(m, S, why) \in Entry
        /\ NewEntry(m, S, why).mid = m /\ NewEntry(m, S, why).to = S
        /\ ~NewEntry(m, S, why).torn
    BY NewEntryType
  <2>2. e \in Entry /\ e.mid = m /\ e.to = S /\ ~e.torn
    BY <1>4, <2>1
  <2> QED
    BY <2>2, NoneAssumption
<1>6. held'[id] = e
  BY <1>1, <1>4 DEF WriteNew, Kept
<1>7. \A r \in S : InQueue(<<m, r>>)'
  BY <1>5, <1>6 DEF InQueue, Readable, PairsOf
<1> QED
  BY <1>2, <1>3, <1>7

LEMMA FailDeliveryLedger ==
  ASSUME TypeOK, Ledger, NEW t \in Thread, FailDelivery(t)
  PROVE  Ledger'
<1>1. PICK j : j = job[t]
  OBVIOUS
<1>2. /\ j \in JobOf(t) /\ j \in Job /\ j.mid \in Mail /\ j # None
      /\ j.todo \in SUBSET Rcpt /\ j.bad \in SUBSET Rcpt
  BY <1>1, RunningJob DEF FailDelivery
<1>3. CASE /\ t = "smtp" /\ Hold(j.mid, j.bad, "delivery_failed")
           /\ gone' = gone \cup Lost
           /\ SetJob(t, Goto([j EXCEPT !.bad = {}], StartStage(j.mid, j.todo)))
           /\ UNCHANGED <<exch, told>>
  <2> DEFINE s == StartStage(j.mid, j.todo)
             k == Goto([j EXCEPT !.bad = {}], s)
  <2>1. /\ Grows /\ QueueKept /\ HeldKept
        /\ \A r \in j.bad : InQueue(<<j.mid, r>>)'
    BY <1>2, <1>3, Queued DEF FailDelivery, outcome
  <2>2. s \in AnyStage /\ (s.pc = "done" => j.todo = {}) /\ s.pc # "write"
    BY <1>2, StartStageType DEF Stage, AnyStage
  <2>3. SetJob(t, k)
    BY <1>3
  <2> HIDE DEF s
  <2>4. /\ k.todo = j.todo /\ k.bad = {} /\ k.mid = j.mid /\ k.all = j.all
        /\ k.hid = j.hid /\ k.fork = j.fork /\ k.pc = s.pc
    BY <1>2, <2>2 DEF Goto, Job
  <2> HIDE DEF k
  <2> QED
    BY <1>1, <1>2, <1>3, <2>1, <2>2, <2>3, <2>4, Advance, NobodyTaken
<1>4. CASE HoldFails(j.mid, j.bad, "delivery_failed") /\ Raise(t, Lost)
  BY <1>1, <1>2, <1>4, HoldFailsLedger DEF FailDelivery, outcome
<1>5. CASE Raise(t, {}) /\ UNCHANGED store
  <2>1. QueueKept /\ HeldKept
    BY <1>5, StoreUnchanged DEF store
  <2> QED
    BY <1>1, <1>2, <1>5, <2>1, RaiseLedger DEF FailDelivery, outcome
<1> QED
  BY <1>1, <1>3, <1>4, <1>5 DEF FailDelivery

LEMMA MaintenanceHoldLedger ==
  ASSUME TypeOK, Ledger, NEW t \in Thread, MaintenanceHold(t)
  PROVE  Ledger'
<1>1. PICK j : j = job[t]
  OBVIOUS
<1>2. /\ j \in JobOf(t) /\ j \in Job /\ j.mid \in Mail /\ j # None
      /\ j.todo \in SUBSET Rcpt /\ j.bad = {} /\ t = "smtp"
  BY <1>1, RunningJob DEF MaintenanceHold, Ledger, JobLedger
<1>3. CASE /\ Hold(j.mid, j.todo, "maintenance")
           /\ gone' = gone \cup Lost
           /\ SetJob(t, Goto([j EXCEPT !.todo = {}], At("done", "none")))
           /\ UNCHANGED <<exch, told>>
  <2> DEFINE k == Goto([j EXCEPT !.todo = {}], At("done", "none"))
  <2>1. /\ Grows /\ QueueKept /\ HeldKept
        /\ \A r \in j.todo : InQueue(<<j.mid, r>>)'
    BY <1>2, <1>3, Queued DEF MaintenanceHold, outcome
  <2>2. /\ k.todo = {} /\ k.bad = {} /\ k.mid = j.mid /\ k.all = j.all
        /\ k.hid = j.hid /\ k.fork = j.fork /\ k.pc = "done"
    BY <1>2, EmptiedJob
  <2>3. SetJob(t, k)
    BY <1>3
  <2> HIDE DEF k
  <2> QED
    BY <1>1, <1>2, <1>3, <2>1, <2>2, <2>3, Advance, NobodyTaken
<1>4. CASE HoldFails(j.mid, j.todo, "maintenance") /\ Raise(t, Lost)
  BY <1>1, <1>2, <1>4, HoldFailsLedger DEF MaintenanceHold, outcome
<1> QED
  BY <1>1, <1>3, <1>4 DEF MaintenanceHold

(* send() returned: by the ledger every recipient is safe without the file *)
(* that is deleted and without Exchange's copy.                            *)
LEMMA FinishLedger ==
  ASSUME TypeOK, Ledger, NEW t \in Thread, Finish(t)
  PROVE  Ledger'
<1>1. PICK j : j = job[t]
  OBVIOUS
<1>2. /\ j \in JobOf(t) /\ j.mid \in Mail /\ j.all \in SUBSET Rcpt /\ j # None
      /\ JobLedger(t, j) /\ j.todo = {} /\ j.bad = {}
  BY <1>1, RunningJob DEF Finish, Ledger, JobLedger
<1>3. Grows /\ SetJob(t, None)
  BY DEF Finish, Grows, bookkeeping, outcome
<1>4. CASE t = "smtp" /\ exch' = [exch EXCEPT ![j.fork] = "taken"] /\ UNCHANGED store
  <2>1. QueueKept /\ HeldKept
    BY <1>4, StoreUnchanged DEF store
  <2>2. ASSUME NEW r \in j.all PROVE Safe(<<j.mid, r>>)'
    <3>1. Safe(<<j.mid, r>>) /\ <<j.mid, r>> \in Pair
      BY <1>2 DEF JobLedger, Safe, Pair
    <3> QED
      BY <1>3, <2>1, <3>1, SafeKept
  <2>3. j.mid = MailOf[j.fork] /\ j.all = Env[j.fork] /\ j.fork \in Fork
    BY <1>1, <1>2, <1>4, RunningJob DEF JobLedger
  <2>4. TakenSafely
    BY <1>4, <2>2, <2>3 DEF TakenSafely, TypeOK
  <2> QED
    BY <1>1, <1>2, <1>3, <2>1, <2>4, End
<1>5. CASE t # "smtp" /\ Remove(j.hid) /\ UNCHANGED exch
  <2>1. QueueKept
    <3> SUFFICES ASSUME NEW p \in Pair, InQueue(p) PROVE Safe(p)'
      BY DEF QueueKept
    <3>1. PICK id \in HeldId : Readable(id) /\ p \in PairsOf(held[id].mid, held[id].to)
      BY DEF InQueue
    <3>2. CASE id = j.hid
      <4>1. PICK r \in j.all : p = <<j.mid, r>>
        BY <1>2, <1>5, <3>1, <3>2 DEF JobLedger, Readable, PairsOf
      <4>2. Settled(<<j.mid, r>>) \/ Explained(<<j.mid, r>>)
        BY <1>2, <1>5 DEF JobLedger
      <4> QED
        BY <1>3, <4>1, <4>2, SettledKept DEF Safe
    <3>3. CASE id # j.hid
      <4>1. held'[id] = held[id]
        BY <1>5, <3>3 DEF Remove, TypeOK
      <4>2. InQueue(p)'
        BY <3>1, <4>1 DEF InQueue, Readable
      <4> QED
        BY <4>2 DEF Safe
    <3> QED
      BY <3>2, <3>3
  <2>2. HeldKept
    BY <1>5, RunningJob DEF HeldKept, Remove, Ledger, JobLedger, TypeOK
  <2> QED
    BY <1>1, <1>2, <1>3, <1>5, <2>1, <2>2, End, NobodyTaken
<1> QED
  BY <1>1, <1>4, <1>5 DEF Finish

LEMMA StepLedger ==
  ASSUME TypeOK, Ledger, NEW t \in Thread, Step(t)
  PROVE  Ledger'
<1>1. CASE RelayGroup(t)
  <2>1. PICK z \in {Target[r] : r \in job[t].todo} \ {Exo} :
          Transfer(t, {r \in job[t].todo : Target[r] = z})
    BY <1>1 DEF RelayGroup
  <2>2. job[t] # None /\ job[t].bad = {}
    BY <1>1 DEF RelayGroup, Ledger, JobLedger
  <2> QED
    BY <2>1, <2>2, TransferLedger
<1>2. CASE SmtpSend(t)
  <2>1. job[t] # None /\ job[t].bad = {}
    BY <1>2 DEF SmtpSend, Ledger, JobLedger
  <2> QED
    BY <1>2, <2>1, TransferLedger DEF SmtpSend
<1> QED
  BY <1>1, <1>2, AsSenderLedger, ForkCheckLedger, GraphCheckLedger, GraphRegisterLedger,
     GraphPostLedger, ImapAppendLedger, FailDeliveryLedger, MaintenanceHoldLedger,
     FinishLedger DEF Step

LEMMA AcceptLedger ==
  ASSUME TypeOK, Ledger, NEW f \in Fork, Accept(f)
  PROVE  Ledger'
<1> DEFINE j == NewJob(MailOf[f], Env[f], f, None, FALSE)
           k == IF maint THEN Goto(j, At("hold", "none")) ELSE j
<1>1. PICK i : i = k
  OBVIOUS
<1>2. /\ i.mid = MailOf[f] /\ i.all = Env[f] /\ i.todo = Env[f] /\ i.bad = {} /\ i.fork = f
      /\ i.pc \in {StartStage(MailOf[f], Env[f]).pc, "hold"}
  BY <1>1 DEF NewJob, Goto, At
<1>3. SetJob("smtp", i) /\ exch' = [exch EXCEPT ![f] = "busy"]
  BY <1>1 DEF Accept
<1> HIDE DEF j, k
<1>4. (i.pc = "done" => i.todo = {}) /\ i.pc # "write"
  BY <1>2, StartStageType DEF Stage
<1>5. Grows /\ QueueKept /\ HeldKept
  BY StoreUnchanged DEF Accept, Grows, store, bookkeeping, outcome
<1>6. TakenSafely
  BY <1>3, NobodyTaken DEF TypeOK
<1>7. JobLedger("smtp", i)'
  BY <1>2, <1>4 DEF JobLedger
<1>8. SameMail'
  BY <1>3 DEF SameMail, SetJob, Ledger, TypeOK, JobTypeOK, Thread
<1> QED
  BY <1>3, <1>5, <1>6, <1>7, <1>8, Frame DEF Thread

(* The scheduler or the web interface starts on a held mail.               *)
LEMMA StartHeld ==
  ASSUME TypeOK, Ledger, UNCHANGED <<exch, held, delivered, told, discarded, gone>>,
         NEW t \in {"sched", "web"}, job[t] = None, NEW id \in HeldId, Readable(id),
         SetJob(t, NewJob(held[id].mid, held[id].to, None, id, FALSE))
  PROVE  Ledger'
<1>1. PICK i : i = NewJob(held[id].mid, held[id].to, None, id, FALSE)
  OBVIOUS
<1>2. /\ i.mid = held[id].mid /\ i.all = held[id].to /\ i.todo = held[id].to
      /\ i.bad = {} /\ i.hid = id /\ i.pc = StartStage(held[id].mid, held[id].to).pc
  BY <1>1 DEF NewJob
<1>3. (i.pc = "done" => i.todo = {}) /\ i.pc # "write"
  BY <1>2, ReadableEntry, StartStageType DEF Stage
<1>4. Grows /\ QueueKept /\ HeldKept /\ TakenSafely
  BY StoreUnchanged, NobodyTaken DEF Grows
<1>5. JobLedger(t, i)'
  BY <1>2, <1>3 DEF JobLedger
<1>6. SameMail'
  <2>1. ASSUME NEW u \in {"sched", "web"}, job[u] # None, job[u].hid = id
        PROVE  job[u].mid = i.mid /\ job[u].all = i.all
    BY <1>2, <2>1 DEF Ledger, JobLedger, Readable, Thread
  <2>2. SetJob(t, i)
    BY <1>1
  <2> QED
    BY <1>2, <2>1, <2>2 DEF SameMail, SetJob, TypeOK, JobTypeOK, Thread
<1> QED
  BY <1>1, <1>4, <1>5, <1>6, Frame DEF Thread

LEMMA MarkReadLedger ==
  ASSUME TypeOK, Ledger, MarkRead
  PROVE  Ledger'
<1>1. PICK j : j = job["sched"]
  OBVIOUS
<1>2. j \in JobOf("sched") /\ j \in Job /\ j # None /\ j.hid \in HeldId /\ JobLedger("sched", j)
  BY <1>1, RunningJob DEF MarkRead, Ledger, Thread
<1>3. Grows /\ QueueKept /\ HeldKept /\ TakenSafely
  BY StoreUnchanged, NobodyTaken DEF MarkRead, Grows, store, bookkeeping, outcome
<1>4. CASE Readable(j.hid)
  <2>1. PICK e : e = Failed(held[j.hid])
    OBVIOUS
  <2>2. e.mid = held[j.hid].mid /\ e.to = held[j.hid].to /\ ~e.torn
    BY <1>2, <1>4, <2>1, ReadableEntry, FailedType
  <2>3. e.mid = j.mid /\ e.to = j.all
    BY <1>2, <1>4, <2>2 DEF JobLedger, Readable
  <2> DEFINE k == Goto([j EXCEPT !.snap = e], At("write", "none"))
  <2>4. /\ k.todo = j.todo /\ k.bad = j.bad /\ k.mid = j.mid /\ k.all = j.all
        /\ k.hid = j.hid /\ k.fork = j.fork /\ k.pc = "write" /\ k.snap = e
    BY <1>2 DEF Goto, At, Job
  <2>5. SetJob("sched", k)
    BY <1>1, <1>4, <2>1 DEF MarkRead
  <2> HIDE DEF k
  <2> QED
    BY <1>1, <1>2, <1>3, <2>2, <2>3, <2>4, <2>5, Advance DEF Thread
<1>5. CASE ~Readable(j.hid)
  <2>1. SetJob("sched", None)
    BY <1>1, <1>5 DEF MarkRead
  <2> QED
    BY <1>1, <1>2, <1>3, <2>1, End DEF Thread
<1> QED
  BY <1>4, <1>5

(* The rewrite brings back the mail the job was started with, even where   *)
(* the file had been deleted meanwhile.                                    *)
LEMMA MarkWriteLedger ==
  ASSUME TypeOK, Ledger, MarkWrite
  PROVE  Ledger'
<1>1. PICK j : j = job["sched"]
  OBVIOUS
<1>2. /\ j \in JobOf("sched") /\ j \in Job /\ j # None /\ j.hid \in HeldId /\ j.pc = "write"
      /\ JobLedger("sched", j)
  BY <1>1, RunningJob DEF MarkWrite, Ledger, Thread
<1>3. /\ j.snap \in Entry /\ j.snap # None
      /\ j.snap.mid = j.mid /\ j.snap.to = j.all /\ ~j.snap.torn
  BY <1>2 DEF Job, JobLedger
<1>4. PICK e \in Entry :
        /\ held' = [held EXCEPT ![j.hid] = e]
        /\ e.mid = j.mid /\ e.to = j.all
        /\ ~e.torn \/ Note(j.mid, j.all, "torn") \subseteq gone'
  <2>1. CASE held' = [held EXCEPT ![j.hid] = j.snap]
    BY <1>3, <2>1
  <2>2. CASE /\ held' = [held EXCEPT ![j.hid] = [j.snap EXCEPT !.torn = TRUE]]
             /\ gone' = gone \cup Note(j.mid, j.all, "torn")
    <3>1. PICK e : e = [j.snap EXCEPT !.torn = TRUE]
      OBVIOUS
    <3>2. e \in Entry /\ e.mid = j.mid /\ e.to = j.all
      BY <1>3, <3>1 DEF Entry
    <3> QED
      BY <2>2, <3>1, <3>2
  <2> QED
    BY <1>1, <2>1, <2>2 DEF MarkWrite
<1>5. Grows /\ TakenSafely /\ SetJob("sched", None)
  BY NobodyTaken DEF MarkWrite, Grows, bookkeeping, outcome
<1>6. QueueKept
  <2> SUFFICES ASSUME NEW p \in Pair, InQueue(p) PROVE Safe(p)'
    BY DEF QueueKept
  <2>1. PICK id \in HeldId : Readable(id) /\ p \in PairsOf(held[id].mid, held[id].to)
    BY DEF InQueue
  <2>2. CASE id = j.hid
    <3>1. PICK r \in j.all : p = <<j.mid, r>>
      BY <1>2, <2>1, <2>2 DEF JobLedger, Readable, PairsOf
    <3>2. CASE ~e.torn
      <4>1. InQueue(p)'
        BY <1>2, <1>4, <2>2, <3>1, <3>2, NoneAssumption
           DEF InQueue, Readable, PairsOf, TypeOK
      <4> QED
        BY <4>1 DEF Safe
    <3>3. CASE Note(j.mid, j.all, "torn") \subseteq gone'
      <4>1. Settled(<<j.mid, r>>)' \/ Explained(<<j.mid, r>>)'
        BY <1>5, <3>3, Noted DEF Cause
      <4> QED
        BY <3>1, <4>1 DEF Safe
    <3> QED
      BY <1>4, <3>2, <3>3
  <2>3. CASE id # j.hid
    <3>1. held'[id] = held[id]
      BY <1>4, <2>3 DEF TypeOK
    <3>2. InQueue(p)'
      BY <2>1, <3>1 DEF InQueue, Readable
    <3> QED
      BY <3>2 DEF Safe
  <2> QED
    BY <2>2, <2>3
<1>7. HeldKept
  <2> SUFFICES ASSUME NEW u \in Thread, job[u] # None, u # "smtp", held'[job[u].hid] # None
               PROVE  /\ held'[job[u].hid].mid = job[u].mid
                      /\ held'[job[u].hid].to = job[u].all
    BY DEF HeldKept
  <2>1. CASE job[u].hid = j.hid
    BY <1>1, <1>2, <1>4, <2>1 DEF Ledger, SameMail, Thread, TypeOK
  <2>2. CASE job[u].hid # j.hid
    BY <1>4, <2>2, RunningJob DEF Ledger, JobLedger, TypeOK
  <2> QED
    BY <2>1, <2>2
<1> QED
  BY <1>1, <1>2, <1>5, <1>6, <1>7, End DEF Thread

(* Steps that touch no job.                                                *)
LEMMA JobsKept ==
  ASSUME TypeOK, Ledger, Grows, QueueKept, HeldKept, TakenSafely, job' = job
  PROVE  Ledger'
<1>1. SameMail'
  BY DEF Ledger, SameMail
<1>2. LossExplained'
  BY LossStep DEF Ledger
<1>3. ASSUME NEW u \in Thread, job'[u] # None
      PROVE  JobLedger(u, job[u])'
  <2>1. PICK j : j = job[u]
    OBVIOUS
  <2>2. JobLedger(u, j)'
    BY <1>3, <2>1, OtherJobs
  <2> QED
    BY <2>1, <2>2, ValueOfJob
<1> QED
  BY <1>1, <1>2, <1>3 DEF Ledger

LEMMA DiscardLedger ==
  ASSUME TypeOK, Ledger, NEW id \in HeldId, Discard(id)
  PROVE  Ledger'
<1>1. Grows /\ TakenSafely /\ job' = job
  BY NobodyTaken DEF Discard, Grows, outcome
<1>2. QueueKept
  <2> SUFFICES ASSUME NEW p \in Pair, InQueue(p) PROVE Safe(p)'
    BY DEF QueueKept
  <2>1. PICK i \in HeldId : Readable(i) /\ p \in PairsOf(held[i].mid, held[i].to)
    BY DEF InQueue
  <2>2. CASE i = id
    BY <2>1, <2>2 DEF Discard, Safe, Settled
  <2>3. CASE i # id
    <3>1. held'[i] = held[i]
      BY <2>3 DEF Discard, Remove, TypeOK
    <3>2. InQueue(p)'
      BY <2>1, <3>1 DEF InQueue, Readable
    <3> QED
      BY <3>2 DEF Safe
  <2> QED
    BY <2>2, <2>3
<1>3. HeldKept
  BY RunningJob DEF HeldKept, Discard, Remove, Ledger, JobLedger, TypeOK
<1> QED
  BY <1>1, <1>2, <1>3, JobsKept

LEMMA RestartLedger ==
  ASSUME TypeOK, Ledger, Restart
  PROVE  Ledger'
<1>1. Grows /\ QueueKept /\ HeldKept /\ job' = [t \in Thread |-> None]
  BY StoreUnchanged DEF Restart, Grows, store, outcome
<1>2. TakenSafely
  BY NobodyTaken DEF Restart
<1>3. LossExplained'
  BY <1>1, <1>2, LossStep DEF Ledger
<1> QED
  BY <1>1, <1>3 DEF Ledger, SameMail, Thread

LEMMA TickLedger ==
  ASSUME TypeOK, Ledger, Tick
  PROVE  Ledger'
<1>1. Grows /\ TakenSafely /\ job' = job
  BY NobodyTaken DEF Tick, Grows, bookkeeping, outcome
<1>2. ASSUME NEW id \in HeldId
      PROVE  \/ held[id] = None /\ held'[id] = None
             \/ /\ held[id] # None /\ held'[id] # None
                /\ held'[id].mid = held[id].mid /\ held'[id].to = held[id].to
                /\ held'[id].torn = held[id].torn
  <2>1. CASE held[id] = None
    BY <2>1 DEF Tick
  <2>2. CASE held[id] # None
    <3>1. held'[id] = [held[id] EXCEPT !.age = Aged(@, GiveUp),
                                       !.wait = IF @ > 0 THEN @ - 1 ELSE 0]
      BY <2>2 DEF Tick
    <3>2. held[id] \in Entry
      BY <2>2 DEF TypeOK
    <3>3. held'[id] \in Entry /\ held'[id].mid = held[id].mid
          /\ held'[id].to = held[id].to /\ held'[id].torn = held[id].torn
      BY <3>1, <3>2, AgedEntry
    <3> QED
      BY <2>2, <3>3, NoneAssumption
  <2> QED
    BY <2>1, <2>2
<1>3. QueueKept
  <2> SUFFICES ASSUME NEW p \in Pair, InQueue(p) PROVE InQueue(p)'
    BY DEF QueueKept, Safe
  <2>1. PICK id \in HeldId : Readable(id) /\ p \in PairsOf(held[id].mid, held[id].to)
    BY DEF InQueue
  <2> QED
    BY <1>2, <2>1 DEF InQueue, Readable, PairsOf
<1>4. HeldKept
  <2> SUFFICES ASSUME NEW u \in Thread, job[u] # None, u # "smtp", held'[job[u].hid] # None
               PROVE  /\ held'[job[u].hid].mid = job[u].mid
                      /\ held'[job[u].hid].to = job[u].all
    BY DEF HeldKept
  <2>1. job[u].hid \in HeldId /\ JobLedger(u, job[u])
    BY RunningJob DEF Ledger
  <2> QED
    BY <1>2, <2>1 DEF JobLedger
<1> QED
  BY <1>1, <1>3, <1>4, JobsKept

LEMMA LedgerInit == Init => Ledger
<1> SUFFICES ASSUME Init PROVE Ledger
  OBVIOUS
<1>1. LossExplained
  BY DEF Init, LossExplained, Sent, InExchange
<1> QED
  BY <1>1 DEF Init, Ledger, SameMail, Thread

LEMMA LedgerNext == TypeOK /\ Ledger /\ [Next]_vars => Ledger'
<1> SUFFICES ASSUME TypeOK, Ledger, [Next]_vars PROVE Ledger'
  OBVIOUS
<1>1. ASSUME NEW id \in HeldId, SchedTake(id) PROVE Ledger'
  <2>1. CASE Readable(id)
    BY <1>1, <2>1, StartHeld DEF SchedTake, store, bookkeeping, outcome
  <2>2. CASE ~Readable(id)
    <3>1. UNCHANGED <<exch, job, held, delivered, told, discarded, gone>>
      BY <1>1, <2>2 DEF SchedTake, store, bookkeeping, outcome
    <3> QED
      BY <3>1, JobsKept, StoreUnchanged, NobodyTaken DEF Grows
  <2> QED
    BY <2>1, <2>2
<1>2. ASSUME NEW id \in HeldId, Release(id) PROVE Ledger'
  BY <1>2, StartHeld DEF Release, store, outcome
<1>3. CASE SchedScan \/ SetMaintenance
  <2>1. UNCHANGED <<exch, job, held, delivered, told, discarded, gone>>
    BY <1>3 DEF SchedScan, SetMaintenance, store, bookkeeping, outcome
  <2> QED
    BY <2>1, JobsKept, StoreUnchanged, NobodyTaken DEF Grows
<1>4. CASE UNCHANGED vars
  <2>1. UNCHANGED <<exch, job, held, delivered, told, discarded, gone>>
    BY <1>4 DEF vars
  <2> QED
    BY <2>1, JobsKept, StoreUnchanged, NobodyTaken DEF Grows
<1> QED
  BY <1>1, <1>2, <1>3, <1>4, AcceptLedger, StepLedger, MarkReadLedger, MarkWriteLedger,
     DiscardLedger, RestartLedger, TickLedger DEF Next

-----------------------------------------------------------------------------
(* What every running send() owes its recipients, in every reachable state *)
(* of reinject.send and its three callers.                                 *)
THEOREM LedgerCorrect == Spec => []Ledger
BY TypeInit, TypeNext, LedgerInit, LedgerNext, PTL DEF Spec

(* No copy of a mail disappears without one of the six causes named in     *)
(* Delivery, whatever the routing, the mode, the faults, the size of the   *)
(* queue and the interleaving of the threads of app/reinject.py,           *)
(* app/scheduler.py and app/webui/routen/betrieb.py.                       *)
THEOREM LossIsExplained == Spec => []LossExplained
<1>1. Ledger => LossExplained
  BY DEF Ledger
<1> QED
  BY <1>1, LedgerCorrect, PTL

(***************************************************************************)
(* The scheduler's retry run leaves the operator's mail alone.             *)
(***************************************************************************)

(* A queue entry the scheduler may work on, or none.                       *)
Retried(e) == e # None => e.why = "delivery_failed" /\ ~e.over

(* The list of due mails and the mail in work name only such entries, and  *)
(* the mail in work, which mark_retry_failed may give up, is on the list   *)
(* no more.                                                                *)
RetryInv ==
  /\ \A id \in due : Retried(held[id])
  /\ job["sched"] # None =>
       Retried(held[job["sched"].hid]) /\ job["sched"].hid \notin due

(* The scheduler stays with its mail, or is done with it.                  *)
SchedStays ==
  job'["sched"] # None =>
    job["sched"] # None /\ job'["sched"].hid = job["sched"].hid

(* No file that a list or a job mentions becomes one to be left alone.     *)
NamesHold ==
  \A id \in InUse \cap HeldId : Retried(held[id]) => Retried(held'[id])

-----------------------------------------------------------------------------
LEMMA QuietKeeps ==
  ASSUME TypeOK, RetryInv, SchedStays, NamesHold, due' \subseteq due
  PROVE  RetryInv'
<1>1. due \subseteq InUse \cap HeldId
  BY DEF InUse, TypeOK
<1>2. job["sched"] # None => job["sched"].hid \in InUse \cap HeldId
  BY DEF InUse, Thread, TypeOK, JobTypeOK, JobOf
<1> QED  BY <1>1, <1>2 DEF RetryInv, SchedStays, NamesHold

LEMMA StoreHolds == UNCHANGED held => NamesHold
BY DEF NamesHold

(* Making room only removes files, and a new file has a fresh name.        *)
LEMMA KeptHolds ==
  ASSUME NEW k \in HeldId, Retried(held[k])
  PROVE  Retried(Kept[k])
BY DEF Kept, Retried

LEMMA WriteNewHolds ==
  ASSUME NEW id \in HeldId \ InUse, NEW e, WriteNew(id, e)
  PROVE  NamesHold
<1>1. ASSUME NEW k \in InUse \cap HeldId
      PROVE  held'[k] = Kept[k]
  BY DEF WriteNew, Kept
<1> QED  BY <1>1, KeptHolds DEF NamesHold

LEMMA HoldHolds ==
  ASSUME NEW m, NEW S, NEW why, Hold(m, S, why) \/ HoldFails(m, S, why)
  PROVE  NamesHold
<1>1. CASE held' = Kept
  BY <1>1, KeptHolds DEF NamesHold
<1>2. CASE \E id \in HeldId \ InUse, e \in {NewEntry(m, S, why), [NewEntry(m, S, why) EXCEPT !.torn = TRUE]} : WriteNew(id, e)
  BY <1>2, WriteNewHolds
<1> QED  BY <1>1, <1>2 DEF Hold, HoldFails

LEMMA RemoveHolds ==
  ASSUME TypeOK, NEW id \in HeldId, Remove(id)
  PROVE  NamesHold
BY DEF Remove, NamesHold, Retried, TypeOK

-----------------------------------------------------------------------------
(* However a job goes on, it stays with its held mail.                     *)
LEMMA GotoHid ==
  ASSUME NEW j \in Job, NEW s, NEW todo, NEW bad
  PROVE  /\ Goto(j, s).hid = j.hid
         /\ Goto([j EXCEPT !.todo = todo], s).hid = j.hid
         /\ Goto([j EXCEPT !.bad = bad], s).hid = j.hid
BY DEF Goto, Job

LEMMA JobStays ==
  ASSUME TypeOK, NEW t \in Thread, job[t] # None, NEW j, SetJob(t, j),
         j = None \/ j.hid = job[t].hid \/ t # "sched"
  PROVE  SchedStays
BY DEF SetJob, SchedStays, TypeOK, JobTypeOK, Thread

LEMMA TransferStays ==
  ASSUME TypeOK, NEW t \in Thread, job[t] # None, NEW S, Transfer(t, S)
  PROVE  SchedStays
<1> DEFINE j == job[t]
           rest == [j EXCEPT !.todo = @ \ S]
<1>1. j \in Job
  BY RunningJob
<1>2. PICK k \in {Goto(rest, StartStage(j.mid, rest.todo)),
                  Goto([rest EXCEPT !.bad = S], At("fail", "none"))} : SetJob(t, k)
  BY DEF Transfer
<1>3. k.hid = j.hid
  BY <1>1, <1>2 DEF Goto, Job
<1> QED  BY <1>2, <1>3, JobStays

LEMMA RaiseStays ==
  ASSUME TypeOK, NEW t \in Thread, job[t] # None, NEW lost, Raise(t, lost)
  PROVE  SchedStays
<1>1. job[t] \in Job
  BY RunningJob
<1>2. PICK k : /\ SetJob(t, k)
               /\ \/ k = None \/ t # "sched"
                  \/ k = Goto(job[t], At("mark", "none"))
  BY DEF Raise
<1>3. k = None \/ k.hid = job[t].hid \/ t # "sched"
  BY <1>1, <1>2 DEF Goto, Job
<1> QED  BY <1>2, <1>3, JobStays

LEMMA GraphFalseHid ==
  ASSUME NEW j \in Job
  PROVE  GraphFalse(j).hid = j.hid
BY DEF GraphFalse, Goto, Job

(* send() leaves the list and the other entries as they are.               *)
LEMMA StepKeeps ==
  ASSUME TypeOK, RetryInv, NEW t \in Thread, Step(t)
  PROVE  RetryInv'
<1> DEFINE j == job[t]
<1>1. j # None
  BY DEF Step, RelayGroup, SmtpSend, AsSender, ForkCheck, GraphCheck, GraphRegister,
         GraphPost, ImapAppend, FailDelivery, MaintenanceHold, Finish
<1>2. j \in Job
  BY <1>1, RunningJob
<1>3. due' = due
  BY DEF Step, RelayGroup, SmtpSend, Transfer, AsSender, ForkCheck, GraphCheck,
         GraphRegister, GraphPost, ImapAppend, FailDelivery, MaintenanceHold, Finish, memory
<1>4. SchedStays
  <2>1. CASE RelayGroup(t) \/ SmtpSend(t)
    BY <2>1, <1>1, TransferStays DEF RelayGroup, SmtpSend
  <2>2. CASE AsSender(t)
    <3>1. PICK k \in {Goto([j EXCEPT !.todo = {}], At("done", "none")),
                      Goto(j, MixedStage(j.mid))} : SetJob(t, k)
      BY <2>2 DEF AsSender
    <3>2. k.hid = j.hid
      BY <1>2, <3>1 DEF Goto, Job
    <3> QED  BY <1>1, <3>1, <3>2, JobStays
  <2>3. CASE ForkCheck(t)
    <3>1. PICK k \in {Goto([j EXCEPT !.todo = {}], At("done", "none")),
                      Goto(j, At("check", "all"))} : SetJob(t, k)
      BY <2>3 DEF ForkCheck
    <3>2. k.hid = j.hid
      BY <1>2, <3>1 DEF Goto, Job
    <3> QED  BY <1>1, <3>1, <3>2, JobStays
  <2>4. CASE GraphCheck(t)
    <3>1. PICK k \in {GraphFalse(j), Goto([j EXCEPT !.todo = {}], At("done", "none")),
                      Goto(j, At(IF j.mid \in NoMid THEN "post" ELSE "register", j.call))} :
            SetJob(t, k)
      BY <2>4 DEF GraphCheck, GraphTrue
    <3>2. k.hid = j.hid
      BY <1>2, <3>1, GraphFalseHid DEF Goto, Job
    <3> QED  BY <1>1, <3>1, <3>2, JobStays
  <2>5. CASE GraphRegister(t)
    <3>1. SetJob(t, Goto(j, At("post", j.call)))
      BY <2>5 DEF GraphRegister
    <3> QED  BY <1>1, <1>2, <3>1, GotoHid, JobStays
  <2>6. CASE GraphPost(t)
    <3>1. PICK k \in {GraphFalse(j), Goto([j EXCEPT !.todo = {}], At("done", "none"))} :
            SetJob(t, k)
      BY <2>6 DEF GraphPost, GraphTrue
    <3>2. k.hid = j.hid
      BY <1>2, <3>1, GraphFalseHid DEF Goto, Job
    <3> QED  BY <1>1, <3>1, <3>2, JobStays
  <2>7. CASE ImapAppend(t)
    <3>1. PICK todo, bad, again, k :
            /\ SetJob(t, k)
            /\ k \in {[j EXCEPT !.todo = todo, !.bad = bad],
                      Goto([j EXCEPT !.todo = todo, !.bad = bad], At("done", "none")),
                      Goto([j EXCEPT !.todo = todo, !.bad = bad], At("fail", "none")),
                      Goto([[j EXCEPT !.todo = todo, !.bad = bad] EXCEPT !.todo = again, !.bad = {}],
                           At("check", "direct"))}
      BY <2>7 DEF ImapAppend
    <3>2. k.hid = j.hid
      BY <1>2, <3>1 DEF Goto, Job
    <3> QED  BY <1>1, <3>1, <3>2, JobStays
  <2>8. CASE FailDelivery(t)
    <3>1. CASE SetJob(t, Goto([j EXCEPT !.bad = {}], StartStage(j.mid, j.todo)))
      BY <1>1, <1>2, <3>1, GotoHid, JobStays
    <3>2. CASE \E lost : Raise(t, lost)
      BY <1>1, <3>2, RaiseStays
    <3> QED  BY <2>8, <3>1, <3>2 DEF FailDelivery
  <2>9. CASE MaintenanceHold(t)
    <3>1. CASE SetJob(t, Goto([j EXCEPT !.todo = {}], At("done", "none")))
      BY <1>1, <1>2, <3>1, GotoHid, JobStays
    <3>2. CASE \E lost : Raise(t, lost)
      BY <1>1, <3>2, RaiseStays
    <3> QED  BY <2>9, <3>1, <3>2 DEF MaintenanceHold
  <2>10. CASE Finish(t)
    BY <1>1, <2>10, JobStays DEF Finish
  <2> QED  BY <2>1, <2>2, <2>3, <2>4, <2>5, <2>6, <2>7, <2>8, <2>9, <2>10 DEF Step
<1>5. NamesHold
  <2>1. CASE UNCHANGED held
    BY <2>1, StoreHolds
  <2>2. CASE FailDelivery(t) \/ MaintenanceHold(t)
    BY <2>1, <2>2, HoldHolds DEF FailDelivery, MaintenanceHold, store
  <2>3. CASE Finish(t)
    <3>1. CASE t # "smtp" /\ Remove(j.hid)
      <4>1. j.hid \in HeldId
        BY <1>1, <3>1 DEF TypeOK, JobTypeOK, JobOf
      <4> QED  BY <3>1, <4>1, RemoveHolds
    <3> QED  BY <2>1, <2>3, <3>1 DEF Finish, store
  <2> QED
    BY <2>1, <2>2, <2>3 DEF Step, RelayGroup, SmtpSend, Transfer, AsSender, ForkCheck,
         GraphCheck, GraphRegister, GraphPost, ImapAppend, store
<1> QED  BY <1>3, <1>4, <1>5, QuietKeeps

-----------------------------------------------------------------------------
LEMMA RetryStarts == Init => RetryInv
BY DEF Init, RetryInv, Thread

LEMMA RetryNext == TypeOK /\ RetryInv /\ [Next]_vars => RetryInv'
<1> SUFFICES ASSUME TypeOK, RetryInv, [Next]_vars PROVE RetryInv'
  OBVIOUS
<1>1. ASSUME NEW f \in Fork, Accept(f) PROVE RetryInv'
  <2>1. SchedStays /\ due' = due
    BY <1>1 DEF Accept, SetJob, SchedStays, memory, TypeOK, JobTypeOK, Thread
  <2>2. NamesHold
    BY <1>1, StoreHolds DEF Accept, store
  <2> QED  BY <2>1, <2>2, QuietKeeps
<1>2. ASSUME NEW t \in Thread, Step(t) PROVE RetryInv'
  BY <1>2, StepKeeps
<1>3. CASE SchedScan
  <2>1. due' = Due /\ UNCHANGED <<job, held>> /\ job["sched"] = None
    BY <1>3 DEF SchedScan, store
  <2> QED  BY <2>1 DEF RetryInv, Retried, Due, IsDue
<1>4. ASSUME NEW id \in HeldId, SchedTake(id) PROVE RetryInv'
  <2>1. /\ id \in due /\ due' = due \ {id} /\ UNCHANGED held
        /\ job["sched"] = None
    BY <1>4 DEF SchedTake, store
  <2>2. job'["sched"] # None => job'["sched"].hid = id
    BY <1>4, <2>1 DEF SchedTake, SetJob, NewJob, TypeOK, JobTypeOK, Thread
  <2> QED  BY <2>1, <2>2 DEF RetryInv
<1>5. CASE MarkRead
  <2>1. job["sched"] # None /\ job["sched"] \in Job /\ due' = due
    BY <1>5, RunningJob DEF MarkRead, memory, Thread
  <2>2. SchedStays
    <3>1. PICK k : /\ SetJob("sched", k)
                   /\ \/ k = None
                      \/ k = Goto([job["sched"] EXCEPT !.snap = Failed(held[job["sched"].hid])],
                                  At("write", "none"))
      BY <1>5 DEF MarkRead
    <3>2. k = None \/ k.hid = job["sched"].hid
      BY <2>1, <3>1 DEF Goto, Job
    <3> QED  BY <2>1, <3>1, <3>2, JobStays DEF Thread
  <2>3. NamesHold
    BY <1>5, StoreHolds DEF MarkRead, store
  <2> QED  BY <2>1, <2>2, <2>3, QuietKeeps
<1>6. CASE MarkWrite
  <2> DEFINE hid == job["sched"].hid
  <2>1. /\ job["sched"] # None /\ hid \notin due
        /\ \A id \in HeldId \ {hid} : held'[id] = held[id]
        /\ due' \subseteq due
    BY <1>6 DEF MarkWrite, RetryInv, TypeOK
  <2>2. job'["sched"] = None
    BY <1>6 DEF MarkWrite, SetJob, TypeOK, JobTypeOK, Thread
  <2> QED  BY <2>1, <2>2 DEF RetryInv, TypeOK
<1>7. ASSUME NEW id \in HeldId, Release(id) PROVE RetryInv'
  <2>1. SchedStays /\ due' = due
    BY <1>7 DEF Release, SetJob, SchedStays, memory, TypeOK, JobTypeOK, Thread
  <2>2. NamesHold
    BY <1>7, StoreHolds DEF Release, store
  <2> QED  BY <2>1, <2>2, QuietKeeps
<1>8. ASSUME NEW id \in HeldId, Discard(id) PROVE RetryInv'
  <2>1. SchedStays /\ due' = due
    BY <1>8 DEF Discard, SchedStays, memory
  <2>2. NamesHold
    BY <1>8, RemoveHolds DEF Discard
  <2> QED  BY <2>1, <2>2, QuietKeeps
<1>9. CASE SetMaintenance
  BY <1>9 DEF SetMaintenance, memory, store, RetryInv
<1>10. CASE Restart
  <2>1. job'["sched"] = None /\ due' = {}
    BY <1>10 DEF Restart, Thread
  <2> QED  BY <2>1 DEF RetryInv
<1>11. CASE Tick
  <2>1. SchedStays /\ due' = due
    BY <1>11 DEF Tick, SchedStays
  <2>2. NamesHold
    <3>1. ASSUME NEW id \in HeldId, Retried(held[id]) PROVE Retried(held'[id])
      <4>1. CASE held[id] = None
        BY <1>11, <4>1 DEF Tick, Retried
      <4>2. CASE held[id] # None
        <5>1. held[id] \in Entry
          BY <4>2 DEF TypeOK
        <5>2. held'[id] = [held[id] EXCEPT !.age = Aged(@, GiveUp),
                                           !.wait = IF @ > 0 THEN @ - 1 ELSE 0]
          BY <1>11, <4>2 DEF Tick
        <5>3. held'[id].why = held[id].why /\ held'[id].over = held[id].over
          BY <5>1, <5>2 DEF Entry
        <5> QED  BY <3>1, <4>2, <5>3 DEF Retried
      <4> QED  BY <4>1, <4>2
    <3> QED  BY <3>1 DEF NamesHold
  <2> QED  BY <2>1, <2>2, QuietKeeps
<1>12. CASE UNCHANGED vars
  BY <1>12 DEF vars, RetryInv
<1> QED
  BY <1>1, <1>2, <1>3, <1>4, <1>5, <1>6, <1>7, <1>8, <1>9, <1>10, <1>11, <1>12 DEF Next

(* Whatever operators release, delete and hold, however entries are        *)
(* evicted, rewritten or torn while the retry run goes on, the scheduler   *)
(* never works on a mail held for maintenance or given up.                 *)
THEOREM OperatorsMailIsLeft == Spec => []RetryLeavesOperatorsMail
<1>1. RetryInv => RetryLeavesOperatorsMail
  BY DEF RetryInv, Retried, RetryLeavesOperatorsMail
<1> QED  BY TypeCorrect, RetryStarts, RetryNext, <1>1, PTL DEF Spec

(***************************************************************************)
(* The promise of Custody: whoever is responsible for a copy hands it on.  *)
(* That a 250 is given once is what the invariant InHand is for: the       *)
(* transaction the handler works on is one Exchange waits for.             *)
(***************************************************************************)

(* Exchange waits for the answer to the transaction the handler works on.  *)
InHand == job["smtp"] # None => exch[job["smtp"].fork] = "busy"

(* A 250 is given once.                                                    *)
TakenStays == \A f \in Fork : exch[f] = "taken" => exch'[f] = "taken"

LEMMA JobGoesOn ==
  ASSUME TypeOK, InHand, NEW t \in Thread, job[t] # None, NEW k, SetJob(t, k),
         k # None => k.fork = job[t].fork, exch' = exch
  PROVE  InHand' /\ TakenStays
<1>1. job'["smtp"] # None => job["smtp"] # None /\ job'["smtp"].fork = job["smtp"].fork
  BY DEF SetJob, TypeOK, JobTypeOK, Thread
<1> QED  BY <1>1 DEF InHand, TakenStays

LEMMA JobAnswers ==
  ASSUME TypeOK, InHand, job["smtp"] # None, SetJob("smtp", None),
         NEW e, exch' = [exch EXCEPT ![job["smtp"].fork] = e]
  PROVE  InHand' /\ TakenStays
<1>1. job'["smtp"] = None
  BY DEF SetJob, TypeOK, JobTypeOK, Thread
<1>2. exch[job["smtp"].fork] # "taken"
  BY DEF InHand
<1> QED  BY <1>1, <1>2 DEF InHand, TakenStays, TypeOK

(* Another stage is the same transaction.                                  *)
LEMMA StageGoesOn ==
  ASSUME TypeOK, InHand, NEW t \in Thread, job[t] # None, NEW l,
         \A s : Goto(l, s).fork = job[t].fork, NEW s, SetJob(t, Goto(l, s)), exch' = exch
  PROVE  InHand' /\ TakenStays
BY JobGoesOn

LEMMA SameFork ==
  ASSUME NEW j \in Job
  PROVE  \A s : Goto(j, s).fork = j.fork
BY DEF Goto, Job

LEMMA SameForkGraph ==
  ASSUME NEW j \in Job
  PROVE  GraphFalse(j).fork = j.fork
<1> DEFINE l == [j EXCEPT !.bad = j.todo, !.todo = {}]
<1>1. \A s : Goto(l, s).fork = j.fork
  BY DEF Goto, Job
<1>2. \A s : Goto(j, s).fork = j.fork
  BY SameFork
<1>3. \/ \E s : GraphFalse(j) = Goto(j, s)
      \/ \E s : GraphFalse(j) = Goto(l, s)
  <2> HIDE DEF l
  <2>1. CASE j.call = "ident"
    BY <2>1, Zenon DEF GraphFalse
  <2>2. CASE j.call = "all"
    BY <2>2 DEF GraphFalse
  <2>3. CASE j.call = "direct" /\ Mode = "graph" /\ SmtpFallback
    BY <2>3 DEF GraphFalse
  <2>4. CASE j.call = "direct" /\ Mode = "graph_plus" /\ j.mid \in Internal
    BY <2>4 DEF GraphFalse
  <2>5. CASE /\ j.call # "ident" /\ j.call # "all" /\ ~(j.call = "direct" /\ Mode = "graph" /\ SmtpFallback)
             /\ ~(j.call = "direct" /\ Mode = "graph_plus" /\ j.mid \in Internal)
    BY <2>5 DEF GraphFalse, l
  <2> QED  BY <2>1, <2>2, <2>3, <2>4, <2>5
<1> HIDE DEF l
<1> QED  BY <1>1, <1>2, <1>3

LEMMA RaiseInHand ==
  ASSUME TypeOK, InHand, NEW t \in Thread, job[t] # None, NEW lost, Raise(t, lost)
  PROVE  InHand' /\ TakenStays
<1>0. PICK j \in Job : j = job[t]
  BY RunningJob
<1>1. CASE t = "smtp" /\ SetJob(t, None)
  <2>1. CASE exch' = [exch EXCEPT ![j.fork] = "taken"]
    BY <1>0, <1>1, <2>1, JobAnswers
  <2>2. CASE exch' = [exch EXCEPT ![j.fork] = "queued"]
    BY <1>0, <1>1, <2>2, JobAnswers
  <2>3. CASE exch' = exch
    BY <1>0, <1>1, <2>3, JobGoesOn
  <2> QED  BY <1>0, <2>1, <2>2, <2>3 DEF Raise
<1>2. CASE SetJob(t, NewJob(j.mid, j.all, j.fork, None, TRUE)) /\ UNCHANGED exch
  <2>1. NewJob(j.mid, j.all, j.fork, None, TRUE).fork = j.fork
    BY DEF NewJob
  <2> QED  BY <1>0, <1>2, <2>1, JobGoesOn
<1>3. CASE SetJob(t, Goto(j, At("mark", "none"))) /\ UNCHANGED exch
  BY <1>0, <1>3, SameFork, JobGoesOn
<1>4. CASE SetJob(t, None) /\ UNCHANGED exch
  BY <1>0, <1>4, JobGoesOn
<1> QED  BY <1>0, <1>1, <1>2, <1>3, <1>4, Zenon DEF Raise

LEMMA TransferInHand ==
  ASSUME TypeOK, InHand, NEW t \in Thread, job[t] # None, NEW S, Transfer(t, S)
  PROVE  InHand' /\ TakenStays
<1>0. PICK j \in Job : j = job[t]
  BY RunningJob
<1> DEFINE rest == [j EXCEPT !.todo = j.todo \ S]
           all == [rest EXCEPT !.bad = S]
<1>1. \A s : Goto(rest, s).fork = j.fork /\ Goto(all, s).fork = j.fork
  BY DEF Goto, Job
<1>2. exch' = exch /\ \E s : SetJob(t, Goto(rest, s)) \/ SetJob(t, Goto(all, s))
  BY <1>0 DEF Transfer
<1> HIDE DEF rest, all
<1> QED  BY <1>0, <1>1, <1>2, StageGoesOn

LEMMA StepInHand ==
  ASSUME TypeOK, InHand, NEW t \in Thread, Step(t)
  PROVE  InHand' /\ TakenStays
<1>0. PICK j \in Job : j = job[t] /\ job[t] # None
  <2>1. job[t] # None
    BY DEF Step, RelayGroup, SmtpSend, AsSender, ForkCheck, GraphCheck, GraphRegister, GraphPost,
       ImapAppend, FailDelivery, MaintenanceHold, Finish
  <2> QED  BY <2>1, RunningJob
<1>1. CASE RelayGroup(t)
  BY <1>0, <1>1, TransferInHand DEF RelayGroup
<1>2. CASE SmtpSend(t)
  BY <1>0, <1>2, TransferInHand DEF SmtpSend
<1>3. CASE AsSender(t)
  <2> DEFINE l == [j EXCEPT !.todo = {}]
  <2>1. exch' = exch /\ \E s : SetJob(t, Goto(l, s)) \/ SetJob(t, Goto(j, s))
    BY <1>0, <1>3 DEF AsSender
  <2>2. \A s : Goto(l, s).fork = j.fork /\ Goto(j, s).fork = j.fork
    BY DEF Goto, Job
  <2> HIDE DEF l
  <2> QED  BY <1>0, <2>1, <2>2, StageGoesOn
<1>4. CASE ForkCheck(t)
  <2> DEFINE l == [j EXCEPT !.todo = {}]
  <2>1. exch' = exch /\ \E s : SetJob(t, Goto(l, s)) \/ SetJob(t, Goto(j, s))
    BY <1>0, <1>4 DEF ForkCheck
  <2>2. \A s : Goto(l, s).fork = j.fork /\ Goto(j, s).fork = j.fork
    BY DEF Goto, Job
  <2> HIDE DEF l
  <2> QED  BY <1>0, <2>1, <2>2, StageGoesOn
<1>5. CASE GraphCheck(t) \/ GraphPost(t)
  <2> DEFINE l == [j EXCEPT !.todo = {}]
  <2>1. /\ exch' = exch
        /\ SetJob(t, GraphFalse(j)) \/ \E s : SetJob(t, Goto(l, s)) \/ SetJob(t, Goto(j, s))
    BY <1>0, <1>5 DEF GraphCheck, GraphPost, GraphTrue
  <2>2. \A s : Goto(l, s).fork = j.fork /\ Goto(j, s).fork = j.fork
    BY DEF Goto, Job
  <2>3. GraphFalse(j).fork = j.fork
    BY SameForkGraph
  <2> HIDE DEF l
  <2> QED  BY <1>0, <2>1, <2>2, <2>3, StageGoesOn, JobGoesOn
<1>6. CASE GraphRegister(t)
  <2>1. \E s : exch' = exch /\ SetJob(t, Goto(j, s))
    BY <1>0, <1>6 DEF GraphRegister
  <2> QED  BY <1>0, <2>1, SameFork, JobGoesOn
<1>7. CASE ImapAppend(t)
  <2>1. PICK k : SetJob(t, k) /\ exch' = exch /\ k.fork = j.fork
    <3>1. PICK r \in j.todo, ok \in BOOLEAN :
            LET todo == j.todo \ {r}
                bad == IF ok THEN j.bad ELSE j.bad \cup {r}
                k == [j EXCEPT !.todo = todo, !.bad = bad] IN
            SetJob(t, IF todo # {} THEN k
                      ELSE IF bad = {} THEN Goto(k, At("done", "none"))
                      ELSE IF j.mid \in Internal THEN Goto(k, At("fail", "none"))
                      ELSE Goto([k EXCEPT !.todo = bad, !.bad = {}], At("check", "direct")))
      BY <1>0, <1>7 DEF ImapAppend
    <3>2. exch' = exch
      BY <1>7 DEF ImapAppend
    <3> DEFINE todo == j.todo \ {r}
               bad == IF ok THEN j.bad ELSE j.bad \cup {r}
               l == [j EXCEPT !.todo = todo, !.bad = bad]
    <3>3. \A s : Goto([l EXCEPT !.todo = bad, !.bad = {}], s).fork = j.fork
      BY DEF Goto, Job
    <3>4. l.fork = j.fork /\ \A s : Goto(l, s).fork = j.fork
      <4>1. l.fork = j.fork
        BY DEF Job
      <4>2. \A s : Goto(l, s).fork = j.fork
        BY DEF Goto, Job
      <4> QED  BY <4>1, <4>2
    <3>5. \/ SetJob(t, l) \/ \E s : SetJob(t, Goto(l, s))
          \/ \E s : SetJob(t, Goto([l EXCEPT !.todo = bad, !.bad = {}], s))
      BY <3>1
    <3> HIDE DEF l
    <3> QED  BY <3>2, <3>3, <3>4, <3>5
  <2> QED  BY <1>0, <2>1, JobGoesOn
<1>8. CASE FailDelivery(t)
  <2>1. CASE \E s : exch' = exch /\ SetJob(t, Goto([j EXCEPT !.bad = {}], s))
    <3> DEFINE l == [j EXCEPT !.bad = {}]
    <3>1. \A s : Goto(l, s).fork = j.fork
      BY DEF Goto, Job
    <3>2. exch' = exch /\ \E s : SetJob(t, Goto(l, s))
      BY <2>1
    <3> HIDE DEF l
    <3> QED  BY <1>0, <3>1, <3>2, StageGoesOn
  <2>2. CASE \E lost : Raise(t, lost)
    BY <1>0, <2>2, RaiseInHand
  <2> QED  BY <1>0, <1>8, <2>1, <2>2 DEF FailDelivery
<1>9. CASE MaintenanceHold(t)
  <2>1. CASE \E s : exch' = exch /\ SetJob(t, Goto([j EXCEPT !.todo = {}], s))
    <3> DEFINE l == [j EXCEPT !.todo = {}]
    <3>1. \A s : Goto(l, s).fork = j.fork
      BY DEF Goto, Job
    <3>2. exch' = exch /\ \E s : SetJob(t, Goto(l, s))
      BY <2>1
    <3> HIDE DEF l
    <3> QED  BY <1>0, <3>1, <3>2, StageGoesOn
  <2>2. CASE \E lost : Raise(t, lost)
    BY <1>0, <2>2, RaiseInHand
  <2> QED  BY <1>0, <1>9, <2>1, <2>2 DEF MaintenanceHold
<1>10. CASE Finish(t)
  <2>1. CASE t = "smtp"
    BY <1>0, <1>10, <2>1, JobAnswers DEF Finish
  <2>2. CASE t # "smtp"
    BY <1>0, <1>10, <2>2, JobGoesOn DEF Finish
  <2> QED  BY <2>1, <2>2
<1> QED  BY <1>1, <1>2, <1>3, <1>4, <1>5, <1>6, <1>7, <1>8, <1>9, <1>10 DEF Step

LEMMA InHandNext == TypeOK /\ InHand /\ [Next]_vars => InHand' /\ TakenStays
<1> SUFFICES ASSUME TypeOK, InHand, [Next]_vars PROVE InHand' /\ TakenStays
  OBVIOUS
<1>1. ASSUME NEW f \in Fork, Accept(f)  PROVE InHand' /\ TakenStays
  <2>1. PICK k : SetJob("smtp", k) /\ k.fork = f
    <3> DEFINE j == NewJob(MailOf[f], Env[f], f, None, FALSE)
    <3>1. j \in Job /\ j.fork = f
      <4>1. MailOf[f] \in Mail /\ Env[f] \in SUBSET Rcpt /\ FALSE \in BOOLEAN
        BY DeliveryAssumption
      <4>2. j \in JobOf("smtp")
        BY <4>1, NewSmtpJobType
      <4>3. j.fork = f
        BY DEF NewJob
      <4> QED  BY <4>2, <4>3 DEF JobOf
    <3>2. Goto(j, At("hold", "none")).fork = f
      BY <3>1, SameFork
    <3>3. SetJob("smtp", IF maint THEN Goto(j, At("hold", "none")) ELSE j)
      BY <1>1 DEF Accept
    <3> HIDE DEF j
    <3> QED  BY <3>1, <3>2, <3>3
  <2>2. exch' = [exch EXCEPT ![f] = "busy"] /\ exch[f] = "queued"
    BY <1>1 DEF Accept
  <2>3. job'["smtp"] = k
    BY <2>1 DEF SetJob, TypeOK, JobTypeOK, Thread
  <2> QED  BY <2>1, <2>2, <2>3 DEF InHand, TakenStays, TypeOK
<1>2. ASSUME NEW t \in Thread, Step(t)  PROVE InHand' /\ TakenStays
  BY <1>2, StepInHand
<1>3. CASE job'["smtp"] = job["smtp"] /\ exch' = exch
  BY <1>3 DEF InHand, TakenStays
<1>4. CASE MarkRead \/ MarkWrite \/ \E id \in HeldId : SchedTake(id) \/ Release(id)
  <2>1. exch' = exch /\ (job' = job \/ \E t \in {"sched", "web"} : \E k : SetJob(t, k))
    BY <1>4 DEF MarkRead, MarkWrite, SchedTake, Release
  <2>2. job'["smtp"] = job["smtp"]
    BY <2>1 DEF SetJob, TypeOK, JobTypeOK, Thread
  <2> QED  BY <1>3, <2>1, <2>2
<1>5. CASE SchedScan \/ SetMaintenance \/ Tick \/ (\E id \in HeldId : Discard(id)) \/ UNCHANGED vars
  BY <1>3, <1>5 DEF SchedScan, SetMaintenance, Tick, Discard, vars
<1>6. CASE Restart
  BY <1>6 DEF Restart, InHand, TakenStays, Thread
<1> QED  BY <1>1, <1>2, <1>4, <1>5, <1>6 DEF Next

LEMMA OutcomesStay ==
  ASSUME [Next]_vars
  PROVE  delivered \subseteq delivered' /\ told \subseteq told' /\ discarded \subseteq discarded'
<1>1. ASSUME NEW t \in Thread, Step(t)
      PROVE  delivered \subseteq delivered' /\ told \subseteq told' /\ discarded \subseteq discarded'
  <2>1. CASE RelayGroup(t) \/ SmtpSend(t)
    BY <2>1 DEF RelayGroup, SmtpSend, Transfer, Deliver, bookkeeping
  <2>2. CASE AsSender(t) \/ GraphPost(t) \/ ImapAppend(t)
    BY <2>2 DEF AsSender, GraphPost, ImapAppend, Deliver, bookkeeping
  <2>3. CASE ForkCheck(t) \/ GraphCheck(t) \/ GraphRegister(t) \/ Finish(t)
    BY <2>3 DEF ForkCheck, GraphCheck, GraphRegister, Finish, bookkeeping, outcome
  <2>4. CASE FailDelivery(t) \/ MaintenanceHold(t)
    BY <2>4 DEF FailDelivery, MaintenanceHold, Raise, outcome
  <2> QED  BY <1>1, <2>1, <2>2, <2>3, <2>4 DEF Step
<1> QED  BY <1>1 DEF Next, Accept, SchedScan, MarkRead, MarkWrite, SchedTake, Release, Discard,
           SetMaintenance, Restart, Tick, vars, bookkeeping, outcome

(* As long as the code has not let go of any copy, every copy is somewhere, *)
(* and where it is says which of the sets it is in.                         *)
Placed ==
  \A p \in Sent :
    /\ Place(p) \in Promise!Place
    /\ Place(p) = "delivered" <=> p \in delivered
    /\ Place(p) = "discarded" <=> p \in discarded \ delivered
    /\ Place(p) = "told" <=> p \in told \ (delivered \cup discarded)
    /\ Place(p) = "exchange" <=> ~Settled(p) /\ InExchange(p)
    /\ Place(p) = "gateway" <=> ~Settled(p) /\ ~InExchange(p)

LEMMA PlaceIs == LossExplained /\ gone = {} => Placed
<1> SUFFICES ASSUME LossExplained, gone = {}, NEW p \in Sent
             PROVE  /\ Place(p) \in Promise!Place
                    /\ Place(p) = "delivered" <=> p \in delivered
                    /\ Place(p) = "discarded" <=> p \in discarded \ delivered
                    /\ Place(p) = "told" <=> p \in told \ (delivered \cup discarded)
                    /\ Place(p) = "exchange" <=> ~Settled(p) /\ InExchange(p)
                    /\ Place(p) = "gateway" <=> ~Settled(p) /\ ~InExchange(p)
  BY DEF Placed
<1>1. ~Explained(p)
  BY DEF Explained
<1>2. InExchange(p) \/ InQueue(p) \/ Settled(p)
  BY <1>1 DEF LossExplained
<1>3. CASE p \in delivered
  BY <1>3 DEF Place, Settled, Promise!Place
<1>4. CASE p \in discarded \ delivered
  BY <1>4 DEF Place, Settled, Promise!Place
<1>5. CASE p \in told \ (delivered \cup discarded)
  BY <1>5 DEF Place, Settled, Promise!Place
<1>6. CASE ~Settled(p) /\ InExchange(p)
  BY <1>6 DEF Place, Settled, Promise!Place
<1>7. CASE ~Settled(p) /\ ~InExchange(p)
  BY <1>2, <1>7 DEF Place, Settled, Promise!Place
<1> QED  BY <1>3, <1>4, <1>5, <1>6, <1>7 DEF Settled

LEMMA CustodyStart == Init /\ gone = {} => Promise!Init
<1> SUFFICES ASSUME Init, NEW p \in Sent  PROVE Place(p) = "exchange"
  BY DEF Promise!Init
<1>1. ~Settled(p)
  BY DEF Init, Settled
<1>2. InExchange(p)
  BY DEF Init, InExchange, Sent
<1> QED  BY <1>1, <1>2 DEF Place, Settled

LEMMA CustodyStep ==
  ASSUME Placed, Placed', TakenStays,
         delivered \subseteq delivered', told \subseteq told', discarded \subseteq discarded'
  PROVE  [Promise!Next]_[p \in Sent |-> Place(p)]
<1> DEFINE place == [p \in Sent |-> Place(p)]
<1>1. place' = [p \in Sent |-> Place(p)']
  OBVIOUS
<1>2. \A p \in Sent : place[p] = Place(p) /\ place'[p] = Place(p)'
  BY <1>1
<1>3. \A p \in Sent : Place(p)' \in Promise!Place
  BY DEF Placed
<1>4. ASSUME NEW p \in Sent, Place(p)' # Place(p)  PROVE <<Place(p), Place(p)'>> \in Promise!Move
  <2>1. InExchange(p)' => InExchange(p)
    BY DEF InExchange, TakenStays
  <2>2. /\ Place(p) = "delivered" <=> p \in delivered
        /\ Place(p) = "discarded" <=> p \in discarded \ delivered
        /\ Place(p) = "told" <=> p \in told \ (delivered \cup discarded)
        /\ Place(p) = "exchange" <=> ~Settled(p) /\ InExchange(p)
        /\ Place(p) = "gateway" <=> ~Settled(p) /\ ~InExchange(p)
        /\ Place(p) \in Promise!Place
    BY DEF Placed
  <2>3. /\ Place(p)' = "delivered" <=> p \in delivered'
        /\ Place(p)' = "discarded" <=> p \in discarded' \ delivered'
        /\ Place(p)' = "told" <=> p \in told' \ (delivered' \cup discarded')
        /\ Place(p)' = "exchange" <=> ~Settled(p)' /\ InExchange(p)'
        /\ Place(p)' = "gateway" <=> ~Settled(p)' /\ ~InExchange(p)'
        /\ Place(p)' \in Promise!Place
    BY DEF Placed
  <2>4. Settled(p) => Settled(p)'
    BY DEF Settled
  <2> QED  BY <1>4, <2>1, <2>2, <2>3, <2>4 DEF Promise!Move, Promise!Place
<1> HIDE DEF place
<1>5. place' \in [Sent -> Promise!Place]
  BY <1>1, <1>3
<1>6. \A p \in Sent : place'[p] # place[p] => <<place[p], place'[p]>> \in Promise!Move
  BY <1>2, <1>4
<1>7. place' = place \/ Promise!Next
  BY <1>5, <1>6 DEF Promise!Next, place
<1> QED  BY <1>7 DEF place

(* While no copy was let go of for one of the six causes, someone is       *)
(* responsible for every copy and hands it on by the moves of Custody: the *)
(* gateway answers 250 only for what is in its queue, delivered, reported  *)
(* or discarded, and none of that is ever taken back.                      *)
THEOREM CustodyHolds == Spec /\ [](gone = {}) => CustodyKept
<1>1. Init => InHand
  BY DEF Init, InHand, Thread
<1>2. Spec => [](TypeOK /\ InHand)
  BY <1>1, TypeInit, TypeNext, InHandNext, PTL DEF Spec
<1>3. /\ TypeOK /\ InHand /\ Placed /\ Placed' /\ [Next]_vars
      => [Promise!Next]_[p \in Sent |-> Place(p)]
  BY InHandNext, OutcomesStay, CustodyStep
<1> QED  BY <1>2, <1>3, CustodyStart, LossIsExplained, PlaceIs, PTL DEF CustodyKept, Promise!Spec, Spec
================================================================================
