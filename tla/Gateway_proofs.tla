----------------------------- MODULE Gateway_proofs -----------------------------
(***************************************************************************)
(* Proofs about the seven parts MCGateway puts side by side: for each an   *)
(* inductive invariant and what follows from it, then the theorems about   *)
(* the whole, which moves one of the parts and leaves the others alone.    *)
(***************************************************************************)
EXTENDS MCGateway, SequenceTheorems, FiniteSetTheorems, TLAPS

-----------------------------------------------------------------------------
(* AcmeOrders                                                              *)

OrderRecord == [id : OrderId, status : {Status[n] : n \in DOMAIN Status}] \cup {NoOrder}
TaskRecord == [kind : {"none", "poll", "found", "answer", "complete"},
               id : {0} \cup OrderId, mail : {0} \cup OrderId, claim : {0} \cup OrderId,
               at : {"none", "sleep", "reads", "claims", "sends", "replied", "validating",
                     "finalizing", "dying"}]

Waits(i) == order = [id |-> i, status |-> "waiting_challenge"]
Answering(t) == task[t].kind = "answer" /\ task[t].at = "sends"

(* A task that works has an order, and orders are numbered as they came.   *)
OrderNumbers ==
  /\ \A t \in Slot : task[t].kind # "none" => task[t].id \in 1..placed
  /\ \A t \in Slot : Answering(t) => task[t].claim \in 1..placed
  /\ order # NoOrder => order.id \in 1..placed
  /\ \A i \in OrderId : replies[i] > 0 => i <= placed

(* Whoever is about to answer on a claim is alone with it, and neither an  *)
(* order that is claimed nor an answered one waits any longer.             *)
OneAnswers ==
  /\ \A t, u \in Slot : Answering(t) /\ Answering(u) /\ task[t].claim = task[u].claim => t = u
  /\ \A t \in Slot : Answering(t) => ~Waits(task[t].claim) /\ replies[task[t].claim] = 0
  /\ \A i \in OrderId : replies[i] > 0 => replies[i] = 1 /\ ~Waits(i)

AcmeInv == AcmeTypeOK /\ OrderNumbers /\ OneAnswers

LEMMA StatusValues ==
  {Status[n] : n \in DOMAIN Status} =
     {"waiting_challenge", "processing_challenge", "challenge_replied", "validating",
      "finalizing", "error"}
<1>1. DOMAIN Status = 1..6
  BY DEF Status
<1>2. 1..6 = {1, 2, 3, 4, 5, 6}
  OBVIOUS
<1> QED  BY <1>1, <1>2 DEF Status

(* What a task becomes when it is cancelled, ends or goes on.              *)
LEMMA CancelledTasks ==
  ASSUME task \in [Slot -> TaskRecord], NEW t
  PROVE  /\ Cancelled(t) \in [Slot -> TaskRecord]
         /\ \A u \in Slot : Cancelled(t)[u] \in {task[u], Dying}
  BY DEF Cancelled, TaskRecord, Dying, Idle

(* Tasks go on or end: none comes, and none sets out to answer.            *)
TasksCalm ==
  /\ task' \in [Slot -> TaskRecord]
  /\ \A u \in Slot :
       /\ task'[u].kind # "none" => task[u].kind # "none" /\ task'[u].id = task[u].id
       /\ Answering(u)' => Answering(u) /\ task'[u].claim = task[u].claim

LEMMA TaskGoes ==
  ASSUME task \in [Slot -> TaskRecord], NEW t \in Slot,
         NEW at \in {"sleep", "reads", "replied", "validating", "finalizing"},
         Goes(t, at) \/ Ends(t)
  PROVE  TasksCalm
<1>1. task[t] \in TaskRecord /\ [task[t] EXCEPT !.at = at] \in TaskRecord /\ Dying \in TaskRecord
  BY DEF TaskRecord, Dying, Idle
<1>2. CASE Goes(t, at)
  <2>1. /\ task' \in [Slot -> TaskRecord] /\ task'[t] = [task[t] EXCEPT !.at = at]
        /\ \A u \in Slot : u # t => task'[u] = task[u]
    BY <1>1, <1>2 DEF Goes
  <2>2. task'[t].kind = task[t].kind /\ task'[t].id = task[t].id /\ task'[t].at # "sends"
    BY <1>1, <2>1 DEF TaskRecord
  <2> QED  BY <2>1, <2>2 DEF TasksCalm, Answering
<1>3. CASE Ends(t)
  <2>1. /\ task' \in [Slot -> TaskRecord] /\ task'[t] = Dying
        /\ \A u \in Slot : u # t => task'[u] = task[u]
    BY <1>1, <1>3 DEF Ends
  <2>2. task'[t].kind = "none"
    BY <2>1 DEF Dying, Idle
  <2> QED  BY <2>1, <2>2 DEF TasksCalm, Answering
<1> QED  BY <1>2, <1>3

(* A task comes that does not set out to answer, others may end.           *)
LEMMA TaskStarts ==
  ASSUME task \in [Slot -> TaskRecord], NEW T \in [Slot -> TaskRecord],
         \A u \in Slot : T[u] \in {task[u], Dying},
         NEW t \in Slot, NEW new \in TaskRecord, new.kind # "answer",
         task' = [T EXCEPT ![t] = new]
  PROVE  /\ task' \in [Slot -> TaskRecord]
         /\ \A u \in Slot :
              /\ task'[u].kind # "none" => \/ task[u].kind # "none" /\ task'[u].id = task[u].id
                                           \/ task'[u].id = new.id
              /\ Answering(u)' => Answering(u) /\ task'[u].claim = task[u].claim
<1>1. /\ task' \in [Slot -> TaskRecord] /\ task'[t] = new
      /\ \A u \in Slot : u # t => task'[u] \in {task[u], Dying}
  OBVIOUS
<1>2. Dying.kind = "none"
  BY DEF Dying, Idle
<1> QED  BY <1>1, <1>2 DEF Answering

(* The records tasks are started with.                                     *)
LEMMA StartRecords ==
  ASSUME NEW i \in OrderId
  PROVE  /\ Poll(i) \in TaskRecord /\ Poll(i).kind = "poll" /\ Poll(i).id = i
         /\ \A m \in {0} \cup OrderId : /\ Found(i, m) \in TaskRecord
                                        /\ Found(i, m).kind = "found" /\ Found(i, m).id = i
         /\ Completion(i, "validating") \in TaskRecord
         /\ Completion(i, "validating").kind = "complete" /\ Completion(i, "validating").id = i
         /\ Dying \in TaskRecord /\ Dying.kind = "none"
         /\ Idle \in TaskRecord /\ Idle.kind = "none"
  BY DEF Poll, Found, Completion, Dying, Idle, TaskRecord

LEMMA OrderWritten ==
  ASSUME NEW i \in OrderId, NEW s \in {Status[n] : n \in DOMAIN Status}, Write(i, s)
  PROVE  order' \in OrderRecord /\ order'.id = i /\ order'.status = s /\ order' # NoOrder
  BY StatusValues DEF Write, OrderRecord, NoOrder

(* A step is calm if nobody is about to answer who was not before and no   *)
(* order waits that did not.                                               *)
AcmeCalm ==
  /\ placed' \in 0..MaxOrders /\ placed <= placed'
  /\ task' \in [Slot -> TaskRecord]
  /\ \A u \in Slot : /\ task'[u].kind # "none" => task'[u].id \in 1..placed'
                     /\ Answering(u)' => Answering(u) /\ task'[u].claim = task[u].claim
  /\ order' \in OrderRecord
  /\ order' # NoOrder => order'.id \in 1..placed'
  /\ \A i \in 1..placed : Waits(i)' => Waits(i)

LEMMA AcmeCalmKeeps ==
  ASSUME AcmeInv, AcmeCalm, UNCHANGED replies
  PROVE  OrderNumbers' /\ OneAnswers'
<1>1. placed \in 0..MaxOrders /\ replies \in [OrderId -> Nat]
  BY DEF AcmeInv, AcmeTypeOK
<1>2. OrderNumbers'
  <2>1. \A i \in OrderId : replies'[i] > 0 => i <= placed'
    BY <1>1, AcmeAssumption DEF AcmeInv, AcmeCalm, OrderNumbers, OrderId
  <2>2. \A t \in Slot : Answering(t)' => task'[t].claim \in 1..placed'
    BY <1>1, AcmeAssumption DEF AcmeInv, AcmeCalm, OrderNumbers
  <2> QED  BY <2>1, <2>2 DEF AcmeCalm, OrderNumbers
<1>3. \A t \in Slot : Answering(t) => task[t].claim \in 1..placed
  BY DEF AcmeInv, OrderNumbers
<1>4. \A t \in Slot : Answering(t)' => ~Waits(task[t].claim)' /\ replies'[task'[t].claim] = 0
  BY <1>3 DEF AcmeInv, OneAnswers, AcmeCalm, Waits
<1>5. \A i \in OrderId : replies'[i] > 0 => replies'[i] = 1 /\ ~Waits(i)'
  <2> SUFFICES ASSUME NEW i \in OrderId, replies[i] > 0
               PROVE  replies[i] = 1 /\ ~Waits(i)'
    OBVIOUS
  <2>1. i \in 1..placed /\ replies[i] = 1 /\ ~Waits(i)
    BY <1>1 DEF AcmeInv, OrderNumbers, OneAnswers, OrderId
  <2> QED  BY <2>1 DEF AcmeCalm
<1>6. \A t, u \in Slot : Answering(t)' /\ Answering(u)' /\ task'[t].claim = task'[u].claim => t = u
  BY DEF AcmeInv, OneAnswers, AcmeCalm
<1> QED  BY <1>2, <1>4, <1>5, <1>6 DEF OneAnswers

(* A claim: a task sets out to answer, and no order waits any more.        *)
LEMMA ClaimKeeps ==
  ASSUME AcmeInv, NEW t \in Slot, NEW i \in OrderId, Waits(i), i <= placed,
         task[t].kind # "none",
         task' = [task EXCEPT ![t].kind = "answer", ![t].claim = i, ![t].at = "sends"],
         Write(i, "processing_challenge"), UNCHANGED <<placed, replies>>
  PROVE  /\ OrderNumbers' /\ OneAnswers'
         /\ task' \in [Slot -> TaskRecord] /\ order' \in OrderRecord
<1>0. task \in [Slot -> TaskRecord] /\ placed \in 0..MaxOrders /\ replies \in [OrderId -> Nat]
  BY DEF AcmeInv, AcmeTypeOK, TaskRecord
<1>1. order' \in OrderRecord /\ order'.id = i /\ \A j : ~Waits(j)'
  BY StatusValues, OrderWritten DEF Waits, Write
<1>2. task' \in [Slot -> TaskRecord]
  <2> DEFINE sends == [task[t] EXCEPT !.kind = "answer", !.claim = i, !.at = "sends"]
  <2>1. task[t] \in TaskRecord /\ task' = [task EXCEPT ![t] = sends]
    BY <1>0
  <2>2. sends \in TaskRecord
    BY <2>1 DEF TaskRecord
  <2> HIDE DEF sends
  <2> QED  BY <1>0, <2>1, <2>2
<1>3. /\ task'[t].kind = "answer" /\ task'[t].claim = i /\ task'[t].id = task[t].id
      /\ \A u \in Slot : u # t => task'[u] = task[u]
  BY <1>0 DEF TaskRecord
<1>4. OrderNumbers'
  <2>1. \A u \in Slot : task'[u].kind # "none" => task'[u].id \in 1..placed
    BY <1>3 DEF AcmeInv, OrderNumbers
  <2>2. \A u \in Slot : Answering(u)' => task'[u].claim \in 1..placed
    BY <1>0, <1>3, AcmeAssumption DEF AcmeInv, OrderNumbers, Answering, OrderId
  <2>3. order'.id \in 1..placed
    BY <1>0, <1>1, AcmeAssumption DEF OrderId
  <2> QED  BY <2>1, <2>2, <2>3 DEF AcmeInv, OrderNumbers
<1>5. \A u \in Slot : Answering(u) => task[u].claim # i
  BY DEF AcmeInv, OneAnswers, Waits
<1>6. replies[i] = 0
  BY <1>0 DEF AcmeInv, OneAnswers, Waits
<1>7. OneAnswers'
  BY <1>0, <1>1, <1>3, <1>5, <1>6 DEF AcmeInv, OneAnswers, Answering
<1> QED  BY <1>1, <1>2, <1>4, <1>7

LEMMA AcmeStep == AcmeInv /\ [AcmeNext]_acmeVars => AcmeInv'
<1> SUFFICES ASSUME AcmeInv, [AcmeNext]_acmeVars PROVE AcmeInv'
  OBVIOUS
<1>0. /\ task \in [Slot -> TaskRecord] /\ order \in OrderRecord
      /\ placed \in 0..MaxOrders /\ registered \in Slot \cup {NoTask}
      /\ order # NoOrder => order.id \in 1..placed /\ order.id \in OrderId
      /\ \A t \in Slot : task[t].kind # "none" => task[t].id \in 1..placed /\ task[t].id \in OrderId
  BY AcmeAssumption DEF AcmeInv, AcmeTypeOK, OrderNumbers, TaskRecord, OrderRecord, OrderId
<1>w. \A i : order.status = "waiting_challenge" => order # NoOrder
  BY DEF NoOrder
<1>1. ASSUME NEW c \in BOOLEAN, SetConsent(c) PROVE AcmeInv'
  <2>1. AcmeCalm
    BY <1>0, <1>1, AcmeAssumption, StatusValues DEF SetConsent, Write, TaskRecord, OrderRecord, Waits, Answering, Idle, NoOrder, AcmeCalm, others, external, OrderId
  <2>2. AcmeTypeOK'
    BY <1>1, <2>1, AcmeAssumption DEF AcmeInv, AcmeTypeOK, AcmeCalm, TaskRecord, OrderRecord, SetConsent, others, external, OrderId, Starter
  <2>3. UNCHANGED replies
    BY <1>1 DEF SetConsent, others
  <2> QED  BY <2>1, <2>2, <2>3, AcmeCalmKeeps DEF AcmeInv
<1>2. ASSUME NEW s \in Starter, Begin(s) PROVE AcmeInv'
  <2>1. AcmeCalm
    BY <1>0, <1>2, AcmeAssumption, StatusValues DEF Begin, Write, TaskRecord, OrderRecord, Waits, Answering, Idle, NoOrder, AcmeCalm, others, external, OrderId
  <2>2. AcmeTypeOK'
    BY <1>2, <2>1, AcmeAssumption DEF AcmeInv, AcmeTypeOK, AcmeCalm, TaskRecord, OrderRecord, Begin, others, external, OrderId, Starter
  <2>3. UNCHANGED replies
    BY <1>2 DEF Begin, others
  <2> QED  BY <2>1, <2>2, <2>3, AcmeCalmKeeps DEF AcmeInv
<1>3. ASSUME NEW s \in Starter, PlaceFails(s) PROVE AcmeInv'
  <2>1. AcmeCalm
    BY <1>0, <1>3, AcmeAssumption, StatusValues DEF PlaceFails, Write, TaskRecord, OrderRecord, Waits, Answering, Idle, NoOrder, AcmeCalm, others, external, OrderId
  <2>2. AcmeTypeOK'
    BY <1>3, <2>1, AcmeAssumption DEF AcmeInv, AcmeTypeOK, AcmeCalm, TaskRecord, OrderRecord, PlaceFails, others, external, OrderId, Starter
  <2>3. UNCHANGED replies
    BY <1>3 DEF PlaceFails, others
  <2> QED  BY <2>1, <2>2, <2>3, AcmeCalmKeeps DEF AcmeInv
<1>4. ASSUME ClearOrder PROVE AcmeInv'
  <2>1. AcmeCalm
    BY <1>0, <1>4, AcmeAssumption, StatusValues, CancelledTasks DEF ClearOrder, Dying, Write, TaskRecord, OrderRecord, Waits, Answering, Idle, NoOrder, AcmeCalm, others, external, OrderId
  <2>2. AcmeTypeOK'
    BY <1>4, <2>1, AcmeAssumption DEF AcmeInv, AcmeTypeOK, AcmeCalm, TaskRecord, OrderRecord, ClearOrder, others, external, OrderId, Starter
  <2>3. UNCHANGED replies
    BY <1>4 DEF ClearOrder, others
  <2> QED  BY <2>1, <2>2, <2>3, AcmeCalmKeeps DEF AcmeInv
<1>5. ASSUME NEW i \in OrderId, Authority(i) PROVE AcmeInv'
  <2>1. AcmeCalm
    BY <1>0, <1>5, AcmeAssumption, StatusValues DEF Authority, Write, TaskRecord, OrderRecord, Waits, Answering, Idle, NoOrder, AcmeCalm, others, external, OrderId
  <2>2. AcmeTypeOK'
    <3>1. ca' \in [OrderId -> {"none", "pending", "checking", "ready", "invalid", "valid"}]
      BY <1>5 DEF Authority, AcmeInv, AcmeTypeOK
    <3>2. mailbox' \in [OrderId -> 0..MaxOrders]
      BY <1>0, <1>5 DEF Authority, AcmeInv, AcmeTypeOK
    <3>3. UNCHANGED <<order, task, registered, start, placed, solved, replies, consent, signing, acmeStops>>
      BY <1>5 DEF Authority
    <3> QED  BY <3>1, <3>2, <3>3 DEF AcmeInv, AcmeTypeOK
  <2>3. UNCHANGED replies
    BY <1>5 DEF Authority, others
  <2> QED  BY <2>1, <2>2, <2>3, AcmeCalmKeeps DEF AcmeInv
<1>6. ASSUME NEW t \in Slot, PollAgain(t) PROVE AcmeInv'
  <2>0. /\ order.id \in OrderId /\ order.id \in 1..placed /\ task' = [task EXCEPT ![t] = Poll(order.id)]
        /\ UNCHANGED <<placed, order>>
    BY <1>0, <1>w, <1>6 DEF PollAgain, others, external
  <2>a. /\ task' \in [Slot -> TaskRecord]
        /\ \A u \in Slot : /\ task'[u].kind # "none" => task'[u].id \in 1..placed
                           /\ Answering(u)' => Answering(u) /\ task'[u].claim = task[u].claim
    BY <1>0, <2>0, TaskStarts, StartRecords
  <2>1. AcmeCalm
    BY <1>0, <2>0, <2>a DEF AcmeCalm, Waits
  <2>2. AcmeTypeOK'
    BY <1>6, <2>1, AcmeAssumption DEF AcmeInv, AcmeTypeOK, AcmeCalm, TaskRecord, OrderRecord, PollAgain, Poll, others, external, OrderId, Starter
  <2>3. UNCHANGED replies
    BY <1>6 DEF PollAgain, Poll, others
  <2> QED  BY <2>1, <2>2, <2>3, AcmeCalmKeeps DEF AcmeInv
<1>7. ASSUME NEW t \in Slot, TaskDone(t) PROVE AcmeInv'
  <2>1. AcmeCalm
    BY <1>0, <1>7, AcmeAssumption, StatusValues DEF TaskDone, Write, TaskRecord, OrderRecord, Waits, Answering, Idle, NoOrder, AcmeCalm, others, external, OrderId
  <2>2. AcmeTypeOK'
    BY <1>7, <2>1, AcmeAssumption DEF AcmeInv, AcmeTypeOK, AcmeCalm, TaskRecord, OrderRecord, TaskDone, others, external, OrderId, Starter
  <2>3. UNCHANGED replies
    BY <1>7 DEF TaskDone, others
  <2> QED  BY <2>1, <2>2, <2>3, AcmeCalmKeeps DEF AcmeInv
<1>8. ASSUME NEW t \in Slot, PollWakes(t) PROVE AcmeInv'
  <2>0. UNCHANGED <<placed, replies>>
    BY <1>8 DEF PollWakes, others, external
  <2>a. TasksCalm
    BY <1>0, <1>8, TaskGoes DEF PollWakes
  <2>b. /\ order' \in OrderRecord
        /\ order' # NoOrder => order'.id \in 1..placed
        /\ \A i : Waits(i)' => Waits(i)
    BY <1>0, <1>w, <1>8, StatusValues, OrderWritten DEF PollWakes, Waits, Write
  <2>1. AcmeCalm
    BY <1>0, <2>0, <2>a, <2>b DEF AcmeCalm, TasksCalm
  <2>2. AcmeTypeOK'
    BY <1>8, <2>1, AcmeAssumption DEF AcmeInv, AcmeTypeOK, AcmeCalm, TaskRecord, OrderRecord, PollWakes, Ends, Goes, others, external, OrderId, Starter
  <2>3. UNCHANGED replies
    BY <1>8 DEF PollWakes, Ends, Goes, others
  <2> QED  BY <2>1, <2>2, <2>3, AcmeCalmKeeps DEF AcmeInv
<1>9. ASSUME NEW t \in Slot, PollTimesOut(t) PROVE AcmeInv'
  <2>0. UNCHANGED <<placed, replies>>
    BY <1>9 DEF PollTimesOut, others, external
  <2>a. TasksCalm
    BY <1>0, <1>9, TaskGoes DEF PollTimesOut
  <2>b. /\ order' \in OrderRecord
        /\ order' # NoOrder => order'.id \in 1..placed
        /\ \A i : Waits(i)' => Waits(i)
    BY <1>0, <1>w, <1>9, StatusValues, OrderWritten DEF PollTimesOut, Waits, Write
  <2>1. AcmeCalm
    BY <1>0, <2>0, <2>a, <2>b DEF AcmeCalm, TasksCalm
  <2>2. AcmeTypeOK'
    BY <1>9, <2>1, AcmeAssumption DEF AcmeInv, AcmeTypeOK, AcmeCalm, TaskRecord, OrderRecord, PollTimesOut, Ends, others, external, OrderId, Starter
  <2>3. UNCHANGED replies
    BY <1>9 DEF PollTimesOut, Ends, others
  <2> QED  BY <2>1, <2>2, <2>3, AcmeCalmKeeps DEF AcmeInv
<1>10. ASSUME NEW t \in Slot, Intercept(t) PROVE AcmeInv'
  <2>0. /\ order.id \in OrderId /\ order.id \in 1..placed /\ UNCHANGED <<placed, order>>
        /\ \E m \in {0} \cup OrderId : task' = [Cancelled(t) EXCEPT ![t] = Found(order.id, m)]
    <3>1. PICK m \in OrderId :
            task' = [Cancelled(t) EXCEPT ![t] = Found(order.id, IF m = order.id THEN m ELSE 0)]
      BY <1>10 DEF Intercept
    <3>2. (IF m = order.id THEN m ELSE 0) \in {0} \cup OrderId
      OBVIOUS
    <3> QED  BY <1>0, <1>w, <1>10, <3>1, <3>2 DEF Intercept, IsPending, others, external
  <2>a. /\ task' \in [Slot -> TaskRecord]
        /\ \A u \in Slot : /\ task'[u].kind # "none" => task'[u].id \in 1..placed
                           /\ Answering(u)' => Answering(u) /\ task'[u].claim = task[u].claim
    <3>1. PICK m \in {0} \cup OrderId : task' = [Cancelled(t) EXCEPT ![t] = Found(order.id, m)]
      BY <2>0
    <3>2. /\ Cancelled(t) \in [Slot -> TaskRecord]
          /\ \A u \in Slot : Cancelled(t)[u] \in {task[u], Dying}
      BY <1>0, CancelledTasks
    <3>3. /\ Found(order.id, m) \in TaskRecord /\ Found(order.id, m).kind # "answer"
          /\ Found(order.id, m).id = order.id
      BY <2>0, StartRecords
    <3> DEFINE new == Found(order.id, m)
    <3>4. task' = [Cancelled(t) EXCEPT ![t] = new] /\ new \in TaskRecord /\ new.kind # "answer"
      BY <3>1, <3>3
    <3>5. new.id \in 1..placed
      BY <2>0, <3>3
    <3> HIDE DEF new
    <3>6. /\ task' \in [Slot -> TaskRecord]
          /\ \A u \in Slot :
               /\ task'[u].kind # "none" => \/ task[u].kind # "none" /\ task'[u].id = task[u].id
                                            \/ task'[u].id = new.id
               /\ Answering(u)' => Answering(u) /\ task'[u].claim = task[u].claim
      BY <1>0, <3>2, <3>4, TaskStarts
    <3> QED  BY <1>0, <3>5, <3>6
  <2>1. AcmeCalm
    BY <1>0, <2>0, <2>a DEF AcmeCalm, Waits
  <2>2. AcmeTypeOK'
    BY <1>10, <2>1, AcmeAssumption DEF AcmeInv, AcmeTypeOK, AcmeCalm, TaskRecord, OrderRecord, Intercept, others, external, OrderId, Starter
  <2>3. UNCHANGED replies
    BY <1>10 DEF Intercept, others
  <2> QED  BY <2>1, <2>2, <2>3, AcmeCalmKeeps DEF AcmeInv
<1>11. ASSUME NEW t \in Slot, AnswerFails(t) PROVE AcmeInv'
  <2>0. UNCHANGED placed /\ task[t].id \in OrderId /\ task[t].id \in 1..placed
    BY <1>0, <1>11 DEF AnswerFails, others, external
  <2>a. TasksCalm
    BY <1>0, <1>11, TaskGoes DEF AnswerFails
  <2>b. order' \in OrderRecord /\ order'.id = task[t].id /\ \A i : ~Waits(i)'
    BY <1>11, <2>0, StatusValues, OrderWritten DEF AnswerFails, Waits, Write
  <2>1. AcmeCalm
    BY <1>0, <2>0, <2>a, <2>b DEF AcmeCalm, TasksCalm
  <2>2. AcmeTypeOK'
    BY <1>11, <2>1, AcmeAssumption DEF AcmeInv, AcmeTypeOK, AcmeCalm, TaskRecord, OrderRecord, AnswerFails, Ends, others, external, OrderId, Starter
  <2>3. UNCHANGED replies
    BY <1>11 DEF AnswerFails, Ends, others
  <2> QED  BY <2>1, <2>2, <2>3, AcmeCalmKeeps DEF AcmeInv
<1>12. ASSUME NEW t \in Slot, Trigger(t) PROVE AcmeInv'
  <2>0. UNCHANGED <<placed, replies>>
    BY <1>12 DEF Trigger, others, external
  <2>a. TasksCalm
    BY <1>0, <1>12, TaskGoes DEF Trigger
  <2>b. /\ order' \in OrderRecord
        /\ order' # NoOrder => order'.id \in 1..placed
        /\ \A i : Waits(i)' => Waits(i)
    BY <1>0, <1>w, <1>12, StatusValues, OrderWritten DEF Trigger, Waits, Write
  <2>1. AcmeCalm
    BY <1>0, <2>0, <2>a, <2>b DEF AcmeCalm, TasksCalm
  <2>2. AcmeTypeOK'
    BY <1>12, <2>1, AcmeAssumption DEF AcmeInv, AcmeTypeOK, AcmeCalm, TaskRecord, OrderRecord, Trigger, Goes, others, external, OrderId, Starter
  <2>3. UNCHANGED replies
    BY <1>12 DEF Trigger, Goes, others
  <2> QED  BY <2>1, <2>2, <2>3, AcmeCalmKeeps DEF AcmeInv
<1>13. ASSUME NEW t \in Slot, FinalizeOrder(t) PROVE AcmeInv'
  <2>0. UNCHANGED <<placed, replies>>
    BY <1>13 DEF FinalizeOrder, others, external
  <2>a. TasksCalm
    BY <1>0, <1>13, TaskGoes DEF FinalizeOrder
  <2>b. /\ order' \in OrderRecord
        /\ order' # NoOrder => order'.id \in 1..placed
        /\ \A i : Waits(i)' => Waits(i)
    BY <1>0, <1>w, <1>13, StatusValues, OrderWritten DEF FinalizeOrder, Waits, Write
  <2>1. AcmeCalm
    BY <1>0, <2>0, <2>a, <2>b DEF AcmeCalm, TasksCalm
  <2>2. AcmeTypeOK'
    BY <1>13, <2>1, AcmeAssumption DEF AcmeInv, AcmeTypeOK, AcmeCalm, TaskRecord, OrderRecord, FinalizeOrder, Goes, others, external, OrderId, Starter
  <2>3. UNCHANGED replies
    BY <1>13 DEF FinalizeOrder, Goes, others
  <2> QED  BY <2>1, <2>2, <2>3, AcmeCalmKeeps DEF AcmeInv
<1>14. ASSUME NEW t \in Slot, CompletionFails(t) PROVE AcmeInv'
  <2>0. UNCHANGED <<placed, replies>>
    BY <1>14 DEF CompletionFails, others, external
  <2>a. TasksCalm
    BY <1>0, <1>14, TaskGoes DEF CompletionFails
  <2>b. /\ order' \in OrderRecord
        /\ order' # NoOrder => order'.id \in 1..placed
        /\ \A i : Waits(i)' => Waits(i)
    BY <1>0, <1>w, <1>14, StatusValues, OrderWritten DEF CompletionFails, Waits, Write
  <2>1. AcmeCalm
    BY <1>0, <2>0, <2>a, <2>b DEF AcmeCalm, TasksCalm
  <2>2. AcmeTypeOK'
    BY <1>14, <2>1, AcmeAssumption DEF AcmeInv, AcmeTypeOK, AcmeCalm, TaskRecord, OrderRecord, CompletionFails, Ends, others, external, OrderId, Starter
  <2>3. UNCHANGED replies
    BY <1>14 DEF CompletionFails, Ends, others
  <2> QED  BY <2>1, <2>2, <2>3, AcmeCalmKeeps DEF AcmeInv
<1>15. ASSUME NEW t \in Slot, Install(t) PROVE AcmeInv'
  <2>1. AcmeCalm
    BY <1>0, <1>15, AcmeAssumption, StatusValues, CancelledTasks DEF Install, Dying, Write, TaskRecord, OrderRecord, Waits, Answering, Idle, NoOrder, AcmeCalm, others, external, OrderId
  <2>2. AcmeTypeOK'
    BY <1>15, <2>1, AcmeAssumption DEF AcmeInv, AcmeTypeOK, AcmeCalm, TaskRecord, OrderRecord, Install, others, external, OrderId, Starter
  <2>3. UNCHANGED replies
    BY <1>15 DEF Install, others
  <2> QED  BY <2>1, <2>2, <2>3, AcmeCalmKeeps DEF AcmeInv
<1>16. ASSUME NEW t \in Slot, AcmeRestart(t) PROVE AcmeInv'
  <2>0. UNCHANGED <<placed, order>>
    BY <1>16 DEF AcmeRestart, external
  <2>a. \E new \in TaskRecord : /\ new.kind # "answer" /\ (new.kind # "none" => new.id \in 1..placed)
                                /\ task' = [u \in Slot |-> IF u = t THEN new ELSE Idle]
    <3>1. order.status \in {"waiting_challenge", "validating"} => order # NoOrder
      BY DEF NoOrder
    <3> DEFINE new == CASE order.status = "waiting_challenge" -> Poll(order.id)
                        [] order.status = "validating" -> Completion(order.id, "validating")
                        [] OTHER -> Idle
    <3>2. new \in TaskRecord /\ new.kind # "answer" /\ (new.kind # "none" => new.id \in 1..placed)
      <4>1. CASE order.status = "waiting_challenge"
        BY <1>0, <3>1, <4>1, StartRecords
      <4>2. CASE order.status = "validating"
        BY <1>0, <3>1, <4>2, StartRecords
      <4>3. CASE order.status \notin {"waiting_challenge", "validating"}
        BY <4>3 DEF TaskRecord, Idle
      <4> QED  BY <4>1, <4>2, <4>3
    <3>3. task' = [u \in Slot |-> IF u = t THEN new ELSE Idle]
      BY <1>16 DEF AcmeRestart
    <3> QED  BY <3>2, <3>3
  <2>b. Idle \in TaskRecord /\ Idle.kind = "none"
    BY DEF Idle, TaskRecord
  <2>1. AcmeCalm
    <3>1. PICK new \in TaskRecord : /\ new.kind # "answer" /\ (new.kind # "none" => new.id \in 1..placed)
                                    /\ task' = [u \in Slot |-> IF u = t THEN new ELSE Idle]
      BY <2>a
    <3>2. \A u \in Slot : task'[u] = new \/ task'[u] = Idle
      BY <3>1
    <3>3. task' \in [Slot -> TaskRecord]
      BY <2>b, <3>1
    <3> QED  BY <1>0, <2>0, <2>b, <3>1, <3>2, <3>3 DEF AcmeCalm, Waits, Answering
  <2>2. AcmeTypeOK'
    BY <1>16, <2>1, AcmeAssumption DEF AcmeInv, AcmeTypeOK, AcmeCalm, TaskRecord, OrderRecord, AcmeRestart, Poll, others, external, OrderId, Starter
  <2>3. UNCHANGED replies
    BY <1>16 DEF AcmeRestart, Poll, others
  <2> QED  BY <2>1, <2>2, <2>3, AcmeCalmKeeps DEF AcmeInv
<1>17. ASSUME NEW s \in Starter, NEW t \in Slot, PlaceOrder(s, t) PROVE AcmeInv'
  <2>0. placed' = placed + 1 /\ placed' \in 1..MaxOrders /\ placed' \in OrderId
    BY <1>0, <1>17, AcmeAssumption DEF PlaceOrder, OrderId
  <2>b. /\ task' \in [Slot -> TaskRecord]
        /\ \A u \in Slot : /\ task'[u].kind # "none" => task'[u].id \in 1..placed'
                           /\ Answering(u)' => Answering(u) /\ task'[u].claim = task[u].claim
    <3> DEFINE new == IF s = "renewal" THEN Dying ELSE Poll(placed')
    <3>1. /\ Cancelled(t) \in [Slot -> TaskRecord]
          /\ \A u \in Slot : Cancelled(t)[u] \in {task[u], Dying}
      BY <1>0, CancelledTasks
    <3>2. new \in TaskRecord /\ new.kind # "answer" /\ (new.kind # "none" => new.id = placed')
      BY <2>0, StartRecords
    <3>3. task' = [Cancelled(t) EXCEPT ![t] = new]
      BY <1>17 DEF PlaceOrder
    <3> HIDE DEF new
    <3>4. task'[t] = new /\ \A u \in Slot : u # t => task'[u] \in {task[u], Dying}
      BY <3>1, <3>3
    <3>5. /\ task' \in [Slot -> TaskRecord]
          /\ \A u \in Slot : Answering(u)' => Answering(u) /\ task'[u].claim = task[u].claim
      BY <1>0, <3>1, <3>2, <3>3, TaskStarts
    <3>6. Dying.kind = "none"
      BY DEF Dying, Idle
    <3> QED  BY <1>0, <2>0, <3>2, <3>4, <3>5, <3>6
  <2>c. /\ order' \in OrderRecord /\ order'.id = placed'
        /\ \A i \in 1..placed : ~Waits(i)'
    BY <1>0, <2>0, <1>17, StatusValues, OrderWritten DEF PlaceOrder, Waits, Write
  <2>1. AcmeCalm
    BY <1>0, <2>0, <2>b, <2>c DEF AcmeCalm
  <2>2. AcmeTypeOK'
    BY <1>17, <2>1, AcmeAssumption DEF AcmeInv, AcmeTypeOK, AcmeCalm, TaskRecord, OrderRecord, PlaceOrder, Poll, others, external, OrderId, Starter
  <2>3. UNCHANGED replies
    BY <1>17 DEF PlaceOrder, Poll, others
  <2> QED  BY <2>1, <2>2, <2>3, AcmeCalmKeeps DEF AcmeInv
<1>21. ASSUME NEW t \in Slot, PollReads(t) PROVE AcmeInv'
  <2>0. UNCHANGED <<placed, replies, order>> /\ task[t].kind = "poll"
    BY <1>21 DEF PollReads, others, external
  <2>a. TasksCalm \/ \E i \in 1..placed, m \in OrderId : task' = [task EXCEPT ![t] = Found(i, m)]
    <3>1. CASE Goes(t, "sleep") \/ Ends(t)
      BY <1>0, <3>1, TaskGoes
    <3>2. CASE \E m \in OrderId : IsPending /\ task' = [task EXCEPT ![t] = Found(order.id, m)]
      BY <1>0, <1>w, <3>2 DEF IsPending
    <3> QED  BY <1>21, <3>1, <3>2 DEF PollReads
  <2>1. AcmeCalm
    <3>1. CASE TasksCalm
      BY <1>0, <2>0, <3>1 DEF AcmeCalm, TasksCalm, Waits
    <3>2. CASE \E i \in 1..placed, m \in OrderId : task' = [task EXCEPT ![t] = Found(i, m)]
      <4>1. PICK i \in 1..placed, m \in OrderId : task' = [task EXCEPT ![t] = Found(i, m)]
        BY <3>2
      <4>2. i \in OrderId /\ m \in {0} \cup OrderId
        BY <1>0, AcmeAssumption DEF OrderId
      <4>3. Found(i, m) \in TaskRecord /\ Found(i, m).kind # "answer" /\ Found(i, m).id = i
        BY <4>2, StartRecords
      <4>4. /\ task' \in [Slot -> TaskRecord]
            /\ \A u \in Slot : /\ task'[u].kind # "none" => task'[u].id \in 1..placed
                               /\ Answering(u)' => Answering(u) /\ task'[u].claim = task[u].claim
        BY <1>0, <4>1, <4>3, TaskStarts
      <4> QED  BY <1>0, <2>0, <4>4 DEF AcmeCalm, Waits
    <3> QED  BY <2>a, <3>1, <3>2
  <2>2. AcmeTypeOK'
    BY <1>21, <2>1, AcmeAssumption DEF AcmeInv, AcmeTypeOK, AcmeCalm, TaskRecord, OrderRecord, PollReads, others, external, OrderId, Starter
  <2> QED  BY <2>0, <2>1, <2>2, AcmeCalmKeeps DEF AcmeInv
<1>22. ASSUME NEW t \in Slot, Claims(t) PROVE AcmeInv'
  <2>0. UNCHANGED <<placed, replies>> /\ task[t].kind = "found"
    BY <1>22 DEF Claims, others, external
  <2>1. CASE /\ Claim /\ Write(order.id, "processing_challenge")
             /\ task' = [task EXCEPT ![t].kind = "answer", ![t].claim = order.id, ![t].at = "sends"]
    <3>1. Waits(order.id) /\ order.id \in OrderId /\ order.id <= placed
      BY <1>0, <1>w, <2>1 DEF Claim, Waits, OrderRecord, NoOrder
    <3>2. OrderNumbers' /\ OneAnswers' /\ task' \in [Slot -> TaskRecord] /\ order' \in OrderRecord
      BY <2>0, <2>1, <3>1, ClaimKeeps
    <3> QED  BY <1>22, <3>2 DEF Claims, others, external, AcmeInv, AcmeTypeOK, TaskRecord, OrderRecord
  <2>2. CASE Ends(t) /\ (UNCHANGED order \/ Write(task[t].id, "error"))
    <3>1. TasksCalm
      BY <1>0, <2>2, TaskGoes
    <3>2. /\ order' \in OrderRecord
          /\ order' # NoOrder => order'.id \in 1..placed
          /\ \A j : Waits(j)' => Waits(j)
      BY <1>0, <2>0, <2>2, StatusValues, OrderWritten DEF Waits, Write
    <3>3. AcmeCalm
      BY <1>0, <2>0, <3>1, <3>2 DEF AcmeCalm, TasksCalm
    <3>4. AcmeTypeOK'
      BY <1>22, <3>3 DEF Claims, AcmeCalm, others, external, AcmeInv, AcmeTypeOK, TaskRecord, OrderRecord
    <3> QED  BY <2>0, <3>3, <3>4, AcmeCalmKeeps DEF AcmeInv
  <2> QED  BY <1>22, <2>1, <2>2 DEF Claims
<1>23. ASSUME NEW t \in Slot, NEW u \in Slot, AnswerSent(t, u) PROVE AcmeInv'
  <2> DEFINE i == task[t].id
             c == task[t].claim
             T == Cancelled(u)
             new == Completion(i, "replied")
  <2>0. /\ UNCHANGED placed /\ i \in OrderId /\ i \in 1..placed /\ c \in OrderId /\ c \in 1..placed
        /\ Answering(t) /\ replies[c] = 0 /\ replies \in [OrderId -> Nat]
        /\ replies' = [replies EXCEPT ![c] = 1]
    <3>1. Answering(t) /\ UNCHANGED placed /\ task[t].kind # "none"
      BY <1>23 DEF AnswerSent, Answering
    <3>2. i \in OrderId /\ i \in 1..placed
      BY <1>0, <3>1
    <3>3. c \in 1..placed /\ c \in OrderId
      BY <1>0, <3>1, AcmeAssumption DEF AcmeInv, OrderNumbers, OrderId
    <3>4. replies[c] = 0 /\ replies \in [OrderId -> Nat]
      BY <3>1 DEF AcmeInv, AcmeTypeOK, OneAnswers
    <3> QED  BY <1>23, <3>1, <3>2, <3>3, <3>4 DEF AnswerSent
  <2>1. T \in [Slot -> TaskRecord] /\ \A v \in Slot : T[v] \in {task[v], Dying}
    BY <1>0, CancelledTasks
  <2>2. task' = [T EXCEPT ![t] = Dying, ![u] = new]
    BY <1>23 DEF AnswerSent
  <2> HIDE DEF T
  <2>3. Dying \in TaskRecord /\ new \in TaskRecord
    BY <2>0 DEF TaskRecord, Dying, Completion, Idle
  <2>4. /\ task' \in [Slot -> TaskRecord] /\ task'[u] = new
        /\ \A v \in Slot \ {u} : task'[v] = Dying \/ (v # t /\ task'[v] = task[v])
    BY <2>1, <2>2, <2>3
  <2>5. /\ new.kind = "complete" /\ new.id = i /\ Dying.kind = "none"
    BY DEF Dying, Completion, Idle
  <2>6. /\ \A v \in Slot : task'[v].kind # "none" => task'[v].id \in 1..placed
        /\ \A v \in Slot : Answering(v)' => Answering(v) /\ v # t /\ task'[v].claim = task[v].claim
    BY <1>0, <2>0, <2>4, <2>5 DEF Answering
  <2>7. order' \in OrderRecord /\ order'.id = i /\ \A j : ~Waits(j)'
    BY <1>23, <2>0, StatusValues, OrderWritten DEF AnswerSent, Waits, Write
  <2>8. OrderNumbers'
    BY <2>0, <2>6, <2>7 DEF AcmeInv, OrderNumbers, OrderId
  <2>9. \A v \in Slot : Answering(v)' => task[v].claim # c
    BY <2>0, <2>6 DEF AcmeInv, OneAnswers
  <2>10. OneAnswers'
    BY <2>0, <2>6, <2>7, <2>9 DEF AcmeInv, OrderNumbers, OneAnswers
  <2>11. AcmeTypeOK'
    BY <1>23, <2>0, <2>4, <2>7 DEF AnswerSent, AcmeInv, AcmeTypeOK, TaskRecord, OrderRecord
  <2> QED  BY <2>8, <2>10, <2>11 DEF AcmeInv
<1>24. CASE UNCHANGED acmeVars
  BY <1>24 DEF acmeVars, AcmeInv, AcmeTypeOK, OrderNumbers, OneAnswers, Waits, Answering
<1> QED  BY <1>1, <1>2, <1>3, <1>4, <1>5, <1>6, <1>7, <1>8, <1>9, <1>10, <1>11, <1>12, <1>13,
            <1>14, <1>15, <1>16, <1>17, <1>21, <1>22, <1>23, <1>24 DEF AcmeNext, AcmeTask

THEOREM AcmeCorrect == AcmeSpec => []AcmeInv
<1>1. AcmeInit => AcmeInv
  BY AcmeAssumption DEF AcmeInit, AcmeInv, AcmeTypeOK, OrderNumbers, OneAnswers, Waits, Answering, NoOrder, Idle, OrderId
<1> QED  BY <1>1, AcmeStep, PTL DEF AcmeSpec

-----------------------------------------------------------------------------
(* HubOrders                                                               *)

AtHub == {"none", "waiting", "confirmed", "issued", "rejected"}
RoundRecord == [stage : {"rest", "confirm", "poll"}, left : SUBSET HubOrder,
          at : HubOrder \cup {NoHubOrder}, answer : AtHub]
HubTypes == HubTypeOK /\ round \in [Poller -> RoundRecord]

(* A poller has an answer only for the order it asks about, and "rejected"  *)
(* is the last word: who has heard it may drop the order's files.          *)
AnswersHold ==
  \A p \in Poller : /\ round[p].answer # "none" => round[p].at # NoHubOrder
                    /\ round[p].answer = "rejected" => hubTable[round[p].at] = "rejected"

(* An open link is one that has not ordered yet.                           *)
LinksLeft ==
  \A m \in HubMailbox : /\ yeses[m] <= asks[m]
                        /\ m \in links => yeses[m] < asks[m]

HubInv == HubTypes /\ KeyKept /\ AnswersHold /\ LinksLeft

LEMMA PassedIsRecord ==
  ASSUME NEW p \in Poller, round[p] \in RoundRecord
  PROVE  Passed(p) \in RoundRecord
  BY DEF Passed, RoundRecord, AtHub, NoHubOrder

LEMMA HubStep == HubInv /\ [HubNext]_hubVars => HubInv'
<1> SUFFICES ASSUME HubInv, [HubNext]_hubVars PROVE HubInv'
  OBVIOUS
<1> USE DEF HubInv, HubTypes, HubTypeOK, KeyKept, AnswersHold, LinksLeft, Pending, AtHub, RoundRecord, Resting, NoHubOrder,
           consentVars, orderVars, quietRound
<1>1. ASSUME NEW m \in HubMailbox, AskOwner(m)
      PROVE  HubInv'
  <2>1. HubTypes'
    BY <1>1, HubAssumption DEF AskOwner, Opened
  <2>2. KeyKept'
    BY <1>1 DEF AskOwner, Opened
  <2>3. AnswersHold'
    BY <1>1 DEF AskOwner, Opened
  <2>4. LinksLeft'
    BY <1>1 DEF AskOwner, Opened
  <2> QED  BY <2>1, <2>2, <2>3, <2>4 DEF HubInv
<1>2. ASSUME NEW m \in HubMailbox, ReadLink(m)
      PROVE  HubInv'
  BY <1>2 DEF ReadLink
<1>3. ASSUME NEW m \in HubMailbox, SayYes(m)
      PROVE  HubInv'
  BY <1>3 DEF SayYes, Redeemed, Spent, SendOrder
<1>4. ASSUME NEW m \in HubMailbox, SayNo(m)
      PROVE  HubInv'
  BY <1>4 DEF SayNo, Spent
<1>5. ASSUME NEW m \in HubMailbox, LinkExpires(m)
      PROVE  HubInv'
  BY <1>5 DEF LinkExpires
<1>6. ASSUME NEW m \in HubMailbox, GrantConsent(m)
      PROVE  HubInv'
  BY <1>6 DEF GrantConsent, Spent
<1>7. ASSUME NEW m \in HubMailbox, RevokeConsent(m)
      PROVE  HubInv'
  BY <1>7 DEF RevokeConsent
<1>8. ASSUME NEW m \in HubMailbox, Renew(m)
      PROVE  HubInv'
  BY <1>8 DEF Renew, SendOrder
<1>9. ASSUME NEW o \in HubOrder, HubTakes(o)
      PROVE  HubInv'
  BY <1>9 DEF HubTakes
<1>10. ASSUME NEW o \in HubOrder, HubRefuses(o)
      PROVE  HubInv'
  BY <1>10 DEF HubRefuses
<1>11. ASSUME NEW o \in HubOrder, ImportAtOnce(o)
      PROVE  HubInv'
  BY <1>11 DEF ImportAtOnce
<1>12. ASSUME NEW o \in HubOrder, SaveFirst(o)
      PROVE  HubInv'
  BY <1>12 DEF SaveFirst
<1>13. ASSUME NEW o \in HubOrder, SaveSecond(o)
      PROVE  HubInv'
  BY <1>13 DEF SaveSecond
<1>14. ASSUME NEW o \in HubOrder, HubMoves(o)
      PROVE  HubInv'
  <2>1. HubTypes'
    BY <1>14 DEF HubMoves, Moves
  <2>2. KeyKept'
    BY <1>14 DEF HubMoves, Moves
  <2>3. AnswersHold'
    BY <1>14 DEF HubMoves, Moves
  <2>4. LinksLeft'
    BY <1>14 DEF HubMoves, Moves
  <2> QED  BY <2>1, <2>2, <2>3, <2>4 DEF HubInv
<1>15. ASSUME NEW p \in Poller, BeginRound(p)
      PROVE  HubInv'
  BY <1>15 DEF BeginRound, SetRound
<1>16. ASSUME NEW p \in Poller, NextPhase(p)
      PROVE  HubInv'
  <2>0. PICK r \in RoundRecord : /\ round' = [round EXCEPT ![p] = r]
                           /\ r.at = NoHubOrder /\ r.answer = "none"
    <3>1. Resting \in RoundRecord /\ [Resting EXCEPT !.left = Pending, !.stage = "poll"] \in RoundRecord
      OBVIOUS
    <3>2. \/ round' = [round EXCEPT ![p] = Resting]
          \/ round' = [round EXCEPT ![p] = [Resting EXCEPT !.left = Pending, !.stage = "poll"]]
      BY <1>16 DEF NextPhase, SetRound
    <3> QED  BY <3>1, <3>2
  <2>1. HubTypes'
    BY <1>16, <2>0 DEF NextPhase
  <2>2. KeyKept'
    BY <1>16 DEF NextPhase, SetRound
  <2>3. AnswersHold'
    BY <1>16, <2>0 DEF NextPhase
  <2>4. LinksLeft'
    BY <1>16 DEF NextPhase, SetRound
  <2> QED  BY <2>1, <2>2, <2>3, <2>4 DEF HubInv
<1>17. ASSUME NEW p \in Poller, HubAnswers(p)
      PROVE  HubInv'
  BY <1>17 DEF HubAnswers, SetRound
<1>18. ASSUME NEW p \in Poller, PassOver(p)
      PROVE  HubInv'
  <2>1. HubTypes'
    <3>1. round' \in [Poller -> RoundRecord]
      BY <1>18, PassedIsRecord DEF PassOver, SetRound
    <3> QED  BY <1>18, <3>1 DEF PassOver, SetRound
  <2>2. KeyKept'
    BY <1>18 DEF PassOver, Passed, SetRound
  <2>3. AnswersHold'
    BY <1>18 DEF PassOver, Passed, SetRound
  <2>4. LinksLeft'
    BY <1>18 DEF PassOver, Passed, SetRound
  <2> QED  BY <2>1, <2>2, <2>3, <2>4 DEF HubInv
<1>19. ASSUME NEW p \in Poller, PressLink(p)
      PROVE  HubInv'
  <2>1. HubTypes'
    <3>1. round' \in [Poller -> RoundRecord]
      BY <1>19, PassedIsRecord DEF PressLink, SetRound
    <3> QED  BY <1>19, <3>1 DEF PressLink, SetRound
  <2>2. KeyKept'
    BY <1>19 DEF PressLink, Passed, SetRound
  <2>3. AnswersHold'
    BY <1>19 DEF PressLink, Passed, SetRound
  <2>4. LinksLeft'
    BY <1>19 DEF PressLink, Passed, SetRound
  <2> QED  BY <2>1, <2>2, <2>3, <2>4 DEF HubInv
<1>20. ASSUME NEW p \in Poller, Collect(p)
      PROVE  HubInv'
  <2>1. HubTypes'
    <3>1. round' \in [Poller -> RoundRecord]
      BY <1>20, PassedIsRecord DEF Collect, SetRound
    <3> QED  BY <1>20, <3>1 DEF Collect, Gone, SetRound
  <2>2. KeyKept'
    BY <1>20 DEF Collect, Gone, Passed, SetRound
  <2>3. AnswersHold'
    BY <1>20 DEF Collect, Gone, Passed, SetRound
  <2>4. LinksLeft'
    BY <1>20 DEF Collect, Gone, Passed, SetRound
  <2> QED  BY <2>1, <2>2, <2>3, <2>4 DEF HubInv
<1>21. ASSUME NEW p \in Poller, DropRejected(p)
      PROVE  HubInv'
  <2>1. HubTypes'
    <3>1. round' \in [Poller -> RoundRecord]
      BY <1>21, PassedIsRecord DEF DropRejected, SetRound
    <3> QED  BY <1>21, <3>1 DEF DropRejected, Gone, SetRound
  <2>2. KeyKept'
    BY <1>21 DEF DropRejected, Gone, Passed, SetRound
  <2>3. AnswersHold'
    BY <1>21 DEF DropRejected, Gone, Passed, SetRound
  <2>4. LinksLeft'
    BY <1>21 DEF DropRejected, Gone, Passed, SetRound
  <2> QED  BY <2>1, <2>2, <2>3, <2>4 DEF HubInv
<1>22. ASSUME NEW p \in Poller, NEW o \in HubOrder, TakeOrder(p, o)
      PROVE  HubInv'
  <2>1. HubTypes'
    <3>1. round[p] \in RoundRecord
      OBVIOUS
    <3>2. /\ [round[p] EXCEPT !.left = @ \ {o}] \in RoundRecord
          /\ [[round[p] EXCEPT !.left = @ \ {o}] EXCEPT !.at = o] \in RoundRecord
      BY <3>1
    <3>3. round' \in [Poller -> RoundRecord]
      BY <1>22, <3>2 DEF TakeOrder, SetRound
    <3> QED  BY <1>22, <3>3 DEF TakeOrder
  <2>2. KeyKept'
    BY <1>22 DEF TakeOrder, SetRound
  <2>3. AnswersHold'
    BY <1>22 DEF TakeOrder, SetRound
  <2>4. LinksLeft'
    BY <1>22 DEF TakeOrder, SetRound
  <2> QED  BY <2>1, <2>2, <2>3, <2>4 DEF HubInv
<1>23. CASE CrashHub
  <2>1. HubTypes'
    <3>1. Resting \in RoundRecord
      OBVIOUS
    <3>2. round' \in [Poller -> RoundRecord] /\ \A p \in Poller : round'[p] = Resting
      BY <1>23, <3>1 DEF CrashHub
    <3>3. ordering' \in [HubOrder -> {"no", "sent", "taken", "saving", "done"}]
      BY <1>23 DEF CrashHub
    <3> QED  BY <1>23, <3>2, <3>3, HubAssumption DEF CrashHub
  <2>2. KeyKept'
    BY <1>23 DEF CrashHub
  <2>3. AnswersHold'
    BY <1>23 DEF CrashHub
  <2>4. LinksLeft'
    BY <1>23 DEF CrashHub
  <2> QED  BY <2>1, <2>2, <2>3, <2>4 DEF HubInv
<1>24. CASE UNCHANGED hubVars
  BY <1>24 DEF hubVars
<1> QED  BY <1>1, <1>2, <1>3, <1>4, <1>5, <1>6, <1>7, <1>8, <1>9, <1>10, <1>11, <1>12, <1>13, <1>14, <1>15, <1>16, <1>17, <1>18, <1>19, <1>20, <1>21, <1>22, <1>23, <1>24 DEF HubNext

THEOREM HubCorrect == HubSpec => []HubInv
<1>1. HubInit => HubInv
  BY HubAssumption DEF HubInit, HubInv, HubTypes, HubTypeOK, KeyKept, AnswersHold, LinksLeft, Pending,
                       AtHub, RoundRecord, Resting, NoHubOrder
<1> QED  BY <1>1, HubStep, PTL DEF HubSpec

-----------------------------------------------------------------------------
(* BatchRun                                                                *)

Distinct(s) == \A i, j \in 1..Len(s) : s[i] = s[j] => i = j

BatchTypes ==
  /\ BatchTypeOK
  /\ run \in [status : {"none", "laeuft", "pausiert", "fertig", "abgebrochen"},
              open : Seq(BatchMailbox), done : SUBSET BatchMailbox, wish : BOOLEAN]
  /\ \A w \in StartSlot : worker[w].at = "order" => worker[w].mail \in BatchMailbox

(* One task at most works, and the mailbox it orders for is the head of    *)
(* the list of the run, which nobody else shortens.                        *)
OneWorks ==
  /\ \A v, w \in StartSlot : worker[v].at # "none" /\ worker[w].at # "none" => v = w
  /\ \A w \in StartSlot : worker[w].at = "order" =>
       /\ run.status = "laeuft" /\ run.open # <<>> /\ worker[w].mail = Head(run.open)
  /\ Distinct(run.open)

BatchInv == BatchTypes /\ NobodyDropped /\ (~overlapped => OneWorks)

(* What comes of taking the head off a list without repetition.            *)
LEMMA HeadTaken ==
  ASSUME NEW S, NEW s \in Seq(S), s # <<>>
  PROVE  /\ Tail(s) \in Seq(S) /\ Head(s) \in S /\ Head(s) \in Range(s)
         /\ Range(Tail(s)) \subseteq Range(s)
         /\ Distinct(s) => /\ Distinct(Tail(s))
                           /\ Range(Tail(s)) = Range(s) \ {Head(s)}
<1>1. /\ Tail(s) \in Seq(S) /\ Head(s) \in S /\ Len(Tail(s)) = Len(s) - 1
      /\ Len(s) \in Nat \ {0} /\ Head(s) = s[1]
      /\ \A i \in 1..Len(Tail(s)) : Tail(s)[i] = s[i + 1]
  BY HeadTailProperties, EmptySeq
<1>2. Range(s) = {s[i] : i \in 1..Len(s)} /\ Range(Tail(s)) = {Tail(s)[i] : i \in 1..Len(Tail(s))}
  BY <1>1, RangeEquality
<1>3. Head(s) \in Range(s)
  BY <1>1, <1>2
<1>4. Range(Tail(s)) \subseteq Range(s)
  BY <1>1, <1>2
<1>5. ASSUME Distinct(s)
      PROVE  Distinct(Tail(s)) /\ Range(Tail(s)) = Range(s) \ {Head(s)}
  <2>1. Distinct(Tail(s))
    BY <1>1, <1>5 DEF Distinct
  <2>2. Head(s) \notin Range(Tail(s))
    BY <1>1, <1>2, <1>5 DEF Distinct
  <2>3. ASSUME NEW x \in Range(s), x # Head(s) PROVE x \in Range(Tail(s))
    <3>1. PICK i \in 1..Len(s) : s[i] = x
      BY <1>2, <2>3
    <3>2. i - 1 \in 1..Len(Tail(s)) /\ Tail(s)[i - 1] = x
      BY <1>1, <2>3, <3>1
    <3> QED  BY <1>2, <3>2
  <2> QED  BY <1>4, <2>1, <2>2, <2>3
<1> QED  BY <1>1, <1>3, <1>4, <1>5

(* A set written down as a list: everybody once.                           *)
LEMMA SetAsList ==
  ASSUME NEW S, IsFiniteSet(S)
  PROVE  SetToSeq(S) \in Seq(S) /\ Range(SetToSeq(S)) = S /\ Distinct(SetToSeq(S))
<1> DEFINE n == Cardinality(S)
           s == SetToSeq(S)
<1>1. n \in Nat /\ ExistsBijection(1..n, S)
  BY FS_CardinalityType
<1>2. \E f \in [1..n -> S] : IsInjective(f)
  BY <1>1 DEF ExistsBijection, Bijection, Injection
<1>3. s \in [1..n -> S] /\ IsInjective(s)
  BY <1>2 DEF SetToSeq
<1>4. s \in Injection(1..n, S)
  BY <1>3 DEF Injection
<1>5. Cardinality(1..n) = n
  BY <1>1, FS_Interval
<1>6. s \in Surjection(1..n, S)
  BY <1>4, <1>5, FS_Injection
<1>7. s \in Seq(S) /\ Len(s) = n
  BY <1>1, <1>3, SeqDef
<1>8. Range(s) = S
  BY <1>3, <1>6 DEF Range, Surjection
<1>9. Distinct(s)
  BY <1>3, <1>7 DEF Distinct, IsInjective
<1> QED  BY <1>7, <1>8, <1>9

WorkerRecord == [at : {"none", "loop", "order"}, mail : BatchMailbox \cup {"none"}]
RunRecord == [status : {"none", "laeuft", "pausiert", "fertig", "abgebrochen"},
        open : Seq(BatchMailbox), done : SUBSET BatchMailbox, wish : BOOLEAN]

(* A task enters the result of a mailbox, which is the head of the list as *)
(* long as it works alone.                                                 *)
LEMMA BookOrderKeeps ==
  ASSUME BatchInv, NEW w \in StartSlot, NEW m \in BatchMailbox,
         worker[w].at # "none", Book(w, m),
         ~overlapped /\ run.open # <<>> => m = Head(run.open) /\ run.status = "laeuft",
         UNCHANGED <<asking, selected, owned, automatic, overlapped, topUps>>,
         funds' \in 0..MaxFunds
  PROVE  BatchInv'
<1> USE DEF BatchInv, BatchTypes
<1>0. run \in RunRecord /\ worker \in [StartSlot -> WorkerRecord] /\ Idler \in WorkerRecord
      /\ [Idler EXCEPT !.at = "loop"] \in WorkerRecord
  BY DEF RunRecord, WorkerRecord, BatchTypeOK, Idler
<1>1. CASE run.open = <<>>
  <2>1. worker' = [worker EXCEPT ![w] = Idler] /\ UNCHANGED run
    BY <1>1 DEF Book, Finished
  <2> QED  BY <1>0, <2>1 DEF BatchTypeOK, NobodyDropped, OneWorks, Idler
<1>2. CASE run.open # <<>>
  <2>1. /\ run' = [run EXCEPT !.open = Tail(@), !.done = @ \cup {m}]
        /\ worker' = [worker EXCEPT ![w] = [Idler EXCEPT !.at = "loop"]]
    BY <1>2 DEF Book, BackToLoop
  <2>2. /\ run'.status = run.status /\ run'.wish = run.wish
        /\ run'.open = Tail(run.open) /\ run'.done = run.done \cup {m}
    BY <1>0, <2>1 DEF RunRecord
  <2>3. /\ Tail(run.open) \in Seq(BatchMailbox) /\ Head(run.open) \in Range(run.open)
        /\ Range(Tail(run.open)) \subseteq Range(run.open)
        /\ Distinct(run.open) => /\ Distinct(Tail(run.open))
                                 /\ Range(Tail(run.open)) = Range(run.open) \ {Head(run.open)}
    BY <1>0, <1>2, HeadTaken DEF RunRecord
  <2>4. run' \in RunRecord
    BY <1>0, <2>1, <2>3 DEF RunRecord
  <2>5. /\ worker' \in [StartSlot -> WorkerRecord]
        /\ \A v \in StartSlot : worker'[v].at = "order" => worker[v].at = "order" /\ worker'[v] = worker[v] /\ v # w
        /\ \A v \in StartSlot : worker'[v].at # "none" => worker[v].at # "none"
    BY <1>0, <2>1 DEF Idler
  <2>6. run.status # "fertig"
    BY <1>2 DEF BatchTypeOK
  <2>7. BatchTypes'
    BY <2>2, <2>3, <2>4, <2>5, <2>6 DEF BatchTypeOK, RunRecord, WorkerRecord
  <2>8. NobodyDropped' /\ (~overlapped' => OneWorks')
    <3> SUFFICES ASSUME ~overlapped PROVE NobodyDropped' /\ OneWorks'
      BY DEF NobodyDropped
    <3>1. m = Head(run.open) /\ OneWorks
      BY <1>2
    <3>2. NobodyDropped'
      BY <2>2, <2>3, <3>1 DEF NobodyDropped, OneWorks
    <3>3. \A v \in StartSlot : worker'[v].at # "order"
      BY <2>5, <3>1 DEF OneWorks
    <3> QED  BY <2>2, <2>3, <2>5, <3>1, <3>2, <3>3 DEF OneWorks
  <2> QED  BY <2>7, <2>8
<1> QED  BY <1>1, <1>2

LEMMA BatchStep == BatchInv /\ [BatchNext]_batchVars => BatchInv'
<1> SUFFICES ASSUME BatchInv, [BatchNext]_batchVars PROVE BatchInv'
  OBVIOUS
<1> USE BatchAssumption DEF BatchInv, BatchTypes, BatchTypeOK, NobodyDropped, OneWorks, Active, Idler, NoRun, workUnchanged
<1>1. ASSUME NEW s \in StartSlot, NEW ms \in SUBSET BatchMailbox, AskStart(s, ms)
      PROVE  BatchInv'
  BY <1>1 DEF AskStart, Orderable
<1>2. ASSUME NEW s \in StartSlot, Launch(s)
      PROVE  BatchInv'
  <2> DEFINE ms == asking[s]
             q == SetToSeq(ms)
  <2>1. ms \subseteq BatchMailbox /\ IsFiniteSet(ms)
    BY FS_Subset
  <2>2. q \in Seq(ms) /\ Range(q) = ms /\ Distinct(q)
    BY <2>1, SetAsList
  <2>3. q \in Seq(BatchMailbox)
    BY <2>1, <2>2, SeqMonotonic
  <2>4. /\ run' = [NoRun EXCEPT !.status = "laeuft", !.open = q]
        /\ selected' = ms /\ overlapped' = (Working # {})
        /\ worker' = [worker EXCEPT ![s] = [Idler EXCEPT !.at = "loop"]]
        /\ asking' = [asking EXCEPT ![s] = {}]
        /\ UNCHANGED <<owned, funds, automatic, topUps>>
    BY <1>2 DEF Launch, SpawnedBy
  <2> HIDE DEF q, ms
  <2>5. run'.status = "laeuft" /\ run'.open = q /\ run'.done = {} /\ run'.wish = FALSE /\ run' \in RunRecord
    BY <2>3, <2>4 DEF RunRecord
  <2>6. /\ worker' \in [StartSlot -> WorkerRecord]
        /\ worker'[s].at = "loop"
        /\ \A v \in StartSlot : v # s => worker'[v] = worker[v]
    BY <2>4 DEF WorkerRecord
  <2>7. BatchTypes'
    BY <2>1, <2>2, <2>3, <2>4, <2>5, <2>6 DEF RunRecord, WorkerRecord
  <2>8. NobodyDropped'
    BY <2>2, <2>4, <2>5
  <2>9. ASSUME ~overlapped' PROVE OneWorks'
    <3>1. \A v \in StartSlot : worker[v].at = "none"
      BY <2>4, <2>9 DEF Working
    <3> QED  BY <2>2, <2>5, <2>6, <3>1
  <2> QED  BY <2>7, <2>8, <2>9
<1>3. ASSUME NEW s \in StartSlot, Decline(s)
      PROVE  BatchInv'
  BY <1>3 DEF Decline
<1>4. ASSUME NEW s \in StartSlot, Resume(s)
      PROVE  BatchInv'
  BY <1>4 DEF Resume, SpawnedBy, Working
<1>5. ASSUME NEW s \in StartSlot, EndLoop(s)
      PROVE  BatchInv'
  BY <1>5 DEF EndLoop, AllTried, Finished
<1>6. ASSUME NEW s \in StartSlot, SkipServed(s)
      PROVE  BatchInv'
  <2>1. /\ Head(run.open) \in BatchMailbox /\ worker[s].at # "none" /\ run.status = "laeuft"
        /\ Book(s, Head(run.open)) /\ funds' \in 0..MaxFunds
    BY <1>6, HeadTaken DEF SkipServed, HeadReady
  <2>2. UNCHANGED <<asking, selected, owned, automatic, overlapped, topUps>>
    BY <1>6 DEF SkipServed
  <2> QED  BY <2>1, <2>2, BookOrderKeeps
<1>7. ASSUME NEW s \in StartSlot, OrderHead(s)
      PROVE  BatchInv'
  BY <1>7, HeadTaken DEF OrderHead, HeadReady
<1>8. ASSUME NEW s \in StartSlot, OrderTaken(s)
      PROVE  BatchInv'
  <2>1. /\ worker[s].mail \in BatchMailbox /\ worker[s].at # "none"
        /\ Book(s, worker[s].mail) /\ funds' \in 0..MaxFunds
        /\ ~overlapped => run.status = "laeuft" /\ worker[s].mail = Head(run.open)
    BY <1>8 DEF OrderTaken
  <2>2. UNCHANGED <<asking, selected, owned, automatic, overlapped, topUps>>
    BY <1>8 DEF OrderTaken
  <2> QED  BY <2>1, <2>2, BookOrderKeeps
<1>9. ASSUME NEW s \in StartSlot, OrderFailed(s)
      PROVE  BatchInv'
  <2>1. /\ worker[s].mail \in BatchMailbox /\ worker[s].at # "none"
        /\ Book(s, worker[s].mail) /\ funds' \in 0..MaxFunds
        /\ ~overlapped => run.status = "laeuft" /\ worker[s].mail = Head(run.open)
    BY <1>9 DEF OrderFailed
  <2>2. UNCHANGED <<asking, selected, owned, automatic, overlapped, topUps>>
    BY <1>9 DEF OrderFailed
  <2> QED  BY <2>1, <2>2, BookOrderKeeps
<1>10. ASSUME NEW s \in StartSlot, Pause(s)
      PROVE  BatchInv'
  BY <1>10 DEF Pause, Finished
<1>11. CASE CancelRun
  BY <1>11 DEF CancelRun
<1>12. CASE TopUp
  BY <1>12 DEF TopUp
<1>13. CASE RestartBatch
  <2>1. /\ run'.status = "none" /\ run'.open = <<>> /\ run'.done = {} /\ run' \in RunRecord
        /\ worker' \in [StartSlot -> WorkerRecord] /\ \A v \in StartSlot : worker'[v].at = "none"
        /\ Range(run'.open) = {} /\ Distinct(run'.open)
    BY <1>13 DEF RestartBatch, RunRecord, WorkerRecord, Range, Distinct
  <2> QED  BY <1>13, <2>1 DEF RestartBatch, RunRecord, WorkerRecord
<1>14. ASSUME NEW m \in BatchMailbox, CertificateArrives(m)
      PROVE  BatchInv'
  BY <1>14 DEF CertificateArrives
<1>15. CASE UNCHANGED batchVars
  BY <1>15 DEF batchVars
<1> QED  BY <1>1, <1>2, <1>3, <1>4, <1>5, <1>6, <1>7, <1>8, <1>9, <1>10, <1>11, <1>12, <1>13, <1>14, <1>15 DEF BatchNext, Work

THEOREM BatchCorrect == BatchInit /\ [][BatchNext]_batchVars => []BatchInv
<1>1. BatchInit => BatchInv
  <2> SUFFICES ASSUME BatchInit PROVE BatchInv
    OBVIOUS
  <2>1. /\ run.status = "none" /\ run.open = <<>> /\ run.done = {} /\ run \in RunRecord
        /\ worker \in [StartSlot -> WorkerRecord] /\ \A v \in StartSlot : worker[v].at = "none"
        /\ Range(run.open) = {} /\ Distinct(run.open)
    BY DEF BatchInit, NoRun, Idler, RunRecord, WorkerRecord, Range, Distinct
  <2>2. BatchTypeOK
    <3>1. /\ worker \in [StartSlot -> [at : {"none", "loop", "order"}, mail : BatchMailbox \cup {"none"}]]
          /\ run.done \subseteq BatchMailbox /\ Range(run.open) \subseteq BatchMailbox
      BY <2>1 DEF WorkerRecord
    <3>2. /\ asking \in [StartSlot -> SUBSET BatchMailbox] /\ selected \subseteq BatchMailbox
          /\ owned \subseteq BatchMailbox
      BY DEF BatchInit
    <3>3. funds \in 0..MaxFunds /\ topUps \in 0..MaxTopUps
      BY BatchAssumption DEF BatchInit
    <3>4. automatic \in BOOLEAN /\ overlapped \in BOOLEAN
      BY DEF BatchInit
    <3> QED  BY <2>1, <3>1, <3>2, <3>3, <3>4 DEF BatchTypeOK
  <2> QED  BY <2>1, <2>2 DEF BatchInit, RunRecord, BatchInv, BatchTypes, NobodyDropped, OneWorks
<1> QED  BY <1>1, BatchStep, PTL

-----------------------------------------------------------------------------
(* RecipientCerts                                                          *)

(* What an issuer's own list in a cache does not name was not revoked      *)
(* before the day it is of, and no such list is of a day to come; both if  *)
(* the issuer names the day of the next one.                               *)
ListTells(i, list) ==
  list.own /\ "next" \in names[i] =>
    /\ list.until <= clock + ListLife
    /\ \A c \in PartnerCert :
         issuerOf[c] = i /\ c \notin list.revoked => list.until <= revokedAt[c] + ListLife

ListsTell == \A i \in Issuer : ListTells(i, inMemory[i]) /\ ListTells(i, inFile[i])

CertInv ==
  /\ CertTypeOK /\ ListsTell
  /\ encrypted.at <= clock /\ RevocationBites /\ NothingVanishes

LEMMA ServedTells ==
  ASSUME CertInv, NEW i \in Issuer, NEW list \in Served(i)
  PROVE  ListTells(i, list) /\ list \in Lists
<1>0. /\ clock \in 1..MaxClock /\ revokedAt \in [PartnerCert -> 1..Never]
      /\ ListLife \in Nat \ {0} /\ MaxClock \in Nat \ {0}
  BY CertAssumption DEF CertInv, CertTypeOK
<1>1. CASE list \in {[revoked |-> {c \in PartnerCert : issuerOf[c] = i /\ revokedAt[c] <= day},
                      until |-> IF "next" \in names[i] THEN day + ListLife ELSE Forever,
                      own |-> TRUE] : day \in 1..clock}
  <2>0. PICK day \in 1..clock :
          list = [revoked |-> {c \in PartnerCert : issuerOf[c] = i /\ revokedAt[c] <= day},
                  until |-> IF "next" \in names[i] THEN day + ListLife ELSE Forever,
                  own |-> TRUE]
    BY <1>1
  <2>1. /\ list.revoked = {c \in PartnerCert : issuerOf[c] = i /\ revokedAt[c] <= day}
        /\ list.until = IF "next" \in names[i] THEN day + ListLife ELSE Forever
    BY <2>0
  <2>2. list \in Lists
    <3>1. list.until \in 0..Forever
      BY <1>0, <2>1 DEF Forever, Never
    <3>2. list.revoked \in SUBSET PartnerCert
      BY <2>1
    <3> QED  BY <2>0, <2>1, <3>1, <3>2 DEF Lists
  <2>3. ListTells(i, list)
    BY <1>0, <2>1 DEF ListTells, Never
  <2> QED  BY <2>2, <2>3
<1>2. CASE list = [revoked |-> {}, until |-> clock + ListLife, own |-> FALSE]
  BY <1>0, <1>2 DEF ListTells, Lists, Never, Forever
<1> QED  BY <1>1, <1>2 DEF Served

LEMMA LookupTells ==
  ASSUME CertInv, NEW i \in Issuer, NEW list \in {inMemory[i], inFile[i]} \cup Served(i),
         Lookup(i, list), UNCHANGED <<clock, issuerOf, names, revokedAt>>
  PROVE  /\ ListsTell' /\ ListTells(i, list) /\ Fresh(list)
         /\ inMemory' \in [Issuer -> Lists] /\ inFile' \in [Issuer -> Lists]
<1>1. NoList \in Lists /\ \A j \in Issuer : ListTells(j, NoList)
  BY CertAssumption DEF CertInv, CertTypeOK, Lists, ListTells, NoList, Never, Forever
<1>2. list \in Lists /\ ListTells(i, list)
  BY ServedTells DEF CertInv, CertTypeOK, ListsTell
<1>3. Fresh(list)
  BY DEF Lookup, FromMemory, FromFile
<1>4. inMemory \in [Issuer -> Lists] /\ inFile \in [Issuer -> Lists]
  BY DEF CertInv, CertTypeOK
<1>5. /\ inFile' \in [Issuer -> Lists] /\ inMemory' \in [Issuer -> Lists]
      /\ \A j \in Issuer : inMemory'[j] \in {inMemory[j], NoList} \/ (j = i /\ inMemory'[j] = list)
      /\ \A j \in Issuer : inFile'[j] = inFile[j] \/ (j = i /\ inFile'[j] = list)
  BY <1>1, <1>2, <1>4 DEF Lookup, Remembered
<1>6. \A j \in Issuer : ListTells(j, inMemory'[j]) /\ ListTells(j, inFile'[j])
  BY <1>1, <1>2, <1>5 DEF CertInv, ListsTell
<1>7. ListsTell'
  BY <1>6 DEF ListsTell, ListTells
<1> QED  BY <1>2, <1>3, <1>5, <1>7

LEMMA CertStep == CertInv /\ [CertNext]_certVars => CertInv'
<1> SUFFICES ASSUME CertInv, [CertNext]_certVars PROVE CertInv'
  OBVIOUS
<1> USE CertAssumption DEF CertInv, CertTypeOK, ListsTell, ListTells, RevocationBites, NothingVanishes, NoPartnerCert, trustVars, stockVars, listVars
<1>1. ASSUME NEW c \in PartnerCert, Harvest(c)
      PROVE  CertInv'
  BY <1>1 DEF Harvest, Keep, Wait
<1>2. ASSUME NEW c \in PartnerCert, ReleaseCert(c)
      PROVE  CertInv'
  BY <1>2 DEF ReleaseCert, Free, Keep
<1>3. ASSUME NEW c \in PartnerCert, DismissCert(c)
      PROVE  CertInv'
  BY <1>3 DEF DismissCert
<1>4. ASSUME NEW c \in PartnerCert, RevokeCert(c)
      PROVE  CertInv'
  BY <1>4 DEF RevokeCert, Never
<1>5. ASSUME NEW x \in PartnerCert \cup Issuer, TakeBack(x)
      PROVE  CertInv'
  BY <1>5 DEF TakeBack
<1>6. ASSUME NEW rs \in SUBSET Issuer, RefreshRoots(rs)
      PROVE  CertInv'
  BY <1>6 DEF RefreshRoots
<1>7. ASSUME NEW i \in Issuer, Warm(i)
      PROVE  CertInv'
  BY <1>7, LookupTells DEF Warm
<1>8. ASSUME NEW c \in PartnerCert, HarvestRaw(c)
      PROVE  CertInv'
  BY <1>8 DEF HarvestRaw, Keep
<1>9. CASE DeleteStock
  BY <1>9 DEF DeleteStock
<1>10. CASE Encrypt
  <2> DEFINE i == issuerOf[stock]
  <2>1. stock \in PartnerCert /\ i \in Issuer
    BY <1>10 DEF Encrypt
  <2>2. /\ UNCHANGED <<clock, trustVars, stockVars, revokedAt>>
        /\ encrypted' = [cert |-> stock, at |-> clock]
    BY <1>10 DEF Encrypt
  <2>3. encrypted'.cert = stock /\ encrypted'.at = clock
        /\ encrypted' \in [cert : PartnerCert \cup {NoPartnerCert}, at : 0..MaxClock]
    BY <2>1, <2>2
  <2>4. CASE "list" \notin names[i] /\ UNCHANGED <<inMemory, inFile>>
    BY <2>2, <2>3, <2>4 DEF Names
  <2>5. CASE \E list \in {inMemory[i], inFile[i]} \cup Served(i) :
               Lookup(i, list) /\ Genuine(i, list) /\ stock \notin list.revoked
    <3>1. PICK list \in {inMemory[i], inFile[i]} \cup Served(i) :
            Lookup(i, list) /\ Genuine(i, list) /\ stock \notin list.revoked
      BY <2>5
    <3>2. /\ ListsTell' /\ ListTells(i, list) /\ Fresh(list)
          /\ inMemory' \in [Issuer -> Lists] /\ inFile' \in [Issuer -> Lists]
      BY <2>1, <2>2, <3>1, LookupTells
    <3>3. list \in Lists
      BY <2>1, <3>1, ServedTells
    <3>4. names[i] = Names => clock < revokedAt[stock] + ListLife
      BY <2>1, <3>1, <3>2, <3>3 DEF Fresh, Genuine, Names, Lists, Never, Forever
    <3> QED  BY <2>1, <2>2, <2>3, <3>2, <3>4
  <2> QED  BY <1>10, <2>4, <2>5 DEF Encrypt
<1>11. CASE CertTick
  <2>1. clock' = clock + 1 /\ clock' \in 1..MaxClock /\ clock <= clock'
    BY <1>11 DEF CertTick
  <2>2. UNCHANGED <<issuerOf, names, linked, roots, freed, autoKnown, autoUnknown, stock, waiting,
                    arrived, dismissed, used, revokedAt, inMemory, inFile, encrypted>>
    BY <1>11 DEF CertTick
  <2>3. ListsTell'
    BY <2>1, <2>2 DEF Lists, Forever, Never
  <2> QED  BY <2>1, <2>2, <2>3
<1>12. CASE RestartCerts
  BY <1>12 DEF RestartCerts, NoList, Lists, Forever, Never
<1>13. CASE UNCHANGED certVars
  BY <1>13 DEF certVars
<1> QED  BY <1>1, <1>2, <1>3, <1>4, <1>5, <1>6, <1>7, <1>8, <1>9, <1>10, <1>11, <1>12, <1>13 DEF CertNext

THEOREM CertCorrect == CertSpec => []CertInv
<1>1. CertInit => CertInv
  BY CertAssumption DEF CertInit, CertInv, CertTypeOK, ListsTell, ListTells, RevocationBites,
     NothingVanishes, NoPartnerCert, NoList, Lists, Never, Forever
<1> QED  BY <1>1, CertStep, PTL DEF CertSpec

-----------------------------------------------------------------------------
(* Routing                                                                 *)

(* As long as no two saves overlapped: one is under way at most, it has    *)
(* read what the settings say, and before it stored anything the file says *)
(* what they say.                                                          *)
SavesInTurn ==
  /\ ~serving => \A s \in Saver : saver[s] = NoSave
  /\ \A s \in Saver : saver[s].at = "idle" => saver[s] = NoSave
  /\ serving /\ ~overlap =>
       /\ \A s, o \in Saver : saver[s].at # "idle" /\ saver[o].at # "idle" => s = o
       /\ \A s \in Saver : saver[s].at = "read" => saver[s].read = directOn
       /\ (\A s \in Saver : saver[s].at \in {"idle", "tested"}) => postconf = directOn

NamesHold ==
  {dRoute[d] : d \in Domain} \cup {tRoute[t] : t \in Tenant} \cup {xRoute}
    \subseteq targets \cup {Direct, NoRoute}

RoutingInv == RoutingTypeOK /\ NamesHold /\ SavesInTurn /\ InternalStaysInside

LEMMA RoutesFromInv == RoutingInv => RoutesHold
  BY DEF RoutingInv, NamesHold, SavesInTurn, RoutesHold, NoSave

SaveRecord == [at : {"idle", "tested", "stored", "read"}, wish : BOOLEAN, read : BOOLEAN]

(* Whom the route for external recipients takes out is not of the tenant's *)
(* own domains.                                                            *)
LEMMA WhereTo ==
  ASSUME RoutingTypeOK, NEW r \in Rcpt
  PROVE  /\ ForRcpt(r)[1] \in Dest \cup {Exo} /\ ForRcpt(r)[2] \in {"domain", "extern"}
         /\ ForRcpt(r) = <<ForRcpt(r)[1], ForRcpt(r)[2]>>
         /\ ForRcpt(r)[1] # Exo /\ ForRcpt(r)[2] = "extern" => DomainOf[r] \notin Own
  BY RoutingAssumption DEF RoutingTypeOK, ForRcpt, ForExtern, Dest

LEMMA StopKeepsTypes ==
  ASSUME RoutingTypeOK, StopRouting
  PROVE  RoutingTypeOK'
<1>1. saver' \in [Saver -> SaveRecord]
  BY DEF StopRouting, NoSave, SaveRecord
<1>2. groups' \in [Rcpt -> {NoRoute} \cup (Dest \X {"domain", "extern"})]
  BY DEF StopRouting
<1>3. /\ targets' \subseteq Target /\ xRoute' \in Dest \cup {NoRoute} /\ onPrem' \subseteq Rcpt
      /\ dRoute' \in [Domain -> Dest \cup {NoRoute}] /\ tRoute' \in [Tenant -> Dest \cup {NoRoute}]
      /\ handed' \subseteq (Rcpt \cup Tenant) \X (Dest \cup {Exo}) \X {"domain", "extern", "tenant"}
  BY DEF StopRouting, RoutingTypeOK, routes
<1>4. /\ byRcpt' \in BOOLEAN /\ listKnown' \in BOOLEAN /\ directOn' \in BOOLEAN
      /\ postconf' \in BOOLEAN /\ serving' \in BOOLEAN /\ overlap' \in BOOLEAN
  BY DEF StopRouting, RoutingTypeOK
<1>5. routeChanges' \in 0..MaxRouteChanges
  BY RoutingAssumption DEF StopRouting, RouteChange, RoutingTypeOK
<1> QED  BY <1>1, <1>2, <1>3, <1>4, <1>5 DEF RoutingTypeOK, SaveRecord

LEMMA RoutingStep == RoutingInv /\ [RoutingNext]_routingVars => RoutingInv'
<1> SUFFICES ASSUME RoutingInv, [RoutingNext]_routingVars PROVE RoutingInv'
  OBVIOUS
<1> USE RoutingAssumption DEF RoutingInv, RoutingTypeOK, NamesHold, SavesInTurn, InternalStaysInside, Dest, NoSave, RouteChange, routes, routingLists, mta, mails
<1>1. ASSUME NEW z \in Target, SetTarget(z)
      PROVE  RoutingInv'
  BY <1>1 DEF SetTarget
<1>2. ASSUME NEW z \in Target, DeleteTarget(z)
      PROVE  RoutingInv'
  BY <1>2 DEF DeleteTarget
<1>3. ASSUME NEW d \in Domain, NEW z \in Dest \cup {NoRoute}, SetRoute(d, z)
      PROVE  RoutingInv'
  BY <1>3 DEF SetRoute, Selectable
<1>4. ASSUME NEW t \in Tenant, NEW z \in Dest \cup {NoRoute}, SetTenantRoute(t, z)
      PROVE  RoutingInv'
  BY <1>4 DEF SetTenantRoute, Selectable
<1>5. ASSUME NEW z \in Dest \cup {NoRoute}, SetExternRoute(z)
      PROVE  RoutingInv'
  BY <1>5 DEF SetExternRoute, Selectable
<1>6. CASE Refresh
  BY <1>6 DEF Refresh
<1>7. CASE StopRouting
  <2>0. saver' \in [Saver -> SaveRecord]
        /\ \A o \in Saver : saver'[o] = NoSave /\ saver'[o].at = "idle"
        /\ groups' \in [Rcpt -> {NoRoute} \cup (Dest \X {"domain", "extern"})]
    BY <1>7 DEF StopRouting, SaveRecord
  <2>1. RoutingTypeOK'
    BY <1>7, StopKeepsTypes
  <2>2. NamesHold'
    BY <1>7 DEF StopRouting, SaveRecord
  <2>3. SavesInTurn'
    BY <1>7, <2>0 DEF StopRouting
  <2>4. InternalStaysInside'
    BY <1>7 DEF StopRouting, SaveRecord
  <2> QED  BY <2>1, <2>2, <2>3, <2>4 DEF RoutingInv
<1>8. CASE StartRouting
  <2>1. RoutingTypeOK'
    BY <1>8 DEF StartRouting
  <2>2. NamesHold'
    BY <1>8 DEF StartRouting
  <2>3. SavesInTurn'
    BY <1>8 DEF StartRouting
  <2>4. InternalStaysInside'
    BY <1>8 DEF StartRouting
  <2> QED  BY <2>1, <2>2, <2>3, <2>4 DEF RoutingInv
<1>9. ASSUME NEW s \in Saver, NEW wish \in BOOLEAN, SaveBegin(s, wish)
      PROVE  RoutingInv'
  <2>0. /\ saver' \in [Saver -> SaveRecord]
        /\ saver'[s].at = "tested" /\ \A o \in Saver : o # s => saver'[o] = saver[o]
        /\ ~overlap' => ~overlap /\ \A o \in Saver : saver[o].at = "idle"
    <3>1. [NoSave EXCEPT !.at = "tested", !.wish = wish] \in SaveRecord
      BY DEF SaveRecord
    <3>2. saver' = [saver EXCEPT ![s] = [NoSave EXCEPT !.at = "tested", !.wish = wish]]
      BY <1>9 DEF SaveBegin
    <3>3. overlap' = (overlap \/ \E o \in Saver : saver[o] # NoSave)
      BY <1>9 DEF SaveBegin
    <3>4. ~overlap' => ~overlap /\ \A o \in Saver : saver[o] = NoSave
      BY <3>3, Zenon
    <3>5. ~overlap' => ~overlap /\ \A o \in Saver : saver[o].at = "idle"
      BY <3>4
    <3> QED  BY <3>1, <3>2, <3>5 DEF SaveRecord
  <2>1. RoutingTypeOK'
    BY <1>9, <2>0 DEF SaveBegin, SaveRecord
  <2>2. NamesHold'
    BY <1>9 DEF SaveBegin
  <2>3. SavesInTurn'
    BY <1>9, <2>0 DEF SaveBegin
  <2>4. InternalStaysInside'
    BY <1>9 DEF SaveBegin
  <2> QED  BY <2>1, <2>2, <2>3, <2>4 DEF RoutingInv
<1>10. ASSUME NEW s \in Saver, SaveUpdate(s)
      PROVE  RoutingInv'
  <2>0. /\ saver' \in [Saver -> SaveRecord]
        /\ saver[s].at = "tested" /\ saver'[s].at = "stored" /\ \A o \in Saver : o # s => saver'[o] = saver[o]
    BY <1>10 DEF SaveUpdate, SaveRecord
  <2>1. RoutingTypeOK'
    BY <1>10, <2>0 DEF SaveUpdate, SaveRecord
  <2>2. NamesHold'
    BY <1>10 DEF SaveUpdate
  <2>3. SavesInTurn'
    BY <1>10, <2>0 DEF SaveUpdate
  <2>4. InternalStaysInside'
    BY <1>10 DEF SaveUpdate
  <2> QED  BY <2>1, <2>2, <2>3, <2>4 DEF RoutingInv
<1>11. ASSUME NEW s \in Saver, SaveRead(s)
      PROVE  RoutingInv'
  <2>0. /\ saver' \in [Saver -> SaveRecord]
        /\ saver[s].at = "stored" /\ saver'[s].at = "read" /\ saver'[s].read = directOn
        /\ \A o \in Saver : o # s => saver'[o] = saver[o]
    <3>1. saver[s] \in SaveRecord
      BY DEF SaveRecord
    <3>2. saver' = [saver EXCEPT ![s] = [saver[s] EXCEPT !.at = "read", !.read = directOn]]
      BY <1>11 DEF SaveRead
    <3>3. [saver[s] EXCEPT !.at = "read", !.read = directOn] \in SaveRecord
      BY <3>1 DEF SaveRecord
    <3>4. saver[s].at = "stored"
      BY <1>11 DEF SaveRead
    <3>5. saver \in [Saver -> SaveRecord]
      BY DEF SaveRecord
    <3>6. saver' \in [Saver -> SaveRecord] /\ saver'[s] = [saver[s] EXCEPT !.at = "read", !.read = directOn]
          /\ \A o \in Saver : o # s => saver'[o] = saver[o]
      BY <3>2, <3>3, <3>5
    <3> QED  BY <3>1, <3>4, <3>6 DEF SaveRecord
  <2>1. RoutingTypeOK'
    BY <1>11, <2>0 DEF SaveRead, SaveRecord
  <2>2. NamesHold'
    BY <1>11 DEF SaveRead
  <2>3. SavesInTurn'
    BY <1>11, <2>0 DEF SaveRead
  <2>4. InternalStaysInside'
    BY <1>11 DEF SaveRead
  <2> QED  BY <2>1, <2>2, <2>3, <2>4 DEF RoutingInv
<1>12. ASSUME NEW s \in Saver, SaveWrite(s)
      PROVE  RoutingInv'
  <2>1. RoutingTypeOK'
    BY <1>12 DEF SaveWrite
  <2>2. NamesHold'
    BY <1>12 DEF SaveWrite
  <2>3. SavesInTurn'
    <3>1. /\ saver' = [saver EXCEPT ![s] = NoSave] /\ postconf' = saver[s].read
          /\ UNCHANGED <<serving, overlap, directOn>> /\ serving /\ saver[s].at = "read"
      BY <1>12 DEF SaveWrite
    <3>2. saver'[s] = NoSave /\ \A o \in Saver : o # s => saver'[o] = saver[o]
      BY <3>1 DEF RoutingTypeOK
    <3>3. ~overlap => saver[s].read = directOn /\ \A o \in Saver : o # s => saver[o].at = "idle"
      BY <3>1 DEF SavesInTurn
    <3> QED  BY <3>1, <3>2, <3>3 DEF SavesInTurn, NoSave
  <2>4. InternalStaysInside'
    BY <1>12 DEF SaveWrite
  <2> QED  BY <2>1, <2>2, <2>3, <2>4 DEF RoutingInv
<1>13. ASSUME NEW rs \in SUBSET Rcpt, Group(rs)
      PROVE  RoutingInv'
  BY <1>13, WhereTo DEF Group
<1>14. ASSUME NEW z \in Dest, HandOver(z)
      PROVE  RoutingInv'
  BY <1>14 DEF HandOver
<1>15. ASSUME NEW t \in Tenant, ForwardTenant(t)
      PROVE  RoutingInv'
  BY <1>15 DEF ForwardTenant, ForTenant, Valid
<1>16. CASE UNCHANGED routingVars
  BY <1>16 DEF routingVars
<1> HIDE DEF RoutingInv, RouteChange, NoSave
<1> QED  BY <1>1, <1>2, <1>3, <1>4, <1>5, <1>6, <1>7, <1>8, <1>9, <1>10, <1>11, <1>12, <1>13, <1>14, <1>15, <1>16 DEF RoutingNext, Save

THEOREM RoutingCorrect == RoutingSpec => []RoutingInv
<1>1. RoutingInit => RoutingInv
  <2> SUFFICES ASSUME RoutingInit PROVE RoutingInv
    OBVIOUS
  <2>1. RoutingTypeOK
    <3>1. saver \in [Saver -> SaveRecord]
      BY DEF RoutingInit, NoSave, SaveRecord
    <3>2. dRoute \in [Domain -> Dest \cup {NoRoute}] /\ tRoute \in [Tenant -> Dest \cup {NoRoute}]
          /\ groups \in [Rcpt -> {NoRoute} \cup (Dest \X {"domain", "extern"})]
      BY DEF RoutingInit
    <3>3. handed \subseteq (Rcpt \cup Tenant) \X (Dest \cup {Exo}) \X {"domain", "extern", "tenant"}
      BY DEF RoutingInit
    <3>4. /\ targets \subseteq Target /\ xRoute \in Dest \cup {NoRoute}
          /\ byRcpt \in BOOLEAN /\ onPrem \subseteq Rcpt /\ listKnown \in BOOLEAN
          /\ directOn \in BOOLEAN /\ postconf \in BOOLEAN /\ serving \in BOOLEAN
          /\ overlap \in BOOLEAN
      BY DEF RoutingInit
    <3>5. routeChanges \in 0..MaxRouteChanges
      BY RoutingAssumption DEF RoutingInit
    <3> QED  BY <3>1, <3>2, <3>3, <3>4, <3>5 DEF RoutingTypeOK, SaveRecord
  <2>2. NamesHold /\ InternalStaysInside
    BY RoutingAssumption DEF RoutingInit, NamesHold, InternalStaysInside
  <2>3. SavesInTurn
    BY DEF RoutingInit, SavesInTurn, NoSave
  <2> QED  BY <2>1, <2>2, <2>3 DEF RoutingInv
<1> QED  BY <1>1, RoutingStep, PTL DEF RoutingSpec

-----------------------------------------------------------------------------
(* RelayAccess                                                             *)

HostRecord == [extern : BOOLEAN, gesperrt : BOOLEAN, gelernt : BOOLEAN]
LinkRecord == [at : {"closed", "open", "source", "learn", "count", "taken", "relayed"},
               device : Device \cup {NoEntry}, ident : Identity \cup {NoEntry},
               outside : BOOLEAN, extern : BOOLEAN]

AccessSwitches == {relayOn, smarthost, knowsBoxes, rangesKnown, learnExtern} \subseteq BOOLEAN
AccessNumbers == learnUntil \in 0..(MaxTime + FarAway) /\ minute \in 0..MaxTime
                   /\ accessChanges \in 0..MaxAccessChanges
AccessTables ==
  /\ hosts \in [Device -> {NoEntry} \cup HostRecord]
  /\ counted \subseteq Device /\ refused \subseteq Device /\ disturbed \subseteq Link
  /\ ids \in [Identity -> {NoEntry} \cup [aktiv : BOOLEAN, extern : BOOLEAN]]
  /\ link \in [Link -> LinkRecord]
  /\ \A l \in Link : link[l].at # "closed" => link[l].device \in Device

Asking(l) == link[l].at \in {"source", "learn", "count"}

(* One session at a time is between the questions, and what it was told    *)
(* still holds unless somebody came between.                               *)
AnswersStand ==
  /\ \A l, k \in Link : Asking(l) /\ Asking(k) => l = k
  /\ \A l \in Link : Asking(l) /\ l \notin disturbed =>
       LET e == hosts[link[l].device] IN
       /\ relayOn
       /\ link[l].at = "source" /\ e # NoEntry => ~e.gesperrt
       /\ link[l].at = "learn" => smarthost /\ e = NoEntry
       /\ link[l].at = "count" =>
            smarthost /\ e # NoEntry /\ ~e.gesperrt /\ (link[l].outside => e.extern)

AccessInv == AccessSwitches /\ AccessNumbers /\ AccessTables /\ AnswersStand

LEMMA AccessStep == AccessInv /\ [AccessNext]_accessVars => AccessInv'
<1> SUFFICES ASSUME AccessInv, [AccessNext]_accessVars PROVE AccessInv'
  OBVIOUS
<1> USE AccessAssumption DEF AccessInv, Admin, settings, lists, devices
<1>1. CASE SaveAccessSettings
  <2>1. AccessSwitches'
    BY <1>1 DEF SaveAccessSettings, AccessSwitches
  <2>2. AccessNumbers'
    BY <1>1 DEF SaveAccessSettings, AccessNumbers
  <2>3. AccessTables'
    BY <1>1 DEF SaveAccessSettings, AccessTables, HostRecord, LinkRecord
  <2>4. AnswersStand'
    BY <1>1 DEF SaveAccessSettings, AnswersStand, Asking, AccessTables, HostRecord, LinkRecord
  <2> QED  BY <2>1, <2>2, <2>3, <2>4
<1>2. CASE StopLearning
  <2>1. AccessSwitches'
    BY <1>2 DEF StopLearning, AccessSwitches
  <2>2. AccessNumbers'
    BY <1>2 DEF StopLearning, AccessNumbers
  <2>3. AccessTables'
    BY <1>2 DEF StopLearning, AccessTables, HostRecord, LinkRecord
  <2>4. AnswersStand'
    BY <1>2 DEF StopLearning, AnswersStand, Asking, AccessTables, HostRecord, LinkRecord
  <2> QED  BY <2>1, <2>2, <2>3, <2>4
<1>3. CASE ClearRefused
  <2>1. AccessSwitches'
    BY <1>3 DEF ClearRefused, AccessSwitches
  <2>2. AccessNumbers'
    BY <1>3 DEF ClearRefused, AccessNumbers
  <2>3. AccessTables'
    BY <1>3 DEF ClearRefused, AccessTables, HostRecord, LinkRecord
  <2>4. AnswersStand'
    BY <1>3 DEF ClearRefused, AnswersStand, Asking, AccessTables, HostRecord, LinkRecord
  <2> QED  BY <2>1, <2>2, <2>3, <2>4
<1>4. CASE FillInNames
  <2>1. AccessSwitches'
    BY <1>4 DEF FillInNames, AccessSwitches
  <2>2. AccessNumbers'
    BY <1>4 DEF FillInNames, AccessNumbers
  <2>3. AccessTables'
    BY <1>4 DEF FillInNames, AccessTables, HostRecord, LinkRecord
  <2>4. AnswersStand'
    BY <1>4 DEF FillInNames, AnswersStand, Asking, AccessTables, HostRecord, LinkRecord
  <2> QED  BY <2>1, <2>2, <2>3, <2>4
<1>5. ASSUME NEW x \in BOOLEAN, NEW n \in {1, MaxLearn, FarAway}, StartLearning(n, x)
      PROVE  AccessInv'
  <2>1. AccessSwitches'
    BY <1>5 DEF StartLearning, AccessSwitches
  <2>2. AccessNumbers'
    BY <1>5 DEF StartLearning, AccessNumbers
  <2>3. AccessTables'
    BY <1>5 DEF StartLearning, AccessTables, HostRecord, LinkRecord
  <2>4. AnswersStand'
    BY <1>5 DEF StartLearning, AnswersStand, Asking, AccessTables, HostRecord, LinkRecord
  <2> QED  BY <2>1, <2>2, <2>3, <2>4
<1>6. ASSUME NEW d \in Device, RemoveDevice(d)
      PROVE  AccessInv'
  <2>1. AccessSwitches'
    BY <1>6 DEF RemoveDevice, Busy, AccessSwitches
  <2>2. AccessNumbers'
    BY <1>6 DEF RemoveDevice, Busy, AccessNumbers
  <2>3. AccessTables'
    BY <1>6 DEF RemoveDevice, Busy, AccessTables, HostRecord, LinkRecord
  <2>4. AnswersStand'
    BY <1>6 DEF RemoveDevice, Busy, AnswersStand, Asking, AccessTables, HostRecord, LinkRecord
  <2> QED  BY <2>1, <2>2, <2>3, <2>4
<1>7. ASSUME NEW d \in Device, NEW x \in BOOLEAN, NEW b \in BOOLEAN, SaveDevice(d, x, b)
      PROVE  AccessInv'
  <2>1. AccessSwitches'
    BY <1>7 DEF SaveDevice, Busy, Entry, AccessSwitches
  <2>2. AccessNumbers'
    BY <1>7 DEF SaveDevice, Busy, Entry, AccessNumbers
  <2>3. AccessTables'
    BY <1>7 DEF SaveDevice, Busy, Entry, AccessTables, HostRecord, LinkRecord
  <2>4. AnswersStand'
    BY <1>7 DEF SaveDevice, Busy, Entry, AnswersStand, Asking, AccessTables, HostRecord, LinkRecord
  <2> QED  BY <2>1, <2>2, <2>3, <2>4
<1>8. ASSUME NEW i \in Identity, RemoveIdentity(i)
      PROVE  AccessInv'
  <2>1. AccessSwitches'
    BY <1>8 DEF RemoveIdentity, AccessSwitches
  <2>2. AccessNumbers'
    BY <1>8 DEF RemoveIdentity, AccessNumbers
  <2>3. AccessTables'
    BY <1>8 DEF RemoveIdentity, AccessTables, HostRecord, LinkRecord
  <2>4. AnswersStand'
    BY <1>8 DEF RemoveIdentity, AnswersStand, Asking, AccessTables, HostRecord, LinkRecord
  <2> QED  BY <2>1, <2>2, <2>3, <2>4
<1>9. ASSUME NEW i \in Identity, NEW x \in BOOLEAN, CreateIdentity(i, x)
      PROVE  AccessInv'
  <2>1. AccessSwitches'
    BY <1>9 DEF CreateIdentity, AccessSwitches
  <2>2. AccessNumbers'
    BY <1>9 DEF CreateIdentity, AccessNumbers
  <2>3. AccessTables'
    BY <1>9 DEF CreateIdentity, AccessTables, HostRecord, LinkRecord
  <2>4. AnswersStand'
    BY <1>9 DEF CreateIdentity, AnswersStand, Asking, AccessTables, HostRecord, LinkRecord
  <2> QED  BY <2>1, <2>2, <2>3, <2>4
<1>10. ASSUME NEW i \in Identity, NEW x \in BOOLEAN, NEW a \in BOOLEAN, UpdateIdentity(i, a, x)
      PROVE  AccessInv'
  <2>1. AccessSwitches'
    BY <1>10 DEF UpdateIdentity, AccessSwitches
  <2>2. AccessNumbers'
    BY <1>10 DEF UpdateIdentity, AccessNumbers
  <2>3. AccessTables'
    BY <1>10 DEF UpdateIdentity, AccessTables, HostRecord, LinkRecord
  <2>4. AnswersStand'
    BY <1>10 DEF UpdateIdentity, AnswersStand, Asking, AccessTables, HostRecord, LinkRecord
  <2> QED  BY <2>1, <2>2, <2>3, <2>4
<1>11. CASE FetchBoxes
  <2>1. AccessSwitches'
    BY <1>11 DEF FetchBoxes, AccessSwitches
  <2>2. AccessNumbers'
    BY <1>11 DEF FetchBoxes, AccessNumbers
  <2>3. AccessTables'
    BY <1>11 DEF FetchBoxes, AccessTables, HostRecord, LinkRecord
  <2>4. AnswersStand'
    BY <1>11 DEF FetchBoxes, AnswersStand, Asking, AccessTables, HostRecord, LinkRecord
  <2> QED  BY <2>1, <2>2, <2>3, <2>4
<1>12. CASE FetchRanges
  <2>1. AccessSwitches'
    BY <1>12 DEF FetchRanges, AccessSwitches
  <2>2. AccessNumbers'
    BY <1>12 DEF FetchRanges, AccessNumbers
  <2>3. AccessTables'
    BY <1>12 DEF FetchRanges, AccessTables, HostRecord, LinkRecord
  <2>4. AnswersStand'
    BY <1>12 DEF FetchRanges, AnswersStand, Asking, AccessTables, HostRecord, LinkRecord
  <2> QED  BY <2>1, <2>2, <2>3, <2>4
<1>13. CASE Minute
  <2>1. AccessSwitches'
    BY <1>13 DEF Minute, AccessSwitches
  <2>2. AccessNumbers'
    BY <1>13 DEF Minute, AccessNumbers
  <2>3. AccessTables'
    BY <1>13 DEF Minute, AccessTables, HostRecord, LinkRecord
  <2>4. AnswersStand'
    BY <1>13 DEF Minute, AnswersStand, Asking, AccessTables, HostRecord, LinkRecord
  <2> QED  BY <2>1, <2>2, <2>3, <2>4
<1>14. ASSUME NEW d \in Device, AgeCounters(d)
      PROVE  AccessInv'
  <2>1. AccessSwitches'
    BY <1>14 DEF AgeCounters, AccessSwitches
  <2>2. AccessNumbers'
    BY <1>14 DEF AgeCounters, AccessNumbers
  <2>3. AccessTables'
    BY <1>14 DEF AgeCounters, AccessTables, HostRecord, LinkRecord
  <2>4. AnswersStand'
    BY <1>14 DEF AgeCounters, AnswersStand, Asking, AccessTables, HostRecord, LinkRecord
  <2> QED  BY <2>1, <2>2, <2>3, <2>4
<1>15. ASSUME NEW l \in Link, NEW d \in Device, Connect(l, d)
      PROVE  AccessInv'
  <2>1. AccessSwitches'
    BY <1>15 DEF Connect, NoLink, AccessSwitches
  <2>2. AccessNumbers'
    BY <1>15 DEF Connect, NoLink, AccessNumbers
  <2>3. AccessTables'
    BY <1>15 DEF Connect, NoLink, AccessTables, HostRecord, LinkRecord
  <2>4. AnswersStand'
    BY <1>15 DEF Connect, NoLink, AnswersStand, Asking, AccessTables, HostRecord, LinkRecord
  <2> QED  BY <2>1, <2>2, <2>3, <2>4
<1>16. ASSUME NEW l \in Link, NEW i \in Identity, Login(l, i)
      PROVE  AccessInv'
  <2>1. AccessSwitches'
    BY <1>16 DEF Login, AccessSwitches
  <2>2. AccessNumbers'
    BY <1>16 DEF Login, AccessNumbers
  <2>3. AccessTables'
    <3>1. ids[i].extern \in BOOLEAN
      BY <1>16 DEF Login, AccessTables
    <3>4. link[l] \in LinkRecord
      BY DEF AccessTables
    <3>2. [link[l] EXCEPT !.ident = i, !.extern = ids[i].extern] \in LinkRecord
      <4> HIDE DEF AccessInv
      <4> QED  BY <3>1, <3>4 DEF LinkRecord
    <3>3. /\ link' = [link EXCEPT ![l] = [link[l] EXCEPT !.ident = i, !.extern = ids[i].extern]]
          /\ link[l].at = "open"
      BY <1>16 DEF Login
    <3> QED  BY <1>16, <3>2, <3>3 DEF Login, AccessTables, LinkRecord
  <2>4. AnswersStand'
    BY <1>16 DEF Login, AnswersStand, Asking, AccessTables, HostRecord, LinkRecord
  <2> QED  BY <2>1, <2>2, <2>3, <2>4
<1>17. ASSUME NEW l \in Link, NEW fromOutside \in BOOLEAN, Source(l, fromOutside)
      PROVE  AccessInv'
  <2>1. AccessSwitches'
    BY <1>17 DEF Source, RelaySource, NoteRefusal, Busy, AccessSwitches
  <2>2. AccessNumbers'
    BY <1>17 DEF Source, RelaySource, NoteRefusal, Busy, AccessNumbers
  <2>3. AccessTables'
    <3>1. PICK step \in {"taken", "open", "source"} :
             link' = [link EXCEPT ![l] = [link[l] EXCEPT !.at = step, !.outside = fromOutside]]
      BY <1>17 DEF Source
    <3>6. link[l] \in LinkRecord
      BY DEF AccessTables
    <3>2. [link[l] EXCEPT !.at = step, !.outside = fromOutside] \in LinkRecord
      <4> HIDE DEF AccessInv
      <4> QED  BY <3>6 DEF LinkRecord
    <3>3. link[l].at = "open"
      BY <1>17 DEF Source
    <3>4. link' \in [Link -> LinkRecord] /\ \A k \in Link : link'[k].at # "closed" => link'[k].device \in Device
      BY <3>1, <3>2, <3>3 DEF AccessTables, LinkRecord
    <3>5. refused' \subseteq Device /\ disturbed' \subseteq Link
      BY <1>17, <3>3 DEF Source, NoteRefusal, AccessTables
    <3> QED  BY <1>17, <3>4, <3>5 DEF Source, AccessTables
  <2>4. AnswersStand'
    BY <1>17 DEF Source, RelaySource, NoteRefusal, Busy, AnswersStand, Asking, AccessTables, HostRecord, LinkRecord
  <2> QED  BY <2>1, <2>2, <2>3, <2>4
<1>18. ASSUME NEW l \in Link, CheckDevice(l)
      PROVE  AccessInv'
  <2>1. AccessSwitches'
    BY <1>18 DEF CheckDevice, NoteRefusal, AccessSwitches
  <2>2. AccessNumbers'
    BY <1>18 DEF CheckDevice, NoteRefusal, AccessNumbers
  <2>3. AccessTables'
    <3>1. PICK next \in {"learn", "open", "count"} :
             link' = [link EXCEPT ![l] = [link[l] EXCEPT !.at = next, !.extern = learnExtern]]
      BY <1>18 DEF CheckDevice
    <3>6. link[l] \in LinkRecord /\ learnExtern \in BOOLEAN
      BY DEF AccessTables, AccessSwitches
    <3>2. [link[l] EXCEPT !.at = next, !.extern = learnExtern] \in LinkRecord
      <4> HIDE DEF AccessInv
      <4> QED  BY <3>6 DEF LinkRecord
    <3>3. link[l].at = "source"
      BY <1>18 DEF CheckDevice
    <3>4. link' \in [Link -> LinkRecord] /\ \A k \in Link : link'[k].at # "closed" => link'[k].device \in Device
      BY <3>1, <3>2, <3>3 DEF AccessTables, LinkRecord
    <3>5. refused' \subseteq Device
      BY <1>18, <3>3 DEF CheckDevice, NoteRefusal, AccessTables
    <3> QED  BY <1>18, <3>4, <3>5 DEF CheckDevice, AccessTables
  <2>4. AnswersStand'
    BY <1>18 DEF CheckDevice, NoteRefusal, AnswersStand, Asking, AccessTables, HostRecord, LinkRecord
  <2> QED  BY <2>1, <2>2, <2>3, <2>4
<1>19. ASSUME NEW l \in Link, Learn(l)
      PROVE  AccessInv'
  <2>1. AccessSwitches'
    BY <1>19 DEF Learn, Reply, NoteRefusal, Entry, AccessSwitches
  <2>2. AccessNumbers'
    BY <1>19 DEF Learn, Reply, NoteRefusal, Entry, AccessNumbers
  <2>3. AccessTables'
    BY <1>19 DEF Learn, Reply, NoteRefusal, Entry, AccessTables, HostRecord, LinkRecord
  <2>4. AnswersStand'
    <3> DEFINE d == link[l].device
    <3>1. /\ link[l].at = "learn" /\ d \in Device
          /\ link' = [link EXCEPT ![l].at = IF link[l].outside /\ ~link[l].extern THEN "open" ELSE "count"]
          /\ UNCHANGED <<relayOn, smarthost, disturbed>>
      BY <1>19 DEF Learn, Reply, AccessTables
    <3>2. /\ \A k \in Link : k # l => link'[k] = link[k] /\ ~Asking(k)
          /\ link'[l].device = d /\ link'[l].outside = link[l].outside
          /\ link'[l].at = "open" \/ (link'[l].at = "count" /\ (link[l].outside => link[l].extern))
      BY <3>1 DEF AccessTables, LinkRecord, AnswersStand, Asking
    <3>3. hosts[d] = NoEntry => hosts'[d] = [extern |-> link[l].extern, gesperrt |-> FALSE, gelernt |-> TRUE]
      BY <1>19, <3>1 DEF Learn, Entry, AccessTables
    <3>4. l \notin disturbed => /\ relayOn /\ smarthost /\ hosts'[d] # NoEntry /\ ~hosts'[d].gesperrt
                                /\ hosts'[d].extern = link[l].extern
      <4> SUFFICES ASSUME l \notin disturbed PROVE /\ relayOn /\ smarthost /\ hosts'[d] # NoEntry /\ ~hosts'[d].gesperrt
                                                   /\ hosts'[d].extern = link[l].extern
        OBVIOUS
      <4>1. relayOn /\ smarthost /\ hosts[d] = NoEntry
        BY <3>1 DEF AnswersStand, Asking
      <4>2. link[l].extern \in BOOLEAN
        BY DEF AccessTables, LinkRecord
      <4>3. [extern |-> link[l].extern, gesperrt |-> FALSE, gelernt |-> TRUE] \in HostRecord
        <5> HIDE DEF AccessInv
        <5> QED  BY <4>2 DEF HostRecord
      <4>4. hosts'[d] \in HostRecord
        BY <3>3, <4>1, <4>3
      <4>5. NoEntry \notin HostRecord
        BY DEF HostRecord
      <4>6. ~hosts'[d].gesperrt /\ hosts'[d].extern = link[l].extern
        BY <3>3, <4>1
      <4> QED  BY <4>1, <4>4, <4>5, <4>6
    <3> QED  BY <3>1, <3>2, <3>4 DEF AnswersStand, Asking
  <2> QED  BY <2>1, <2>2, <2>3, <2>4
<1>20. ASSUME NEW l \in Link, CountMail(l)
      PROVE  AccessInv'
  <2>1. AccessSwitches'
    BY <1>20 DEF CountMail, Reply, AccessSwitches
  <2>2. AccessNumbers'
    BY <1>20 DEF CountMail, Reply, AccessNumbers
  <2>3. AccessTables'
    BY <1>20 DEF CountMail, Reply, AccessTables, HostRecord, LinkRecord
  <2>4. AnswersStand'
    BY <1>20 DEF CountMail, Reply, AnswersStand, Asking, AccessTables, HostRecord, LinkRecord
  <2> QED  BY <2>1, <2>2, <2>3, <2>4
<1>21. ASSUME NEW l \in Link, NextMail(l)
      PROVE  AccessInv'
  <2>1. AccessSwitches'
    BY <1>21 DEF NextMail, Reply, AccessSwitches
  <2>2. AccessNumbers'
    BY <1>21 DEF NextMail, Reply, AccessNumbers
  <2>3. AccessTables'
    BY <1>21 DEF NextMail, Reply, AccessTables, HostRecord, LinkRecord
  <2>4. AnswersStand'
    BY <1>21 DEF NextMail, Reply, AnswersStand, Asking, AccessTables, HostRecord, LinkRecord
  <2> QED  BY <2>1, <2>2, <2>3, <2>4
<1>22. ASSUME NEW l \in Link, Hangup(l)
      PROVE  AccessInv'
  <2>1. AccessSwitches'
    BY <1>22 DEF Hangup, NoLink, AccessSwitches
  <2>2. AccessNumbers'
    BY <1>22 DEF Hangup, NoLink, AccessNumbers
  <2>3. AccessTables'
    BY <1>22 DEF Hangup, NoLink, AccessTables, HostRecord, LinkRecord
  <2>4. AnswersStand'
    BY <1>22 DEF Hangup, NoLink, AnswersStand, Asking, AccessTables, HostRecord, LinkRecord
  <2> QED  BY <2>1, <2>2, <2>3, <2>4
<1>23. CASE UNCHANGED accessVars
  BY <1>23 DEF accessVars, AccessSwitches, AccessNumbers, AccessTables, AnswersStand, Asking
<1> QED  BY <1>1, <1>2, <1>3, <1>4, <1>5, <1>6, <1>7, <1>8, <1>9, <1>10, <1>11, <1>12, <1>13, <1>14, <1>15, <1>16, <1>17, <1>18, <1>19, <1>20, <1>21, <1>22, <1>23 DEF AccessNext, AccessPages, AccessData

THEOREM AccessCorrect == AccessSpec => []AccessInv
<1>1. AccessInit => AccessInv
  <2> SUFFICES ASSUME AccessInit PROVE AccessInv
    OBVIOUS
  <2>1. AccessSwitches
    BY DEF AccessInit, AccessSwitches
  <2>2. AccessNumbers
    BY AccessAssumption DEF AccessInit, AccessNumbers
  <2>3. AccessTables
    BY DEF AccessInit, AccessTables, NoLink, LinkRecord
  <2>4. AnswersStand
    BY DEF AccessInit, AnswersStand, Asking, NoLink
  <2> QED  BY <2>1, <2>2, <2>3, <2>4 DEF AccessInv
<1> QED  BY <1>1, AccessStep, PTL DEF AccessSpec

LEMMA AccessTypes == AccessInv => AccessTypeOK
  BY DEF AccessInv, AccessSwitches, AccessNumbers, AccessTables, AccessTypeOK, HostRecord, LinkRecord

LEMMA AdmittedFromInv == AccessInv => OnlyAdmitted
  BY DEF AccessInv, AnswersStand, Asking, OnlyAdmitted

LEMMA AdminStep ==
  AccessInv /\ [AccessNext]_accessVars =>
    [\A d \in Device : hosts[d] # NoEntry /\ hosts'[d] # hosts[d] => accessChanges' # accessChanges]_accessVars
<1> SUFFICES ASSUME AccessInv, AccessNext, NEW d \in Device, hosts[d] # NoEntry, hosts'[d] # hosts[d]
             PROVE  accessChanges' # accessChanges
  BY DEF accessVars
<1>1. accessChanges \in Nat
  BY AccessAssumption DEF AccessInv, AccessNumbers
<1>2. ASSUME Admin PROVE accessChanges' # accessChanges
  BY <1>1, <1>2 DEF Admin
<1>3. CASE AccessPages
  <2>1. CASE FillInNames
    BY <2>1 DEF FillInNames, AccessInv, AccessTables
  <2>2. CASE SaveAccessSettings \/ StopLearning \/ ClearRefused
    BY <2>2, <1>2 DEF SaveAccessSettings, StopLearning, ClearRefused
  <2>3. CASE \E x \in BOOLEAN, n \in {1, MaxLearn, FarAway} : StartLearning(n, x)
    BY <2>3, <1>2 DEF StartLearning
  <2>4. CASE \E e \in Device : RemoveDevice(e) \/ \E x, b \in BOOLEAN : SaveDevice(e, x, b)
    BY <2>4, <1>2 DEF RemoveDevice, SaveDevice
  <2>5. CASE \E i \in Identity :
               \/ RemoveIdentity(i)
               \/ \E x \in BOOLEAN : CreateIdentity(i, x) \/ \E a \in BOOLEAN : UpdateIdentity(i, a, x)
    BY <2>5, <1>2 DEF RemoveIdentity, CreateIdentity, UpdateIdentity
  <2> QED  BY <1>3, <2>1, <2>2, <2>3, <2>4, <2>5 DEF AccessPages
<1>4. ASSUME NEW l \in Link, AccessData(l) PROVE FALSE
  <2>1. CASE Learn(l)
    BY <2>1 DEF Learn, AccessInv, AccessTables, AnswersStand, Asking
  <2> QED  BY <1>4, <2>1 DEF AccessData, Connect, Login, Source, CheckDevice, CountMail, NextMail,
                             Hangup, devices
<1>5. ~FetchBoxes /\ ~FetchRanges /\ ~Minute /\ \A e \in Device : ~AgeCounters(e)
  BY DEF FetchBoxes, FetchRanges, Minute, AgeCounters, devices
<1> QED  BY <1>3, <1>4, <1>5 DEF AccessNext

-----------------------------------------------------------------------------
(* Forwarding                                                              *)

Since(stamps, from) == {s \in stamps : s[1] >= from}

ForwardingTypes ==
  /\ queued \in [Visit -> Nat] /\ away \in [Visit -> Nat]
  /\ seen \in [Visit -> SUBSET Stamp] /\ passed \in [Visit -> SUBSET Stamp]
  /\ restarts \subseteq Stamp /\ now \in 1..MaxNow /\ nameless \subseteq MessageId

(* A mail is at Exchange Online or away, twice when an answer was lost.    *)
CopiesFew == \A v \in Visit : queued[v] <= 1 /\ queued[v] + away[v] <= 2

StampsPast ==
  /\ IsFiniteSet(restarts) /\ \A s \in restarts : s[1] <= now
  /\ \A v \in Visit :
       IsFiniteSet(passed[v]) /\ seen[v] \subseteq passed[v] /\ \A s \in passed[v] : s[1] <= now

(* Whatever start is taken for the window: what was passed on since is     *)
(* still counted, or was forgotten in one of the restarts since.           *)
AllCounted ==
  \A v \in Visit, from \in Nat : from + Window > now =>
    Cardinality(Since(passed[v], from))
      <= Cardinality(Since(seen[v], from)) + LoopMax * Cardinality(Since(restarts, from))

BrakeOn == \A v \in Visit : Cardinality(Recent(v)) <= LoopMax

ForwardingInv == ForwardingTypes /\ CopiesFew /\ StampsPast /\ AllCounted /\ BrakeOn

LEMMA SinceCount ==
  ASSUME NEW S, IsFiniteSet(S), NEW from
  PROVE  IsFiniteSet(Since(S, from)) /\ Cardinality(Since(S, from)) \in Nat
  BY FS_Subset, FS_CardinalityType DEF Since

LEMMA WindowCount ==
  ASSUME NEW S, IsFiniteSet(S)
  PROVE  IsFiniteSet(InWindow(S)) /\ Cardinality(InWindow(S)) \in Nat
  BY FS_Subset, FS_CardinalityType DEF InWindow

LEMMA OneMore ==
  ASSUME NEW S, IsFiniteSet(S), NEW s, s \notin S, NEW from
  PROVE  Cardinality(Since(S \cup {s}, from)) =
           IF s[1] >= from THEN Cardinality(Since(S, from)) + 1 ELSE Cardinality(Since(S, from))
<1>1. IsFiniteSet(Since(S, from)) /\ s \notin Since(S, from)
  BY SinceCount DEF Since
<1>2. CASE s[1] >= from
  <2>1. Since(S \cup {s}, from) = Since(S, from) \cup {s}
    BY <1>2 DEF Since
  <2> QED  BY <1>1, <1>2, <2>1, FS_AddElement
<1>3. CASE ~(s[1] >= from)
  <2>1. Since(S \cup {s}, from) = Since(S, from)
    BY <1>3 DEF Since
  <2> QED  BY <1>3, <2>1
<1> QED  BY <1>2, <1>3

LEMMA LoopAlone == ASSUME NEW v PROVE IsLoop(v) <=> Cardinality(Recent(v)) >= LoopMax
  BY DEF IsLoop, LoopKey

LEMMA Distribute == \A a, b \in Nat : a * (b + 1) = a * b + a /\ a * b \in Nat
  OBVIOUS

LEMMA ForwardingInitOK == ForwardingInit => ForwardingInv
<1> SUFFICES ASSUME ForwardingInit PROVE ForwardingInv
  OBVIOUS
<1> USE ForwardingAssumption
<1>1. ForwardingTypes
  BY DEF ForwardingInit, ForwardingTypes
<1>2. CopiesFew
  BY DEF ForwardingInit, CopiesFew
<1>3. StampsPast
  BY FS_EmptySet DEF ForwardingInit, StampsPast
<1>4. AllCounted
  <2> SUFFICES ASSUME NEW v \in Visit, NEW from \in Nat
               PROVE  Cardinality(Since(passed[v], from))
                        <= Cardinality(Since(seen[v], from)) + LoopMax * Cardinality(Since(restarts, from))
    BY DEF AllCounted
  <2>1. Since(passed[v], from) = {} /\ Since(seen[v], from) = {} /\ Since(restarts, from) = {}
    BY DEF Since, ForwardingInit
  <2>2. Cardinality({}) = 0
    BY FS_EmptySet
  <2> QED  BY <2>1, <2>2
<1>5. BrakeOn
  <2>1. \A v \in Visit : Recent(v) = {}
    BY DEF Recent, InWindow, ForwardingInit
  <2> QED  BY <2>1, FS_EmptySet DEF BrakeOn
<1> QED  BY <1>1, <1>2, <1>3, <1>4, <1>5 DEF ForwardingInv

LEMMA ForwardOK ==
  ASSUME ForwardingInv, NEW v \in Visit, NEW n \in 1..MaxCopies, Forward(v, n)
  PROVE  ForwardingInv'
<1> DEFINE x == <<now, n>>
<1> USE ForwardingAssumption
<1>0. /\ queued[v] > 0 /\ ~IsLoop(v) /\ x \notin passed[v] /\ UNCHANGED <<nameless, now, restarts>>
      /\ queued' = [queued EXCEPT ![v] = @ - 1] /\ away' = [away EXCEPT ![v] = @ + 1]
      /\ seen' = [seen EXCEPT ![v] = Recent(v) \cup {x}]
      /\ passed' = [passed EXCEPT ![v] = passed[v] \cup {x}]
  BY DEF Forward, NextStamp
<1>1. /\ x \in Stamp /\ x[1] = now /\ now \in Nat /\ n \in Nat
  BY DEF ForwardingInv, ForwardingTypes, Stamp
<1>2. /\ seen'[v] = Recent(v) \cup {x} /\ passed'[v] = passed[v] \cup {x}
      /\ \A w \in Visit : w # v => seen'[w] = seen[w] /\ passed'[w] = passed[w]
  BY <1>0 DEF ForwardingInv, ForwardingTypes
<1>3. Recent(v) \subseteq seen[v] /\ seen[v] \subseteq passed[v] /\ IsFiniteSet(passed[v])
  BY DEF Recent, InWindow, ForwardingInv, StampsPast
<1>4. IsFiniteSet(seen[v]) /\ IsFiniteSet(Recent(v)) /\ x \notin seen[v] /\ x \notin Recent(v)
  BY <1>0, <1>3, FS_Subset
<1>5. ForwardingTypes'
  BY <1>0, <1>1, <1>3 DEF ForwardingInv, ForwardingTypes
<1>6. CopiesFew'
  BY <1>0 DEF ForwardingInv, ForwardingTypes, CopiesFew
<1>7. StampsPast'
  <2>1. IsFiniteSet(passed[v] \cup {x})
    BY <1>0, <1>3, FS_AddElement
  <2> QED  BY <1>0, <1>1, <1>2, <1>3, <2>1 DEF ForwardingInv, StampsPast
<1>8. AllCounted'
  <2> SUFFICES ASSUME NEW w \in Visit, NEW from \in Nat, from + Window > now
               PROVE  Cardinality(Since(passed'[w], from))
                        <= Cardinality(Since(seen'[w], from)) + LoopMax * Cardinality(Since(restarts, from))
    BY <1>0 DEF AllCounted
  <2>1. Cardinality(Since(passed[w], from))
          <= Cardinality(Since(seen[w], from)) + LoopMax * Cardinality(Since(restarts, from))
    BY DEF ForwardingInv, AllCounted
  <2>2. CASE w # v
    BY <2>1, <2>2, <1>2
  <2>3. CASE w = v
    <3>1. Since(Recent(v), from) = Since(seen[v], from)
      BY <1>1, <1>3 DEF Since, Recent, InWindow, ForwardingInv, ForwardingTypes, Stamp
    <3>2. /\ Cardinality(Since(passed[v], from)) \in Nat /\ Cardinality(Since(seen[v], from)) \in Nat
          /\ Cardinality(Since(restarts, from)) \in Nat
      BY <1>3, <1>4, SinceCount DEF ForwardingInv, StampsPast
    <3>3. Cardinality(Since(passed[v] \cup {x}, from)) =
            IF x[1] >= from THEN Cardinality(Since(passed[v], from)) + 1
                            ELSE Cardinality(Since(passed[v], from))
      BY <1>0, <1>3, OneMore
    <3>4. Cardinality(Since(Recent(v) \cup {x}, from)) =
            IF x[1] >= from THEN Cardinality(Since(seen[v], from)) + 1
                            ELSE Cardinality(Since(seen[v], from))
      BY <1>4, <3>1, OneMore
    <3>5. LoopMax * Cardinality(Since(restarts, from)) \in Nat
      BY <3>2, Distribute
    <3> QED  BY <2>1, <2>3, <1>2, <3>2, <3>3, <3>4, <3>5
  <2> QED  BY <2>2, <2>3
<1>9. BrakeOn'
  <2> SUFFICES ASSUME NEW w \in Visit PROVE Cardinality(Recent(w)') <= LoopMax
    BY DEF BrakeOn
  <2>1. CASE w # v
    BY <2>1, <1>0, <1>2 DEF ForwardingInv, BrakeOn, Recent, InWindow
  <2>2. CASE w = v
    <3>1. Recent(w)' \subseteq Recent(v) \cup {x}
      BY <2>2, <1>0, <1>2 DEF Recent, InWindow
    <3>2. IsFiniteSet(Recent(v) \cup {x}) /\ Cardinality(Recent(v) \cup {x}) = Cardinality(Recent(v)) + 1
      BY <1>4, FS_AddElement
    <3>3. Cardinality(Recent(v)) < LoopMax
      BY <1>0, <1>4, LoopAlone, FS_CardinalityType
    <3>4. Cardinality(Recent(w)') <= Cardinality(Recent(v) \cup {x})
      BY <3>1, <3>2, FS_Subset
    <3>5. Cardinality(Recent(w)') \in Nat /\ Cardinality(Recent(v)) \in Nat
      BY <3>1, <3>2, <1>4, FS_Subset, FS_CardinalityType
    <3> QED  BY <3>2, <3>3, <3>4, <3>5
  <2> QED  BY <2>1, <2>2
<1> QED  BY <1>5, <1>6, <1>7, <1>8, <1>9 DEF ForwardingInv

LEMMA ForgetOK ==
  ASSUME ForwardingInv, NEW n \in 1..MaxRestarts, ForgetLoops(n)
  PROVE  ForwardingInv'
<1> DEFINE x == <<now, n>>
<1> USE ForwardingAssumption
<1>0. /\ x \notin restarts /\ restarts' = restarts \cup {x} /\ seen' = [w \in Visit |-> {}]
      /\ UNCHANGED <<nameless, queued, away, now, passed>>
  BY DEF ForgetLoops, NextStamp
<1>1. x \in Stamp /\ x[1] = now /\ now \in Nat /\ n \in Nat
  BY DEF ForwardingInv, ForwardingTypes, Stamp
<1>2. IsFiniteSet(restarts)
  BY DEF ForwardingInv, StampsPast
<1>3. ForwardingTypes'
  BY <1>0, <1>1 DEF ForwardingInv, ForwardingTypes
<1>4. CopiesFew'
  BY <1>0 DEF ForwardingInv, CopiesFew
<1>5. StampsPast'
  <2>1. IsFiniteSet(restarts \cup {x})
    BY <1>0, <1>2, FS_AddElement
  <2> QED  BY <1>0, <1>1, <2>1 DEF ForwardingInv, StampsPast
<1>6. AllCounted'
  <2> SUFFICES ASSUME NEW w \in Visit, NEW from \in Nat, from + Window > now
               PROVE  Cardinality(Since(passed[w], from))
                        <= Cardinality(Since({}, from)) + LoopMax * Cardinality(Since(restarts \cup {x}, from))
    BY <1>0 DEF AllCounted
  <2>1. Cardinality(Since(passed[w], from))
          <= Cardinality(Since(seen[w], from)) + LoopMax * Cardinality(Since(restarts, from))
    BY DEF ForwardingInv, AllCounted
  <2>2. IsFiniteSet(passed[w]) /\ seen[w] \subseteq passed[w] /\ IsFiniteSet(seen[w])
    BY FS_Subset DEF ForwardingInv, StampsPast
  <2>3. /\ Cardinality(Since(passed[w], from)) \in Nat /\ Cardinality(Since(seen[w], from)) \in Nat
        /\ Cardinality(Since(restarts, from)) \in Nat
    BY <1>2, <2>2, SinceCount
  <2>4. Since({}, from) = {} /\ Cardinality(Since({}, from)) = 0
    BY FS_EmptySet DEF Since
  <2>5. CASE now >= from
    <3>1. Cardinality(Since(restarts \cup {x}, from)) = Cardinality(Since(restarts, from)) + 1
      BY <1>0, <1>1, <1>2, <2>5, OneMore
    <3>2. Since(seen[w], from) \subseteq Recent(w) /\ IsFiniteSet(Recent(w))
      <4>1. IsFiniteSet(Recent(w))
        BY <2>2, WindowCount DEF Recent
      <4>2. \A s \in seen[w] : s[1] \in Nat
        BY DEF ForwardingInv, ForwardingTypes, Stamp
      <4> QED  BY <1>1, <4>1, <4>2 DEF Since, Recent, InWindow
    <3>3. Cardinality(Since(seen[w], from)) <= LoopMax
      <4>1. Cardinality(Recent(w)) <= LoopMax
        BY DEF ForwardingInv, BrakeOn
      <4>2. Cardinality(Since(seen[w], from)) <= Cardinality(Recent(w)) /\ Cardinality(Recent(w)) \in Nat
        BY <3>2, FS_Subset, FS_CardinalityType
      <4> QED  BY <2>3, <4>1, <4>2
    <3>4. LoopMax * (Cardinality(Since(restarts, from)) + 1)
            = LoopMax * Cardinality(Since(restarts, from)) + LoopMax
          /\ LoopMax * Cardinality(Since(restarts, from)) \in Nat
      BY <2>3, Distribute
    <3> QED  BY <2>1, <2>3, <2>4, <3>1, <3>3, <3>4
  <2>6. CASE ~(now >= from)
    <3>1. Since(passed[w], from) = {}
      BY <1>1, <2>6 DEF Since, ForwardingInv, StampsPast, ForwardingTypes, Stamp
    <3>2. Cardinality(Since(restarts \cup {x}, from)) = Cardinality(Since(restarts, from))
      BY <1>0, <1>1, <1>2, <2>6, OneMore
    <3>3. LoopMax * Cardinality(Since(restarts, from)) \in Nat
      BY <2>3, Distribute
    <3> QED  BY <3>1, <3>2, <3>3, <2>4, FS_EmptySet
  <2> QED  BY <2>5, <2>6
<1>7. BrakeOn'
  <2> SUFFICES ASSUME NEW w \in Visit PROVE Cardinality(Recent(w)') <= LoopMax
    BY DEF BrakeOn
  <2>1. Recent(w)' = {}
    BY <1>0 DEF Recent, InWindow
  <2> QED  BY <2>1, FS_EmptySet
<1> QED  BY <1>3, <1>4, <1>5, <1>6, <1>7 DEF ForwardingInv

(* The steps that pass nothing on and forget nothing.                      *)
LEMMA CopyOK ==
  ASSUME ForwardingInv, CopiesFew', UNCHANGED <<nameless, seen, passed, restarts>>,
         queued' \in [Visit -> Nat], away' \in [Visit -> Nat], now' \in 1..MaxNow, now' >= now
  PROVE  ForwardingInv'
<1> USE ForwardingAssumption
<1>1. ForwardingTypes'
  BY DEF ForwardingInv, ForwardingTypes
<1>2. StampsPast'
  BY DEF ForwardingInv, ForwardingTypes, StampsPast, Stamp
<1>3. AllCounted'
  <2>1. now \in Nat /\ now' \in Nat
    BY DEF ForwardingInv, ForwardingTypes
  <2> QED  BY <2>1 DEF ForwardingInv, AllCounted, Since
<1>4. BrakeOn'
  <2> SUFFICES ASSUME NEW w \in Visit PROVE Cardinality(Recent(w)') <= LoopMax
    BY DEF BrakeOn
  <2>1. IsFiniteSet(seen[w])
    BY FS_Subset DEF ForwardingInv, StampsPast
  <2>2. Recent(w)' \subseteq Recent(w)
    BY DEF Recent, InWindow, ForwardingInv, ForwardingTypes, Stamp
  <2>3. IsFiniteSet(Recent(w)) /\ Cardinality(Recent(w)) \in Nat
    BY <2>1, WindowCount DEF Recent
  <2>4. Cardinality(Recent(w)') <= Cardinality(Recent(w)) /\ Cardinality(Recent(w)') \in Nat
    BY <2>2, <2>3, FS_Subset, FS_CardinalityType
  <2>5. Cardinality(Recent(w)) <= LoopMax
    BY DEF ForwardingInv, BrakeOn
  <2> QED  BY <2>3, <2>4, <2>5
<1> QED  BY <1>1, <1>2, <1>3, <1>4 DEF ForwardingInv

LEMMA ForwardingStep == ForwardingInv /\ [ForwardingNext]_forwardingVars => ForwardingInv'
<1> SUFFICES ASSUME ForwardingInv, [ForwardingNext]_forwardingVars PROVE ForwardingInv'
  OBVIOUS
<1> USE ForwardingAssumption
<1>t. ForwardingTypes /\ CopiesFew
  BY DEF ForwardingInv
<1>1. ASSUME NEW v \in Visit, RejectLoop(v) \/ ForwardUnheard(v) \/ ForwardUncounted(v) \/ Arrive(v)
      PROVE  ForwardingInv'
  <2>1. /\ UNCHANGED <<nameless, seen, passed, restarts>> /\ now' \in 1..MaxNow /\ now' >= now
        /\ queued' \in [Visit -> Nat] /\ away' \in [Visit -> Nat]
    BY <1>1, <1>t DEF RejectLoop, ForwardUnheard, ForwardUncounted, Arrive, ForwardingTypes
  <2>2. CopiesFew'
    BY <1>1, <1>t DEF RejectLoop, ForwardUnheard, ForwardUncounted, Arrive, CopiesFew, ForwardingTypes
  <2> QED  BY <2>1, <2>2, CopyOK
<1>2. ASSUME NEW v \in Visit, NEW n \in 1..MaxCopies, Forward(v, n) PROVE ForwardingInv'
  BY <1>2, ForwardOK
<1>3. ASSUME NEW n \in 1..MaxRestarts, ForgetLoops(n) PROVE ForwardingInv'
  BY <1>3, ForgetOK
<1>4. CASE Pass \/ UNCHANGED forwardingVars
  <2>1. /\ UNCHANGED <<nameless, queued, away, seen, passed, restarts>> /\ now' \in 1..MaxNow /\ now' >= now
    BY <1>4, <1>t DEF Pass, forwardingVars, ForwardingTypes
  <2>2. CopiesFew' /\ queued' \in [Visit -> Nat] /\ away' \in [Visit -> Nat]
    BY <1>t, <2>1 DEF CopiesFew, ForwardingTypes
  <2> QED  BY <2>1, <2>2, CopyOK
<1> QED  BY <1>1, <1>2, <1>3, <1>4 DEF ForwardingNext

THEOREM ForwardingCorrect == ForwardingSpec => []ForwardingInv
  BY ForwardingInitOK, ForwardingStep, PTL DEF ForwardingSpec

LEMMA ForwardingTypesHold == ForwardingInv => ForwardingTypeOK
<1> SUFFICES ASSUME ForwardingInv PROVE ForwardingTypeOK
  OBVIOUS
<1>1. \A v \in Visit : queued[v] \in 0..1 /\ away[v] \in 0..2
  BY DEF ForwardingInv, ForwardingTypes, CopiesFew
<1>2. queued \in [Visit -> 0..1] /\ away \in [Visit -> 0..2]
  BY <1>1 DEF ForwardingInv, ForwardingTypes
<1> QED  BY <1>2 DEF ForwardingInv, ForwardingTypes, ForwardingTypeOK

LEMMA BrakedFromInv == ForwardingInv => LoopBraked
<1> SUFFICES ASSUME ForwardingInv, NEW v \in Visit
             PROVE  Cardinality(InWindow(passed[v])) <= LoopMax * (1 + Cardinality(InWindow(restarts)))
  BY DEF LoopBraked
<1> USE ForwardingAssumption
<1>1. now \in Nat /\ Window \in Nat
  BY DEF ForwardingInv, ForwardingTypes
<1>2. PICK from \in Nat : \A t \in Nat : t >= from <=> t + Window > now
  <2>1. CASE now < Window
    BY <1>1, <2>1
  <2>2. CASE now >= Window
    <3>1. now - Window + 1 \in Nat
      BY <1>1, <2>2
    <3>2. \A t \in Nat : t >= now - Window + 1 <=> t + Window > now
      BY <1>1, <2>2
    <3> QED  BY <3>1, <3>2
  <2> QED  BY <1>1, <2>1, <2>2
<1>3. \A S \in SUBSET Stamp : InWindow(S) = Since(S, from)
  BY <1>2 DEF InWindow, Since, Stamp
<1>4. /\ InWindow(passed[v]) = Since(passed[v], from) /\ Recent(v) = Since(seen[v], from)
      /\ InWindow(restarts) = Since(restarts, from)
  BY <1>3 DEF ForwardingInv, ForwardingTypes, Recent
<1>5. Cardinality(Since(passed[v], from))
        <= Cardinality(Since(seen[v], from)) + LoopMax * Cardinality(Since(restarts, from))
  BY <1>2 DEF ForwardingInv, AllCounted
<1>6. Cardinality(Since(seen[v], from)) <= LoopMax
  BY <1>4 DEF ForwardingInv, BrakeOn
<1>7. IsFiniteSet(passed[v]) /\ IsFiniteSet(seen[v]) /\ IsFiniteSet(restarts)
  BY FS_Subset DEF ForwardingInv, StampsPast
<1>8. /\ Cardinality(Since(passed[v], from)) \in Nat /\ Cardinality(Since(seen[v], from)) \in Nat
      /\ Cardinality(Since(restarts, from)) \in Nat
  BY <1>7, SinceCount
<1>9. LoopMax * (1 + Cardinality(Since(restarts, from)))
        = LoopMax * Cardinality(Since(restarts, from)) + LoopMax
      /\ LoopMax * Cardinality(Since(restarts, from)) \in Nat
  BY <1>8, Distribute
<1> QED  BY <1>4, <1>5, <1>6, <1>8, <1>9

LEMMA ForksStep ==
  ForwardingInv /\ [ForwardingNext]_forwardingVars =>
    [\A v \in Visit : queued'[v] < queued[v] /\ away'[v] = away[v]
       => Cardinality(InWindow(passed[v])) >= LoopMax]_forwardingVars
<1> SUFFICES ASSUME ForwardingInv, ForwardingNext, NEW v \in Visit,
                    queued'[v] < queued[v], away'[v] = away[v]
             PROVE  Cardinality(InWindow(passed[v])) >= LoopMax
  OBVIOUS
<1> USE ForwardingAssumption
<1>t. ForwardingTypes
  BY DEF ForwardingInv
<1>1. \A w \in Visit, n \in 1..MaxCopies : ~Forward(w, n)
  BY <1>t DEF Forward, ForwardingTypes
<1>2. \A w \in Visit : ~ForwardUnheard(w) /\ ~ForwardUncounted(w) /\ ~Arrive(w)
  BY <1>t DEF ForwardUnheard, ForwardUncounted, Arrive, ForwardingTypes
<1>3. \A n \in 1..MaxRestarts : ~ForgetLoops(n)
  BY <1>t DEF ForgetLoops, ForwardingTypes
<1>4. ~Pass
  BY <1>t DEF Pass, ForwardingTypes
<1>5. PICK w \in Visit : RejectLoop(w)
  BY <1>1, <1>2, <1>3, <1>4 DEF ForwardingNext
<1>6. w = v /\ IsLoop(v)
  BY <1>5, <1>t DEF RejectLoop, ForwardingTypes
<1>7. IsFiniteSet(passed[v]) /\ seen[v] \subseteq passed[v]
  BY DEF ForwardingInv, StampsPast
<1>8. /\ IsFiniteSet(InWindow(passed[v])) /\ Recent(v) \subseteq InWindow(passed[v])
  BY <1>7, WindowCount DEF Recent, InWindow
<1>9. /\ Cardinality(Recent(v)) <= Cardinality(InWindow(passed[v]))
      /\ Cardinality(Recent(v)) \in Nat /\ Cardinality(InWindow(passed[v])) \in Nat
  BY <1>8, FS_Subset, FS_CardinalityType
<1> QED  BY <1>6, <1>9, LoopAlone

-----------------------------------------------------------------------------
(* The whole                                                               *)

(* Each part of the gateway runs as if it were alone: the step of one leaves *)
(* the variables of the others as they are.                                *)
LEMMA PartsOfGateway ==
  Spec => /\ AcmeSpec /\ HubSpec /\ BatchInit /\ [][BatchNext]_batchVars /\ CertSpec
          /\ RoutingSpec /\ AccessSpec /\ ForwardingSpec
<1>1. Init => /\ AcmeInit /\ HubInit /\ BatchInit /\ CertInit
              /\ RoutingInit /\ AccessInit /\ ForwardingInit
  BY DEF Init
<1>2. [Next]_mcVars =>
        /\ [AcmeNext]_acmeVars /\ [HubNext]_hubVars /\ [BatchNext]_batchVars /\ [CertNext]_certVars
        /\ [RoutingNext]_routingVars /\ [AccessNext]_accessVars
        /\ [ForwardingNext]_forwardingVars
  BY DEF Next, Orders, Ways, mcVars
<1> QED  BY <1>1, <1>2, PTL DEF Spec, AcmeSpec, HubSpec, CertSpec, RoutingSpec, AccessSpec, ForwardingSpec

(* Type correctness of all seven parts.                                    *)
THEOREM GatewayTypes == Spec => []TypesOK
<1>1. AcmeInv => AcmeTypeOK
  BY DEF AcmeInv
<1>2. HubInv => HubTypeOK
  BY DEF HubInv, HubTypes
<1>3. BatchInv => BatchTypeOK
  BY DEF BatchInv, BatchTypes
<1>4. CertInv => CertTypeOK
  BY DEF CertInv
<1>5. RoutingInv => RoutingTypeOK
  BY DEF RoutingInv
<1> QED  BY <1>1, <1>2, <1>3, <1>4, <1>5, AccessTypes, ForwardingTypesHold, PartsOfGateway, AcmeCorrect,
            HubCorrect, BatchCorrect, CertCorrect, RoutingCorrect, AccessCorrect, ForwardingCorrect,
            PTL DEF TypesOK

(* At most one answer for the claim of an order, a consent orders once, and *)
(* a batch run leaves nobody out (acme_state.py, einwilligung.py,          *)
(* sammelbestellung.py).                                                   *)
THEOREM OrdersOnce == Spec => []EachOrderOnce
<1>1. AcmeInv => AnsweredOnce
  <2> SUFFICES ASSUME AcmeInv, NEW i \in OrderId PROVE replies[i] <= 1
    BY DEF AnsweredOnce
  <2>1. replies[i] > 0 => replies[i] = 1
    BY DEF AcmeInv, OneAnswers
  <2>2. replies[i] \in Nat
    BY DEF AcmeInv, AcmeTypeOK
  <2> QED  BY <2>1, <2>2
<1>2. HubInv => YesOrdersOnce
  BY DEF HubInv, LinksLeft, YesOrdersOnce
<1>3. BatchInv => NobodyDropped
  BY DEF BatchInv
<1> QED  BY <1>1, <1>2, <1>3, PartsOfGateway, AcmeCorrect, HubCorrect, BatchCorrect, PTL DEF EachOrderOnce

(* The key of an order the hub may still answer is never lost (hub_client.py). *)
THEOREM HubKeyKept == Spec => []KeyKept
<1>1. HubInv => KeyKept
  BY DEF HubInv
<1> QED  BY <1>1, PartsOfGateway, HubCorrect, PTL

(* A revoked certificate is not used beyond the life of a list if its      *)
(* authority names all there is to name, and none disappears without a     *)
(* person's word (crl_check.py, smime_store.py).                           *)
THEOREM PartnersSafe == Spec => []PartnersKept
<1>1. CertInv => RevocationBites /\ NothingVanishes
  BY DEF CertInv
<1> QED  BY <1>1, PartsOfGateway, CertCorrect, PTL DEF PartnersKept

(* Only admitted devices are passed on, routes name targets there are, own *)
(* mail stays inside, and the brake bounds every circle, whatever the      *)
(* window, the limit and the number of restarts.                           *)
THEOREM WaysCorrect == Spec => []WaysHold
<1>1. RoutingInv => RoutesHold /\ InternalStaysInside
  BY RoutesFromInv DEF RoutingInv
<1> QED  BY <1>1, AdmittedFromInv, BrakedFromInv, PartsOfGateway, RoutingCorrect, AccessCorrect,
            ForwardingCorrect, PTL DEF WaysHold

(* The learning mode never overrules the administrator, and no fork of a   *)
(* mail is turned back as a circle before it went through LoopMax times.   *)
THEOREM DecisionsStand == Spec => NothingOverruled
<1>1. AccessSpec => AdminDecides
  BY AccessCorrect, AdminStep, PTL DEF AccessSpec, AdminDecides
<1>2. ForwardingSpec => ForksPass
  BY ForwardingCorrect, ForksStep, PTL DEF ForwardingSpec, ForksPass
<1> QED  BY <1>1, <1>2, PartsOfGateway, PTL DEF NothingOverruled
===============================================================================
