------------------------------- MODULE AcmeOrders -------------------------------
(***************************************************************************)
(* A certificate ordered by ACME for one mailbox (app/acme_state.py,       *)
(* app/acme_client.py, app/ca_backends/castle_acme.py, the orders of       *)
(* app/webui/routen/smime.py, the renewal of app/scheduler.py and the      *)
(* interception in handler.handle_DATA): account, order, the challenge     *)
(* mail, its answer, validation, certificate.                              *)
(*                                                                         *)
(* orders.json holds one order for the mailbox.  Tasks in the event loops  *)
(* of the web server, the SMTP server and the scheduler's asyncio.run work *)
(* on it, each with its own copy; a step of a task is what it does between *)
(* two awaits, or between two looks at orders.json.                        *)
(***************************************************************************)
EXTENDS Naturals

CONSTANTS
  Slot,          \* places for tasks
  NoTask,        \* no task registered
  MaxOrders,     \* bound on orders at the authority
  MaxStops       \* bound on restarts

ASSUME AcmeAssumption == MaxOrders \in Nat /\ MaxStops \in Nat /\ NoTask \notin Slot

OrderId == 1..MaxOrders
Starter == {"page", "renewal"}   \* api_acme_initiate, the scheduler

VARIABLES
  order,         \* _orders, saved with every change: [id, status], id 0 for none
  task,          \* [Slot -> [kind, id, mail, claim, at]]: id is the order a task has the
                 \* copy of, mail the challenge it found, claim the order it claimed
  registered,    \* _running_tasks: a slot or NoTask
  start,         \* the starters in initiate_acme_order, between its awaits
  placed,        \* orders placed at the authority so far
  ca,            \* [OrderId -> state at the authority]
  mailbox,       \* [OrderId -> the order in work when its challenge mail came, 0: not yet]
  solved,        \* orders whose challenge got an answer that fits
  replies,       \* [OrderId -> answers sent on a claim of the order]
  consent,       \* einwilligung.liegt_vor
  signing,       \* the certificate the mailbox signs with: [id, revoked], id 0 the old one
  acmeStops      \* restarts so far

acmeVars == <<order, task, registered, start, placed, ca, mailbox, solved, replies,
              consent, signing, acmeStops>>

NoOrder == [id |-> 0, status |-> "none"]
Idle == [kind |-> "none", id |-> 0, mail |-> 0, claim |-> 0, at |-> "none"]
Dying == [Idle EXCEPT !.at = "dying"]

Status == <<"waiting_challenge", "processing_challenge", "challenge_replied", "validating",
            "finalizing", "error">>
Rank(s) == CHOOSE n \in DOMAIN Status : Status[n] = s

Poll(i) == [Idle EXCEPT !.kind = "poll", !.id = i, !.at = "sleep"]
Found(i, m) == [Idle EXCEPT !.kind = "found", !.id = i, !.mail = m, !.at = "claims"]
Completion(i, at) == [Idle EXCEPT !.kind = "complete", !.id = i, !.at = at]

(* save_order and the step of a task: the task writes its own copy back.   *)
Write(i, status) == order' = [id |-> i, status |-> status]
Goes(t, at) == task' = [task EXCEPT ![t].at = at]
Ends(t) == task' = [task EXCEPT ![t] = Dying]

(* _register_task: what was registered is cancelled and dies at its next   *)
(* step.                                                                   *)
Cancelled(t) ==
  IF registered # NoTask /\ registered # t /\ task[registered].at # "none"
  THEN [task EXCEPT ![registered] = Dying] ELSE task

external == <<placed, ca, mailbox, solved>>
others == <<start, external, replies, consent, signing, acmeStops>>

-----------------------------------------------------------------------------
AcmeInit ==
  /\ order = NoOrder /\ task = [t \in Slot |-> Idle] /\ registered = NoTask
  /\ start = {} /\ placed = 0
  /\ ca = [i \in OrderId |-> "none"] /\ mailbox = [i \in OrderId |-> 0] /\ solved = {}
  /\ replies = [i \in OrderId |-> 0] /\ consent = TRUE
  /\ signing = [id |-> 0, revoked |-> FALSE] /\ acmeStops = 0

SetConsent(c) ==
  /\ consent' = c
  /\ UNCHANGED <<order, task, registered, start, external, replies, signing, acmeStops>>

(* initiate_acme_order: without the consent nothing happens; the           *)
(* certificate in use is revoked (a refusal is only logged) ...            *)
Begin(s) ==
  /\ consent /\ s \notin start
  /\ s = "page" => order.status # "waiting_challenge"
  /\ start' = start \cup {s} /\ signing' = [signing EXCEPT !.revoked = TRUE]
  /\ UNCHANGED <<order, task, registered, external, replies, consent, acmeStops>>

(* ... and the order placed, or an error ends it.                          *)
PlaceFails(s) ==
  /\ s \in start /\ start' = start \ {s}
  /\ UNCHANGED <<order, task, registered, external, replies, consent, signing, acmeStops>>

(* The order is saved and its poll registered.  The renewal runs in an     *)
(* asyncio.run of its own, which cancels what is left when it returns.     *)
PlaceOrder(s, t) ==
  /\ s \in start /\ placed < MaxOrders /\ task[t] = Idle
  /\ placed' = placed + 1 /\ ca' = [ca EXCEPT ![placed'] = "pending"]
  /\ Write(placed', "waiting_challenge")
  /\ task' = [Cancelled(t) EXCEPT ![t] = IF s = "renewal" THEN Dying ELSE Poll(placed')]
  /\ registered' = t
  /\ start' = start \ {s}
  /\ UNCHANGED <<mailbox, solved, replies, consent, signing, acmeStops>>

(* api_acme_initiate for an order that waits: one more poll, unregistered. *)
PollAgain(t) ==
  /\ order.status = "waiting_challenge" /\ task[t] = Idle
  /\ task' = [task EXCEPT ![t] = Poll(order.id)]
  /\ UNCHANGED <<order, registered, others>>

(* clear_order; also the last step of a completed order.                   *)
ClearOrder ==
  /\ order # NoOrder
  /\ order' = NoOrder /\ registered' = NoTask /\ task' = Cancelled(NoTask)
  /\ UNCHANGED others

(* A task that ends takes whatever is registered out of the register.      *)
TaskDone(t) ==
  /\ task[t].at = "dying"
  /\ task' = [task EXCEPT ![t] = Idle] /\ registered' = NoTask
  /\ UNCHANGED <<order, others>>

-----------------------------------------------------------------------------
(* _poll_mailbox_for_challenge: stops unless the order waits; without the  *)
(* consent it gives the order up; 20 minutes are the limit.                *)
PollWakes(t) ==
  /\ task[t].kind = "poll" /\ task[t].at = "sleep"
  /\ CASE order.status # "waiting_challenge" -> Ends(t) /\ UNCHANGED order
       [] order.status = "waiting_challenge" /\ ~consent -> Ends(t) /\ Write(order.id, "error")
       [] OTHER -> Goes(t, "reads") /\ UNCHANGED order
  /\ UNCHANGED <<registered, others>>

PollTimesOut(t) ==
  /\ task[t].kind = "poll" /\ task[t].at = "sleep" /\ order.status = "waiting_challenge"
  /\ Ends(t) /\ Write(order.id, "error")
  /\ UNCHANGED <<registered, others>>

(* get_pending_order_for_challenge.                                        *)
IsPending == order.status = "waiting_challenge"

(* The mail the poll takes: the newest one since its order was made.       *)
Newest(m, since) ==
  /\ mailbox[m] # 0 /\ mailbox[m] >= since
  /\ \A n \in OrderId : mailbox[n] <= mailbox[m]

(* The mailbox is read: no mail yet, an order that is not pending any      *)
(* more, or a challenge.  Of the order, the poll has what is stored now;   *)
(* the second half of the token it takes from the mail.                    *)
PollReads(t) ==
  /\ task[t].kind = "poll" /\ task[t].at = "reads"
  /\ \/ Goes(t, "sleep")
     \/ \E m \in OrderId :
          /\ Newest(m, task[t].id)
          /\ IF IsPending THEN task' = [task EXCEPT ![t] = Found(order.id, m)] ELSE Ends(t)
  /\ UNCHANGED <<order, registered, others>>

(* handle_DATA sees a challenge mail: it goes on in a task of the SMTP     *)
(* loop, which takes the place of the poll.  Both halves fit only where    *)
(* the mail is the one of the order that waits.                            *)
Intercept(t) ==
  /\ IsPending /\ task[t] = Idle
  /\ \E m \in OrderId :
       /\ mailbox[m] # 0
       /\ task' = [Cancelled(t) EXCEPT ![t] = Found(order.id, IF m = order.id THEN m ELSE 0)]
  /\ registered' = t
  /\ UNCHANGED <<order, others>>

(* Mutant: the claim does not look at the status.                          *)
ClaimAnyway == order # NoOrder

(* handle_challenge_email: a task claims whatever order waits now; that it *)
(* has the copy of another one is not looked at.                           *)
Claim == order.status = "waiting_challenge"

(* Then the answer is sent, unless the consent is missing.                 *)
Claims(t) ==
  /\ task[t].kind = "found" /\ task[t].at = "claims"
  /\ \/ /\ Claim /\ consent
        /\ task' = [task EXCEPT ![t].kind = "answer", ![t].claim = order.id, ![t].at = "sends"]
        /\ Write(order.id, "processing_challenge")
     \/ Claim /\ ~consent /\ Ends(t) /\ Write(task[t].id, "error")
     \/ ~Claim /\ Ends(t) /\ UNCHANGED order
  /\ UNCHANGED <<registered, others>>

(* The answer is sent or not, and the task saves its copy of the order;    *)
(* the rest of the flow is a task of its own, which may take the place of  *)
(* this one when that has ended.                                           *)
AnswerSent(t, u) ==
  /\ task[t].kind = "answer" /\ task[t].at = "sends" /\ (task[u] = Idle \/ u = t)
  /\ replies' = [replies EXCEPT ![task[t].claim] = @ + 1]
  /\ solved' = solved \cup ({task[t].mail} \ {0})
  /\ Write(task[t].id, "challenge_replied")
  /\ task' = [Cancelled(u) EXCEPT ![t] = Dying, ![u] = Completion(task[t].id, "replied")]
  /\ registered' = IF u = t THEN NoTask ELSE u
  /\ UNCHANGED <<start, placed, ca, mailbox, consent, signing, acmeStops>>

AnswerFails(t) ==
  /\ task[t].kind = "answer" /\ task[t].at = "sends"
  /\ Ends(t) /\ Write(task[t].id, "error")
  /\ UNCHANGED <<registered, others>>

(* complete_order_after_challenge: trigger, wait for ready, finalise.      *)
Trigger(t) ==
  /\ task[t].kind = "complete" /\ task[t].at = "replied"
  /\ Goes(t, "validating") /\ Write(task[t].id, "validating")
  /\ ca' = [ca EXCEPT ![task[t].id] = IF @ = "pending" THEN "checking" ELSE @]
  /\ UNCHANGED <<registered, start, placed, mailbox, solved, replies, consent, signing, acmeStops>>

FinalizeOrder(t) ==
  /\ task[t].kind = "complete" /\ task[t].at = "validating" /\ ca[task[t].id] = "ready"
  /\ Goes(t, "finalizing") /\ Write(task[t].id, "finalizing")
  /\ ca' = [ca EXCEPT ![task[t].id] = "valid"]
  /\ UNCHANGED <<registered, start, placed, mailbox, solved, replies, consent, signing, acmeStops>>

(* Any error, an invalid order, the 30 minutes.                            *)
CompletionFails(t) ==
  /\ task[t].kind = "complete" /\ task[t].at # "dying"
  /\ Ends(t) /\ Write(task[t].id, "error")
  /\ UNCHANGED <<registered, others>>

(* store_pem_slot and clear_order, which also takes away an order placed   *)
(* meanwhile and cancels its task.                                         *)
Install(t) ==
  /\ task[t].kind = "complete" /\ task[t].at = "finalizing"
  /\ signing' = [id |-> task[t].id, revoked |-> FALSE]
  /\ order' = NoOrder /\ registered' = NoTask
  /\ task' = [Cancelled(t) EXCEPT ![t] = Dying]
  /\ UNCHANGED <<start, external, replies, consent, acmeStops>>

-----------------------------------------------------------------------------
(* The authority sends the challenge and judges the answer.                *)
Authority(i) ==
  /\ \/ /\ ca[i] = "pending" /\ mailbox[i] = 0
        /\ mailbox' = [mailbox EXCEPT ![i] = placed] /\ UNCHANGED ca
     \/ /\ ca[i] = "checking" /\ UNCHANGED mailbox
        /\ ca' = [ca EXCEPT ![i] = IF i \in solved THEN "ready" ELSE "invalid"]
  /\ UNCHANGED <<order, task, registered, start, placed, solved, replies, consent, signing,
                 acmeStops>>

(* A restart ends all tasks; resume_pending_polls starts those of two      *)
(* states again.                                                           *)
AcmeRestart(t) ==
  /\ acmeStops < MaxStops /\ acmeStops' = acmeStops + 1
  /\ start' = {}
  /\ LET resumed == CASE order.status = "waiting_challenge" -> Poll(order.id)
                      [] order.status = "validating" -> Completion(order.id, "validating")
                      [] OTHER -> Idle
     IN /\ task' = [u \in Slot |-> IF u = t THEN resumed ELSE Idle]
        /\ registered' = IF resumed = Idle THEN NoTask ELSE t
  /\ UNCHANGED <<order, external, replies, consent, signing>>

AcmeTask(t) ==
  \/ PollAgain(t) \/ TaskDone(t) \/ PollWakes(t) \/ PollTimesOut(t) \/ PollReads(t)
  \/ Intercept(t) \/ Claims(t) \/ AnswerFails(t) \/ \E u \in Slot : AnswerSent(t, u)
  \/ Trigger(t) \/ FinalizeOrder(t) \/ CompletionFails(t) \/ Install(t) \/ AcmeRestart(t)
  \/ \E s \in Starter : PlaceOrder(s, t)

AcmeNext ==
  \/ \E c \in BOOLEAN : SetConsent(c)
  \/ \E s \in Starter : Begin(s) \/ PlaceFails(s)
  \/ ClearOrder
  \/ \E i \in OrderId : Authority(i)
  \/ \E t \in Slot : AcmeTask(t)

AcmeSpec == AcmeInit /\ [][AcmeNext]_acmeVars

-----------------------------------------------------------------------------
(* Type correctness.                                                       *)
AcmeTypeOK ==
  /\ order \in [id : OrderId, status : {Status[n] : n \in DOMAIN Status}] \cup {NoOrder}
  /\ task \in [Slot -> [kind : {"none", "poll", "found", "answer", "complete"},
                        id : {0} \cup OrderId, mail : {0} \cup OrderId, claim : {0} \cup OrderId,
                        at : {"none", "sleep", "reads", "claims", "sends", "replied", "validating",
                              "finalizing", "dying"}]]
  /\ registered \in Slot \cup {NoTask}
  /\ start \subseteq Starter
  /\ placed \in 0..MaxOrders /\ mailbox \in [OrderId -> 0..MaxOrders] /\ solved \subseteq OrderId
  /\ ca \in [OrderId -> {"none", "pending", "checking", "ready", "invalid", "valid"}]
  /\ replies \in [OrderId -> Nat] /\ consent \in BOOLEAN
  /\ signing \in [id : {0} \cup OrderId, revoked : BOOLEAN] /\ acmeStops \in 0..MaxStops

(* "the first caller wins" (handle_challenge_email): of all the polls and  *)
(* interceptions that find mail, one gets the order that waits, and for    *)
(* that claim one answer is sent at most, however many restarts and later  *)
(* orders there are.  What it answers may be the challenge of an earlier   *)
(* order, of which the task holds a copy: see Claim.                       *)
AnsweredOnce == \A i \in OrderId : replies[i] <= 1
==================================================================================
