------------------------------- MODULE Delivery -------------------------------
(***************************************************************************)
(* The way back of a mail: reinject.send (app/reinject.py) with the Graph  *)
(* calls and their duplicate filter (app/graph_reinject.py), the IMAP and  *)
(* port-587 gap fillers (app/smtp_submit.py), the queue of held mails      *)
(* (app/held_mails.py), the scheduler's automatic retry (app/scheduler.py) *)
(* and the release in the web interface (app/webui/routen/betrieb.py).     *)
(*                                                                         *)
(* Three threads call reinject.send: the SMTP event loop ("smtp"; send is  *)
(* synchronous, so it handles one transaction at a time), the scheduler    *)
(* ("sched") and a worker of the web interface ("web").  Every network     *)
(* call is a step of its own, so the threads interleave between them.      *)
(*                                                                         *)
(* Time is counted in ticks of one minute, as ages and remaining waits, so *)
(* the state space is finite without a bound on the clock.                 *)
(***************************************************************************)
EXTENDS Naturals, FiniteSets

CONSTANTS
  Mail,             \* logical mails (a Message-ID each)
  Rcpt,             \* recipient addresses
  Fork,             \* SMTP transactions in which Exchange hands mails over
  MailOf,           \* [Fork -> Mail]
  Env,              \* [Fork -> SUBSET Rcpt], the envelope of a transaction
  Hdr,              \* [Mail -> SUBSET Rcpt], the To/Cc header recipients
  Internal,         \* mails whose sender is a known mailbox of the tenant
  Ident,            \* mails whose sender is a sending identity
  NoMid,            \* mails without a Message-ID
  Enc,              \* mails for which encryption was requested
  External,         \* recipients known not to be mailboxes of the tenant
  Target,           \* [Rcpt -> next hop], domain_routing
  Exo,              \* the next hop that is not routed away
  Mode,             \* REINJECT_MODE
  ForkMode,         \* GRAPH_MIXED_FORK_MODE
  SmtpFallback,     \* GRAPH_SMTP_FALLBACK
  FallbackOnError,  \* FALLBACK_ON_ERROR
  Faults,           \* what the environment may do, a subset of AllFaults
  HeldId,           \* identifiers of held mails (uuid4 in the code)
  None,             \* no entry, no job
  MaxHeld,          \* _MAX_HELD
  DedupTtl,         \* _SENDMAIL_DEDUP_SECS in ticks
  ForkTtl,          \* _MIXED_FORK_TTL in ticks
  GlitchCount, TransientCount,            \* _GLITCH_ANZAHL, _TRANSIENT_ANZAHL
  GlitchWait, TransientWait, SteadyWait,  \* the three retry intervals in ticks
  GiveUp,           \* _AUFGABE_NACH_S in ticks
  MaxEvents         \* bound on the restarts and the operator's actions together

AllFaults == {"down", "lost_reply", "refuse", "disk", "torn"}

ASSUME DeliveryAssumption ==
  /\ MailOf \in [Fork -> Mail]
  /\ Env \in [Fork -> SUBSET Rcpt]
  /\ Hdr \in [Mail -> SUBSET Rcpt]
  /\ Internal \subseteq Mail /\ Ident \subseteq Mail
  /\ NoMid \subseteq Mail /\ Enc \subseteq Mail
  /\ External \subseteq Rcpt
  /\ Mode \in {"smtp", "graph", "graph_plus"}
  /\ ForkMode \in {"send_to_all", "scoped"}
  /\ SmtpFallback \in BOOLEAN /\ FallbackOnError \in BOOLEAN
  /\ Faults \subseteq AllFaults
  /\ None \notin HeldId
  /\ MaxHeld \in Nat \ {0}
  /\ DedupTtl \in Nat /\ ForkTtl \in Nat
  /\ GlitchCount \in Nat /\ TransientCount \in Nat
  /\ GlitchWait \in Nat /\ TransientWait \in Nat /\ SteadyWait \in Nat
  /\ GiveUp \in Nat /\ MaxEvents \in Nat

VARIABLES
  exch,       \* [Fork -> state of the transaction on Exchange's side]
  job,        \* [Thread -> the running reinject.send, or None]
  held,       \* [HeldId -> entry of the held-mail directory, or None]
  older,      \* <<i, k>>: the file of held mail i was last written before k's
  due,        \* rest of the list the scheduler's retry run works through
  dedup,      \* _sendmail_dedup: age of each (mail, recipient set) key
  forkReg,    \* _mixed_fork_registry: age of each confirmed send-to-all
  maint,      \* MAINTENANCE_MODE
  events,     \* restarts and actions of the operator so far
  delivered,  \* (mail, recipient) pairs some server accepted
  told,       \* pairs whose sender was told (non-delivery report)
  discarded,  \* pairs an administrator threw away
  gone        \* history: <<pair, cause>> where the code let go of a pair

vars == <<exch, job, held, older, due, dedup, forkReg, maint, events,
          delivered, told, discarded, gone>>

Thread == {"smtp", "sched", "web"}
Cause == {"swallowed", "uncovered", "evicted", "refused", "torn", "unreported"}
Pair == Mail \X Rcpt
PairsOf(m, S) == {m} \X S
Key == Mail \X SUBSET Rcpt

TriesCap == GlitchCount + TransientCount
LongestWait == GlitchWait + TransientWait + SteadyWait

(* Minutes until the next attempt after n failed ones (_abstand_fuer).     *)
Cadence(n) == IF n < GlitchCount THEN GlitchWait
              ELSE IF n < GlitchCount + TransientCount THEN TransientWait
              ELSE SteadyWait

Entry == [mid : Mail, to : SUBSET Rcpt,
          why : {"delivery_failed", "maintenance"},
          tries : 0..TriesCap,
          wait : 0..LongestWait,
          age : 0..GiveUp, over : BOOLEAN, torn : BOOLEAN]

PC == {"route", "as_sender", "fork", "check", "register", "post", "imap",
       "smtp", "hold", "fail", "done", "mark", "write"}
Call == {"ident", "all", "direct", "none"}

Job ==
  {j \in [pc : PC, call : Call, mid : Mail,
          all : SUBSET Rcpt,           \* the recipients send() was called with
          todo : SUBSET Rcpt,          \* not handled yet
          bad : SUBSET Rcpt,           \* failed, not yet handed to _fail_delivery
          fork : Fork \cup {None}, hid : HeldId \cup {None},
          second : BOOLEAN,            \* the handler's FALLBACK_ON_ERROR send
          snap : Entry \cup {None}] :  \* what mark_retry_failed will write
     j.pc = "write" => j.snap # None}

(* The SMTP handler works for a transaction, the others for a held mail.   *)
JobOf(t) ==
  {j \in Job : IF t = "smtp" THEN j.fork \in Fork /\ j.hid = None
               ELSE j.fork = None /\ j.hid \in HeldId}

(* None is neither an entry nor a job.                                     *)
ASSUME NoneAssumption == None \notin Entry /\ None \notin Job

-----------------------------------------------------------------------------
(* Which step of send() comes first, and which follows which.              *)

At(pc, call) == [pc |-> pc, call |-> call]
Goto(j, s) == [j EXCEPT !.pc = s.pc, !.call = s.call]

(* The path of the configured mode, reinject.py from `if mode == "graph"`. *)
PathStage(m) ==
  CASE Mode = "smtp" -> At("smtp", "none")
    [] Mode = "graph" -> At("check", "direct")
    [] Mode = "graph_plus" -> IF m \in Internal THEN At("check", "direct")
                              ELSE At("imap", "none")

(* _handle_mixed_fork applies only with a Message-ID.                      *)
MixedStage(m) ==
  IF ForkMode = "send_to_all" /\ m \notin NoMid THEN At("fork", "none")
  ELSE PathStage(m)

(* The headers name recipients outside the envelope (_is_bifurcated).      *)
Bifurcated(m, S) == Hdr[m] \ S # {}

ForkStage(m, S) ==
  IF Mode # "smtp" /\ m \in Internal /\ Bifurcated(m, S)
  THEN IF Mode = "graph_plus" THEN At("as_sender", "none") ELSE MixedStage(m)
  ELSE PathStage(m)

SendStage(m, S) ==
  IF m \in Ident THEN At("check", "ident") ELSE ForkStage(m, S)

(* Domain routing splits recipients off first, in smtp mode only.          *)
StartStage(m, S) ==
  IF Mode = "smtp" /\ \E r \in S : Target[r] # Exo THEN At("route", "none")
  ELSE IF S = {} THEN At("done", "none")
  ELSE SendStage(m, S)

NewJob(m, S, f, h, sec) ==
  [pc |-> StartStage(m, S).pc, call |-> StartStage(m, S).call, mid |-> m,
   all |-> S, todo |-> S, bad |-> {}, fork |-> f, hid |-> h,
   second |-> sec, snap |-> None]

(* The recipients of the Graph call a job is in: send-to-all widens to the *)
(* header recipients (_header_recipients), every other call keeps todo.    *)
Dest(j) == IF j.call = "all" THEN Hdr[j.mid] ELSE j.todo

-----------------------------------------------------------------------------
(* Outcomes of one call to a server: who got the mail, and whether the     *)
(* caller sees success.  smtplib's dictionary of refused recipients is     *)
(* ignored by every caller, so a partial refusal counts as success.        *)

Outcome(S) == [got : SUBSET S, ok : BOOLEAN]

SmtpOutcome(S) ==
  {o \in Outcome(S) :
     \/ o.ok /\ o.got = S
     \/ o.ok /\ o.got # {} /\ "refuse" \in Faults
     \/ ~o.ok /\ o.got = {} /\ "down" \in Faults
     \/ ~o.ok /\ o.got = S /\ "lost_reply" \in Faults}

(* For an external sender Graph answers ErrorInvalidUser and the mail is   *)
(* injected recipient by recipient, which may succeed for some only.       *)
GraphOutcome(m, S) ==
  {o \in Outcome(S) :
     \/ o.ok /\ o.got = S
     \/ o.ok /\ o.got # {} /\ m \notin Internal /\ "refuse" \in Faults
     \/ ~o.ok /\ o.got = {} /\ "down" \in Faults
     \/ ~o.ok /\ m \notin Internal /\ "down" \in Faults
     \/ ~o.ok /\ o.got = S /\ "lost_reply" \in Faults}

(* The pairs of S that nobody delivered, noted with a cause.               *)
Note(m, S, cause) == (PairsOf(m, S) \ delivered) \X {cause}

-----------------------------------------------------------------------------
(* The directory of held mails.                                            *)

Files == {id \in HeldId : held[id] # None}
Without(id) == {p \in older : p[1] # id /\ p[2] # id}

(* What due_for_retry and get_raw can parse.                               *)
Readable(id) == held[id] # None /\ ~held[id].torn

NewEntry(m, S, why) ==
  [mid |-> m, to |-> S, why |-> why, tries |-> 0,
   wait |-> IF why = "delivery_failed" THEN Cadence(0) ELSE 0,
   age |-> 0, over |-> FALSE, torn |-> FALSE]

(* uuid4: a fresh name is none that a file, a list or a job still mentions. *)
InUse == Files \cup due \cup {job[t].hid : t \in {u \in Thread : job[u] # None}}

(* held_mails.hold first drops the least recently written files until one  *)
(* more fits below the cap: those with MaxHeld or more files not older.    *)
Evicted == {id \in Files :
              Cardinality({k \in Files : <<k, id>> \notin older}) >= MaxHeld}
Lost == UNION {Note(held[id].mid, held[id].to, "evicted") : id \in Evicted}
Kept == [id \in HeldId |-> IF id \in Evicted THEN None ELSE held[id]]
OlderKept == {p \in older : p[1] \notin Evicted /\ p[2] \notin Evicted}

WriteNew(id, e) ==
  /\ held' = [Kept EXCEPT ![id] = e]
  /\ older' = OlderKept \cup ((Files \ Evicted) \X {id})

Hold(m, S, why) ==
  \E id \in HeldId \ InUse : WriteNew(id, NewEntry(m, S, why))

(* The disk is full: room was made, and the write leaves half a file or none. *)
HoldFails(m, S, why) ==
  /\ "disk" \in Faults
  /\ \/ held' = Kept /\ older' = OlderKept
     \/ \E id \in HeldId \ InUse :
          WriteNew(id, [NewEntry(m, S, why) EXCEPT !.torn = TRUE])

(* held_mails.delete.                                                      *)
Remove(id) ==
  /\ held' = [held EXCEPT ![id] = None]
  /\ older' = Without(id)

(* Mutant: due_for_retry forgets to look at the reason.                    *)
IsDueForAnyReason(e) == e # None /\ ~e.torn /\ ~e.over /\ e.wait = 0

(* Mutant: an entry is due before its time, and never after.               *)
IsDueEarly(e) == e # None /\ ~e.torn /\ e.why = "delivery_failed" /\ ~e.over /\ e.wait > 0

(* due_for_retry: failed deliveries whose time has come.                   *)
IsDue(e) == e # None /\ ~e.torn /\ e.why = "delivery_failed" /\ ~e.over /\ e.wait = 0
Due == {id \in HeldId : IsDue(held[id])}

(* mark_retry_failed: count, and plan the next attempt or give up.         *)
Failed(e) ==
  LET n == IF e.tries < TriesCap THEN e.tries + 1 ELSE TriesCap IN
  [e EXCEPT !.tries = n, !.over = e.age >= GiveUp,
            !.wait = IF e.age >= GiveUp THEN 0 ELSE Cadence(n)]

-----------------------------------------------------------------------------
Init ==
  /\ exch = [f \in Fork |-> "queued"]
  /\ job = [t \in Thread |-> None]
  /\ held = [id \in HeldId |-> None]
  /\ older = {}
  /\ due = {}
  /\ dedup = [k \in Key |-> DedupTtl + 1]
  /\ forkReg = [m \in Mail |-> ForkTtl + 1]
  /\ maint \in BOOLEAN
  /\ events = 0
  /\ delivered = {} /\ told = {} /\ discarded = {} /\ gone = {}

bookkeeping == <<maint, events, told, discarded>>

(* One more restart or action of the operator, within the bound.           *)
Event == events < MaxEvents /\ events' = events + 1
memory == <<due, dedup, forkReg>>
store == <<held, older>>

SetJob(t, j) == job' = [job EXCEPT ![t] = j]

(* A server accepted mail m for the recipients S.                          *)
Deliver(m, S) == delivered' = delivered \cup PairsOf(m, S)

outcome == delivered

(* Exchange hands a transaction over; the handler decides between the      *)
(* maintenance queue and send().                                           *)
Accept(f) ==
  /\ exch[f] = "queued" /\ job["smtp"] = None
  /\ exch' = [exch EXCEPT ![f] = "busy"]
  /\ LET j == NewJob(MailOf[f], Env[f], f, None, FALSE) IN
     SetJob("smtp", IF maint THEN Goto(j, At("hold", "none")) ELSE j)
  /\ UNCHANGED <<store, memory, bookkeeping, outcome, gone>>

(* send() or hold() raises.  The SMTP handler reports an encrypted mail as *)
(* failed (_send_ndr only logs when it cannot), or sends the original once *)
(* more, or answers 451; the scheduler goes on to mark_retry_failed; the   *)
(* release in the web interface reports 500.                               *)
Raise(t, lost) ==
  LET j == job[t] IN
  \/ /\ t = "smtp" /\ j.mid \in Enc
     /\ SetJob(t, None)
     /\ exch' = [exch EXCEPT ![j.fork] = "taken"]
     /\ \/ /\ told' = told \cup PairsOf(j.mid, j.all)
           /\ gone' = gone \cup lost
        \/ /\ "down" \in Faults
           /\ gone' = gone \cup lost \cup Note(j.mid, j.all, "unreported")
           /\ UNCHANGED told
  \/ /\ ~(t = "smtp" /\ j.mid \in Enc)
     /\ gone' = gone \cup lost
     /\ UNCHANGED told
     /\ \/ /\ t = "smtp" /\ FallbackOnError /\ ~j.second
           /\ SetJob(t, NewJob(j.mid, j.all, j.fork, None, TRUE))
           /\ UNCHANGED exch
        \/ /\ t = "smtp" /\ (~FallbackOnError \/ j.second)
           /\ SetJob(t, None)
           /\ exch' = [exch EXCEPT ![j.fork] = "queued"]
        \/ /\ t = "sched"
           /\ SetJob(t, Goto(j, At("mark", "none")))
           /\ UNCHANGED exch
        \/ /\ t = "web"
           /\ SetJob(t, None)
           /\ UNCHANGED exch

(* Mutant: the loop over the next hops goes on after a failed one without  *)
(* _fail_delivery.                                                         *)
TransferOrSkip(t, S) ==
  LET j == job[t]
      rest == [j EXCEPT !.todo = @ \ S] IN
  \E o \in SmtpOutcome(S) :
    /\ Deliver(j.mid, o.got)
    /\ gone' = gone \cup (IF o.ok THEN Note(j.mid, S \ o.got, "refused") ELSE {})
    /\ SetJob(t, Goto(rest, StartStage(j.mid, rest.todo)))
    /\ UNCHANGED <<exch, store, memory, bookkeeping>>

(* One SMTP session that carries the recipients S of job j; on failure     *)
(* they go to _fail_delivery, and what is left of todo continues later.    *)
Transfer(t, S) ==
  LET j == job[t]
      rest == [j EXCEPT !.todo = @ \ S] IN
  \E o \in SmtpOutcome(S) :
    /\ Deliver(j.mid, o.got)
    /\ gone' = gone \cup (IF o.ok THEN Note(j.mid, S \ o.got, "refused") ELSE {})
    /\ SetJob(t, IF o.ok THEN Goto(rest, StartStage(j.mid, rest.todo))
                 ELSE Goto([rest EXCEPT !.bad = S], At("fail", "none")))
    /\ UNCHANGED <<exch, store, memory, bookkeeping>>

(* _relay_to_target for one routed next hop.                               *)
RelayGroup(t) ==
  /\ job[t] # None /\ job[t].pc = "route"
  /\ \E z \in {Target[r] : r \in job[t].todo} \ {Exo} :
       Transfer(t, {r \in job[t].todo : Target[r] = z})

(* _send_smtp: the smarthost takes everything that is left.                *)
SmtpSend(t) ==
  /\ job[t] # None /\ job[t].pc = "smtp"
  /\ Transfer(t, job[t].todo)

(* deliver_outbound_as_sender: port 587 as the sender, before send-to-all. *)
AsSender(t) ==
  /\ job[t] # None /\ job[t].pc = "as_sender"
  /\ LET j == job[t] IN
     \E o \in SmtpOutcome(j.todo) :
       /\ Deliver(j.mid, o.got)
       /\ gone' = gone \cup (IF o.ok THEN Note(j.mid, j.todo \ o.got, "refused") ELSE {})
       /\ SetJob(t, IF o.ok THEN Goto([j EXCEPT !.todo = {}], At("done", "none"))
                    ELSE Goto(j, MixedStage(j.mid)))
  /\ UNCHANGED <<exch, store, memory, bookkeeping>>

(* _handle_mixed_fork, the registry: a confirmed send-to-all of a sibling  *)
(* means this transaction is dropped.                                      *)
ForkCheck(t) ==
  /\ job[t] # None /\ job[t].pc = "fork"
  /\ LET j == job[t] IN
     \/ /\ forkReg[j.mid] <= ForkTtl
        /\ gone' = gone \cup Note(j.mid, j.todo, "uncovered")
        /\ SetJob(t, Goto([j EXCEPT !.todo = {}], At("done", "none")))
     \/ /\ forkReg[j.mid] > ForkTtl
        /\ SetJob(t, Goto(j, At("check", "all")))
        /\ UNCHANGED gone
  /\ UNCHANGED <<exch, store, memory, bookkeeping, outcome>>

(* A Graph call returned False: the next way in the order of send().       *)
GraphFalse(j) ==
  CASE j.call = "ident" -> Goto(j, ForkStage(j.mid, j.todo))
    [] j.call = "all" -> Goto(j, PathStage(j.mid))
    [] j.call = "direct" /\ Mode = "graph" /\ SmtpFallback -> Goto(j, At("smtp", "none"))
    [] j.call = "direct" /\ Mode = "graph_plus" /\ j.mid \in Internal ->
         Goto(j, At("imap", "none"))
    [] OTHER -> Goto([j EXCEPT !.bad = j.todo, !.todo = {}], At("fail", "none"))

(* A Graph call returned True; a send-to-all is confirmed in the registry. *)
GraphTrue(t, j) ==
  /\ SetJob(t, Goto([j EXCEPT !.todo = {}], At("done", "none")))
  /\ forkReg' = IF j.call = "all" THEN [forkReg EXCEPT ![j.mid] = 0] ELSE forkReg

(* What a Graph call that reports success leaves behind: recipients of the *)
(* call that got nothing, and recipients of the job it was never sent to.  *)
Left(j, S, cause) == Note(j.mid, S, cause) \cup Note(j.mid, j.todo \ Dest(j), "uncovered")

(* send_via_graph(_mime) up to the duplicate filter.  A known key answers  *)
(* True without sending.                                                   *)
GraphCheck(t) ==
  /\ job[t] # None /\ job[t].pc = "check"
  /\ LET j == job[t]
         known == j.mid \notin NoMid /\ dedup[<<j.mid, Dest(j)>>] <= DedupTtl IN
     \/ /\ "down" \in Faults                       \* no token
        /\ SetJob(t, GraphFalse(j))
        /\ UNCHANGED <<gone, forkReg>>
     \/ /\ known
        /\ gone' = gone \cup Left(j, Dest(j), "swallowed")
        /\ GraphTrue(t, j)
     \/ /\ ~known
        /\ SetJob(t, Goto(j, At(IF j.mid \in NoMid THEN "post" ELSE "register", j.call)))
        /\ UNCHANGED <<gone, forkReg>>
  /\ UNCHANGED <<exch, store, due, dedup, bookkeeping, outcome>>

(* The filter has no lock: another thread may have passed it meanwhile.    *)
GraphRegister(t) ==
  /\ job[t] # None /\ job[t].pc = "register"
  /\ dedup' = [dedup EXCEPT ![<<job[t].mid, Dest(job[t])>>] = 0]
  /\ SetJob(t, Goto(job[t], At("post", job[t].call)))
  /\ UNCHANGED <<exch, store, due, forkReg, bookkeeping, outcome, gone>>

(* The POST, and the chain of fallbacks for an external sender.            *)
GraphPost(t) ==
  /\ job[t] # None /\ job[t].pc = "post"
  /\ LET j == job[t] IN
     \E o \in GraphOutcome(j.mid, Dest(j)) :
       /\ Deliver(j.mid, o.got)
       /\ \/ /\ o.ok
             /\ gone' = gone \cup Left(j, Dest(j) \ o.got, "refused")
             /\ GraphTrue(t, j)
          \/ /\ ~o.ok
             /\ SetJob(t, GraphFalse(j))
             /\ UNCHANGED <<gone, forkReg>>
  /\ UNCHANGED <<exch, store, due, dedup, bookkeeping>>

(* Mutant: a recipient outside the tenant is skipped, not counted as failed. *)
ImapSkipsExternal(t) ==
  /\ job[t] # None /\ job[t].pc = "imap"
  /\ LET j == job[t] IN
     \E r \in j.todo, ok \in BOOLEAN :
       /\ ok => r \notin External
       /\ ~ok => r \in External \/ "down" \in Faults
       /\ Deliver(j.mid, IF ok THEN {r} ELSE {})
       /\ LET todo == j.todo \ {r}
              bad == IF ok \/ r \in External THEN j.bad ELSE j.bad \cup {r}
              k == [j EXCEPT !.todo = todo, !.bad = bad] IN
          SetJob(t, IF todo # {} THEN k
                    ELSE IF bad = {} THEN Goto(k, At("done", "none"))
                    ELSE Goto(k, At("fail", "none")))
  /\ UNCHANGED <<exch, store, memory, bookkeeping, gone>>

(* deliver_inbound_imap for one recipient; a recipient known to be outside *)
(* the tenant is skipped.  After the last one: done, or Graph for those    *)
(* that failed (external sender), or _fail_delivery (sender of the tenant, *)
(* for whom Graph was tried first).                                        *)
ImapAppend(t) ==
  /\ job[t] # None /\ job[t].pc = "imap"
  /\ LET j == job[t] IN
     \E r \in j.todo, ok \in BOOLEAN, got \in BOOLEAN :
       /\ ok => got /\ r \notin External
       /\ ~ok /\ ~got => r \in External \/ "down" \in Faults
       /\ ~ok /\ got => r \notin External /\ "lost_reply" \in Faults
       /\ Deliver(j.mid, IF got THEN {r} ELSE {})
       /\ LET todo == j.todo \ {r}
              bad == IF ok THEN j.bad ELSE j.bad \cup {r}
              k == [j EXCEPT !.todo = todo, !.bad = bad] IN
          SetJob(t, IF todo # {} THEN k
                    ELSE IF bad = {} THEN Goto(k, At("done", "none"))
                    ELSE IF j.mid \in Internal THEN Goto(k, At("fail", "none"))
                    ELSE Goto([k EXCEPT !.todo = bad, !.bad = {}], At("check", "direct")))
  /\ UNCHANGED <<exch, store, memory, bookkeeping, gone>>

(* Mutant: a failed retry returns to its caller instead of raising.        *)
FailQuietly(t) ==
  /\ job[t] # None /\ job[t].pc = "fail"
  /\ LET j == job[t] IN
     /\ IF t = "smtp" THEN Hold(j.mid, j.bad, "delivery_failed") /\ gone' = gone \cup Lost
        ELSE UNCHANGED <<store, gone>>
     /\ SetJob(t, Goto([j EXCEPT !.bad = {}], StartStage(j.mid, j.todo)))
  /\ UNCHANGED <<exch, told, memory, maint, events, discarded, outcome>>

(* _fail_delivery: the automatic way queues the mail and goes on, a retry  *)
(* raises.  hold itself may fail, which raises as well.                    *)
FailDelivery(t) ==
  /\ job[t] # None /\ job[t].pc = "fail"
  /\ LET j == job[t] IN
     \/ /\ t = "smtp"
        /\ Hold(j.mid, j.bad, "delivery_failed")
        /\ gone' = gone \cup Lost
        /\ SetJob(t, Goto([j EXCEPT !.bad = {}], StartStage(j.mid, j.todo)))
        /\ UNCHANGED <<exch, told>>
     \/ /\ t = "smtp" /\ HoldFails(j.mid, j.bad, "delivery_failed")
        /\ Raise(t, Lost)
     \/ /\ t # "smtp" /\ Raise(t, {})
        /\ UNCHANGED store
  /\ UNCHANGED <<memory, maint, events, discarded, outcome>>

(* MAINTENANCE_MODE: hold instead of send.                                 *)
MaintenanceHold(t) ==
  /\ t = "smtp" /\ job[t] # None /\ job[t].pc = "hold"
  /\ LET j == job[t] IN
     \/ /\ Hold(j.mid, j.todo, "maintenance")
        /\ gone' = gone \cup Lost
        /\ SetJob(t, Goto([j EXCEPT !.todo = {}], At("done", "none")))
        /\ UNCHANGED <<exch, told>>
     \/ /\ HoldFails(j.mid, j.todo, "maintenance")
        /\ Raise(t, Lost)
  /\ UNCHANGED <<memory, maint, events, discarded, outcome>>

(* send() returned: 250 to Exchange, or the held mail's file is deleted.   *)
Finish(t) ==
  /\ job[t] # None /\ job[t].pc = "done"
  /\ SetJob(t, None)
  /\ \/ /\ t = "smtp"
        /\ exch' = [exch EXCEPT ![job[t].fork] = "taken"]
        /\ UNCHANGED store
     \/ /\ t # "smtp"
        /\ Remove(job[t].hid)
        /\ UNCHANGED exch
  /\ UNCHANGED <<memory, bookkeeping, outcome, gone>>

-----------------------------------------------------------------------------
(* The scheduler's retry run and the web interface.                        *)

(* due_for_retry is evaluated once, before the loop.                       *)
SchedScan ==
  /\ job["sched"] = None /\ due = {} /\ Due # {}
  /\ due' = Due
  /\ UNCHANGED <<exch, job, store, dedup, forkReg, bookkeeping, outcome, gone>>

(* get_raw, then send(queue_on_failure=False); a vanished mail is skipped. *)
SchedTake(id) ==
  /\ job["sched"] = None /\ id \in due
  /\ due' = due \ {id}
  /\ IF Readable(id)
     THEN SetJob("sched", NewJob(held[id].mid, held[id].to, None, id, FALSE))
     ELSE UNCHANGED job
  /\ UNCHANGED <<exch, store, dedup, forkReg, bookkeeping, outcome, gone>>

(* Mutant: no early return when the file has vanished meanwhile.           *)
MarkAnyway ==
  /\ job["sched"] # None /\ job["sched"].pc = "mark"
  /\ LET j == job["sched"] IN
     SetJob("sched", IF Readable(j.hid)
                     THEN Goto([j EXCEPT !.snap = Failed(held[j.hid])], At("write", "none"))
                     ELSE Goto(j, At("write", "none")))
  /\ UNCHANGED <<exch, store, memory, bookkeeping, outcome, gone>>

(* mark_retry_failed reads the file ...                                    *)
MarkRead ==
  /\ job["sched"] # None /\ job["sched"].pc = "mark"
  /\ LET j == job["sched"] IN
     SetJob("sched", IF Readable(j.hid)
                     THEN Goto([j EXCEPT !.snap = Failed(held[j.hid])], At("write", "none"))
                     ELSE None)
  /\ UNCHANGED <<exch, store, memory, bookkeeping, outcome, gone>>

(* ... and writes it back, which recreates a file deleted in between.  The *)
(* write truncates first: if it fails half-way the only copy is lost, and  *)
(* the exception ends the run over the due mails.                          *)
MarkWrite ==
  /\ job["sched"] # None /\ job["sched"].pc = "write"
  /\ LET j == job["sched"] IN
     /\ older' = Without(j.hid) \cup ((Files \ {j.hid}) \X {j.hid})
     /\ \/ /\ held' = [held EXCEPT ![j.hid] = j.snap]
           /\ UNCHANGED <<due, gone>>
        \/ /\ "torn" \in Faults
           /\ held' = [held EXCEPT ![j.hid] = [j.snap EXCEPT !.torn = TRUE]]
           /\ gone' = gone \cup Note(j.mid, j.all, "torn")
           /\ due' = {}
  /\ SetJob("sched", None)
  /\ UNCHANGED <<exch, dedup, forkReg, bookkeeping, outcome>>

(* api_held_mail_release.                                                  *)
Release(id) ==
  /\ Event
  /\ job["web"] = None /\ Readable(id)
  /\ SetJob("web", NewJob(held[id].mid, held[id].to, None, id, FALSE))
  /\ UNCHANGED <<exch, store, memory, maint, told, discarded, outcome, gone>>

(* api_held_mail_delete.                                                   *)
Discard(id) ==
  /\ Event
  /\ Readable(id)
  /\ Remove(id)
  /\ discarded' = discarded \cup PairsOf(held[id].mid, held[id].to)
  /\ UNCHANGED <<exch, job, memory, maint, told, outcome, gone>>

(* api_set_maintenance_mode.                                               *)
SetMaintenance ==
  /\ Event
  /\ maint' = ~maint
  /\ UNCHANGED <<exch, job, store, memory, outcome, told, discarded, gone>>

(* The process restarts (api_restart, update, crash): Exchange keeps every *)
(* transaction it has no 250 for; only the held mails are on disk.         *)
Restart ==
  /\ Event
  /\ exch' = [f \in Fork |-> IF exch[f] = "busy" THEN "queued" ELSE exch[f]]
  /\ job' = [t \in Thread |-> None]
  /\ due' = {}
  /\ dedup' = [k \in Key |-> DedupTtl + 1]
  /\ forkReg' = [m \in Mail |-> ForkTtl + 1]
  /\ UNCHANGED <<store, maint, outcome, told, discarded, gone>>

Aged(a, top) == IF a < top THEN a + 1 ELSE a

(* A minute passes.                                                        *)
Tick ==
  /\ dedup' = [k \in Key |-> Aged(dedup[k], DedupTtl + 1)]
  /\ forkReg' = [m \in Mail |-> Aged(forkReg[m], ForkTtl + 1)]
  /\ held' = [id \in HeldId |->
                IF held[id] = None THEN None
                ELSE [held[id] EXCEPT !.age = Aged(@, GiveUp),
                                      !.wait = IF @ > 0 THEN @ - 1 ELSE 0]]
  /\ <<dedup', forkReg', held'>> # <<dedup, forkReg, held>>
  /\ UNCHANGED <<exch, job, older, due, bookkeeping, outcome, gone>>

Step(t) ==
  \/ RelayGroup(t) \/ SmtpSend(t) \/ AsSender(t) \/ ForkCheck(t)
  \/ GraphCheck(t) \/ GraphRegister(t) \/ GraphPost(t) \/ ImapAppend(t)
  \/ FailDelivery(t) \/ MaintenanceHold(t) \/ Finish(t)

Next ==
  \/ \E f \in Fork : Accept(f)
  \/ \E t \in Thread : Step(t)
  \/ SchedScan \/ MarkRead \/ MarkWrite
  \/ \E id \in HeldId : SchedTake(id) \/ Release(id) \/ Discard(id)
  \/ SetMaintenance \/ Restart \/ Tick

Spec == Init /\ [][Next]_vars

(* The threads keep running and the clock keeps going; Exchange offers a   *)
(* transaction again until it gets a 250.  The operator owes nothing.      *)
SchedulerRun == SchedScan \/ (\E id \in HeldId : SchedTake(id)) \/ MarkRead \/ MarkWrite

FairSpec ==
  /\ Spec
  /\ \A f \in Fork : SF_vars(Accept(f))
  /\ \A t \in Thread : WF_vars(Step(t))
  /\ WF_vars(SchedulerRun)
  /\ WF_vars(Tick)

-----------------------------------------------------------------------------
(* Type correctness: queue entries, jobs and ages stay in their ranges, so *)
(* no step of a thread leaves a job in a stage its path does not have.     *)
JobTypeOK ==
  /\ job \in [Thread -> Job \cup {None}]
  /\ \A t \in Thread : job[t] \in JobOf(t) \cup {None}

TypeOK ==
  /\ exch \in [Fork -> {"queued", "busy", "taken"}]
  /\ JobTypeOK
  /\ held \in [HeldId -> Entry \cup {None}]
  /\ older \subseteq HeldId \X HeldId
  /\ due \subseteq HeldId
  /\ dedup \in [Key -> 0..(DedupTtl + 1)]
  /\ forkReg \in [Mail -> 0..(ForkTtl + 1)]
  /\ maint \in BOOLEAN
  /\ events \in 0..MaxEvents
  /\ delivered \subseteq Pair /\ told \subseteq Pair /\ discarded \subseteq Pair
  /\ gone \subseteq Pair \X Cause

Sent == {p \in Pair : \E f \in Fork : MailOf[f] = p[1] /\ p[2] \in Env[f]}
InExchange(p) == \E f \in Fork : MailOf[f] = p[1] /\ p[2] \in Env[f] /\ exch[f] # "taken"
InQueue(p) == \E id \in HeldId : /\ Readable(id)
                                  /\ p \in PairsOf(held[id].mid, held[id].to)
Settled(p) == p \in delivered \cup told \cup discarded
Explained(p) == \E c \in Cause : <<p, c>> \in gone

(* No mail is lost: once Exchange has its 250, a recipient has the mail,   *)
(* the mail waits in the queue for them, the sender was told, or an        *)
(* administrator threw it away (the safety net of _fail_delivery).         *)
NothingLost == \A p \in Sent : InExchange(p) \/ InQueue(p) \/ Settled(p)

(* What holds of this code whatever the mode and the faults: a recipient   *)
(* loses a mail only where the code itself lets go of it, in one of six    *)
(* places - the duplicate filter answers for a send that failed, a         *)
(* send-to-all does not name the recipient, the full queue drops its       *)
(* oldest entry, a server refuses one of several recipients, the rewrite   *)
(* of a queue file fails half-way, or a non-delivery report fails.         *)
LossExplained ==
  \A p \in Sent : InExchange(p) \/ InQueue(p) \/ Settled(p) \/ Explained(p)

Safe(p) == InQueue(p) \/ Settled(p) \/ Explained(p)

(* What a running send() owes: every recipient it has neither handled nor  *)
(* put aside is safe - in the queue counts only for the automatic way, a   *)
(* retry is about to delete the queue entry - and its held mail still is   *)
(* the mail it was started with.                                           *)
JobLedger(t, j) ==
  /\ j.pc = "done" => j.todo = {}
  /\ j.pc \notin {"imap", "fail", "mark", "write"} => j.bad = {}
  /\ \A r \in j.all \ (j.todo \cup j.bad) :
       \/ Settled(<<j.mid, r>>) \/ Explained(<<j.mid, r>>)
       \/ t = "smtp" /\ InQueue(<<j.mid, r>>)
  /\ t = "smtp" => j.mid = MailOf[j.fork] /\ j.all = Env[j.fork]
  /\ t # "smtp" /\ held[j.hid] # None =>
       held[j.hid].mid = j.mid /\ held[j.hid].to = j.all
  /\ j.pc = "write" => j.snap.mid = j.mid /\ j.snap.to = j.all /\ ~j.snap.torn

(* The scheduler and the web interface may work on the same held mail, but *)
(* then it is the same mail.                                               *)
SameMail ==
  LET s == job["sched"]
      w == job["web"] IN
  s # None /\ w # None /\ s.hid = w.hid => s.mid = w.mid /\ s.all = w.all

(* The inductive form of LossExplained.                                    *)
Ledger ==
  /\ LossExplained /\ SameMail
  /\ \A t \in Thread : job[t] # None => JobLedger(t, job[t])

(* A held mail nobody but the operator will touch.                         *)
WithOperator(p) ==
  \E id \in HeldId : /\ Readable(id) /\ p \in PairsOf(held[id].mid, held[id].to)
                     /\ held[id].why = "maintenance" \/ held[id].over

(* Nothing is retried for ever and nothing is forgotten: every recipient's *)
(* copy is in the end delivered, reported, discarded, lost in one of the   *)
(* ways above, or left to the operator by the two-day limit.               *)
EveryMailResolved ==
  \A p \in Sent : <>(Settled(p) \/ Explained(p) \/ WithOperator(p))

(* The scheduler works only on mails that wait for an automatic retry: a   *)
(* mail held for maintenance or given up after two days is left to the     *)
(* operator, although the list of due mails is older than the attempt and  *)
(* the operator may release or delete mails while the run goes on.         *)
RetryLeavesOperatorsMail ==
  job["sched"] # None =>
    LET e == held[job["sched"].hid] IN e # None => e.why = "delivery_failed" /\ ~e.over

(* Who is responsible for a copy, for the abstract specification.          *)
Place(p) ==
  CASE p \in delivered -> "delivered"
    [] p \in discarded \ delivered -> "discarded"
    [] p \in told \ (delivered \cup discarded) -> "told"
    [] ~Settled(p) /\ InExchange(p) -> "exchange"
    [] ~Settled(p) /\ ~InExchange(p) /\ InQueue(p) -> "gateway"
    [] OTHER -> "nobody"

Promise == INSTANCE Custody WITH Copy <- Sent, at <- [p \in Sent |-> Place(p)]

(* The delivery machinery keeps the promise of Custody: no interleaving of *)
(* the three threads, of server failures, restarts and the operator's      *)
(* actions moves a copy outside its legal moves.                           *)
CustodyKept == Promise!Spec
================================================================================
