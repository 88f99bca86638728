------------------------------ MODULE HubOrders ------------------------------
(***************************************************************************)
(* Certificates ordered through the operator's hub (hub_orders.py,         *)
(* ca_backends/hub_provider.py, the consent of einwilligung.py and the     *)
(* routes that start and collect orders).                                  *)
(*                                                                         *)
(* The private key is made here and never leaves; between the order and    *)
(* the certificate lie hours, so the key is written next to a small JSON   *)
(* file that makes the order visible to the pollers.  Two pollers exist:   *)
(* the scheduler's thread, which first presses the confirmation link, and  *)
(* the "fetch now" button in the web process.  Without the mailbox owner's *)
(* consent nothing is ordered; who is asked gets a mail with a link that   *)
(* works once and starts the order.                                        *)
(***************************************************************************)
EXTENDS Naturals, FiniteSets

CONSTANTS HubMailbox,       \* mailboxes certificates are ordered for
          MaxHubOrders,     \* bound on the orders sent to the hub
          MaxHubCrashes,    \* bound on crashes of the process
          MaxAsked          \* bound on consent mails

ASSUME HubAssumption ==
    MaxHubOrders \in Nat /\ MaxHubCrashes \in Nat /\ MaxAsked \in Nat

Scheduler == "scheduler"
Web == "web"
Poller == {Scheduler, Web}
HubOrder == 1..MaxHubOrders
NoHubOrder == 0

VARIABLES
    hubTable,     \* [HubOrder -> where the order stands at the hub]
    whose,        \* [HubOrder -> mailbox], set when the order is sent
    ordering,     \* [HubOrder -> how far initiate_renewal is]
    files,        \* [HubOrder -> SUBSET {"key", "json"}], data/hub_orders
    noted,        \* orders whose JSON holds bestaetigt_am
    slots,        \* orders whose certificate and key are in smime_store
    round,        \* [Poller -> the round it is in]
    consented,    \* mailboxes with a valid consent
    links,        \* mailboxes with an open consent request
    answering,    \* [mailbox -> requests that have read the open link]
    asks, yeses,  \* [mailbox -> consent mails], [mailbox -> orders they began]
    stranded,     \* orders whose key died with the answer or the process
    hubCrashes

hubVars == <<hubTable, whose, ordering, files, noted, slots, round, consented,
             links, answering, asks, yeses, stranded, hubCrashes>>

Resting == [stage |-> "rest", left |-> {}, at |-> NoHubOrder, answer |-> "none"]

HubInit ==
    /\ hubTable = [o \in HubOrder |-> "none"]
    /\ whose \in [HubOrder -> HubMailbox]
    /\ ordering = [o \in HubOrder |-> "no"]
    /\ files = [o \in HubOrder |-> {}]
    /\ noted = {} /\ slots = {} /\ stranded = {}
    /\ round = [p \in Poller |-> Resting]
    /\ consented = {} /\ links = {}
    /\ answering = [m \in HubMailbox |-> 0]
    /\ asks = [m \in HubMailbox |-> 0]
    /\ yeses = [m \in HubMailbox |-> 0]
    /\ hubCrashes = 0

(***************************************************************************)
(* Consent                                                                 *)
(***************************************************************************)

consentVars == <<consented, links, answering, asks, yeses>>
orderVars == <<hubTable, whose, ordering, files, noted, slots, round,
                 stranded, hubCrashes>>

\* anfrage_erstellen
Opened(m) == links \cup {m}

\* anfrage_senden: the background asks only where no valid request is open,
\* the button ("erneut") always; the newer request replaces the older one.
AskOwner(m) ==
    /\ asks[m] < MaxAsked
    /\ asks' = [asks EXCEPT ![m] = @ + 1]
    /\ links' = Opened(m)
    /\ answering' = [answering EXCEPT ![m] = 0]
    /\ UNCHANGED <<consented, yeses, orderVars>>

\* einwilligung_antwort, anfrage_lesen: the link is read before it is used.
ReadLink(m) ==
    /\ m \in links /\ answering[m] < 2
    /\ answering' = [answering EXCEPT ![m] = @ + 1]
    /\ UNCHANGED <<consented, links, asks, yeses, orderVars>>

\* anfrage_beantworten pops the request under the lock: only the first answer
\* finds it.
Redeemed(m) == m \in links
SpentNever(m) == links           \* mutant: the request is read, not popped
Spent(m) == links \ {m}

SendOrder(o, m) ==
    /\ ordering[o] = "no" /\ \A q \in 1..(o - 1) : ordering[q] # "no"
    /\ whose[o] = m /\ m \in consented'
    /\ ordering' = [ordering EXCEPT ![o] = "sent"]

SayYes(m) ==
    /\ answering[m] > 0
    /\ answering' = [answering EXCEPT ![m] = @ - 1]
    /\ IF Redeemed(m)
       THEN /\ links' = Spent(m)
            /\ consented' = consented \cup {m}
            /\ yeses' = [yeses EXCEPT ![m] = @ + 1]
            /\ \/ \E o \in HubOrder : SendOrder(o, m)
               \/ UNCHANGED ordering           \* the backend was not ready
       ELSE UNCHANGED <<links, consented, yeses, ordering>>
    /\ UNCHANGED <<asks, hubTable, whose, files, noted, slots, round, stranded,
                   hubCrashes>>

SayNo(m) ==
    /\ answering[m] > 0
    /\ answering' = [answering EXCEPT ![m] = @ - 1]
    /\ links' = Spent(m)
    /\ UNCHANGED <<consented, asks, yeses, orderVars>>

\* ANFRAGE_GUELTIG_TAGE are over.
LinkExpires(m) ==
    /\ m \in links
    /\ links' = links \ {m}
    /\ UNCHANGED <<consented, answering, asks, yeses, orderVars>>

\* erteilen by the administrator closes the open requests; widerrufen does not
\* touch them.
GrantConsent(m) ==
    /\ m \notin consented
    /\ consented' = consented \cup {m}
    /\ links' = Spent(m)
    /\ UNCHANGED <<answering, asks, yeses, orderVars>>

RevokeConsent(m) ==
    /\ m \in consented
    /\ consented' = consented \ {m}
    /\ UNCHANGED <<links, answering, asks, yeses, orderVars>>

(***************************************************************************)
(* Placing an order (HubProviderBackend.initiate_renewal)                  *)
(***************************************************************************)

\* einwilligung.verlangen, then key, CSR and the call to the hub.
Renew(m) ==
    /\ UNCHANGED <<consentVars, hubTable, whose, files, noted, slots, round,
                   stranded, hubCrashes>>
    /\ \E o \in HubOrder : SendOrder(o, m)

\* The hub takes the order.  Its answer may be lost on the way (cert_order
\* turns that into an error): then the key is gone with the failed call.
HubTakes(o) ==
    /\ ordering[o] = "sent" /\ hubTable[o] = "none"
    /\ \E s \in {"waiting", "issued"} :
            hubTable' = [hubTable EXCEPT ![o] = s]
    /\ \/ ordering' = [ordering EXCEPT ![o] = "taken"] /\ UNCHANGED stranded
       \/ /\ ordering' = [ordering EXCEPT ![o] = "done"]
          /\ stranded' = stranded \cup {o}
    /\ UNCHANGED <<consentVars, whose, files, noted, slots, round, hubCrashes>>

\* Refused, no money, no network: nothing exists anywhere.
HubRefuses(o) ==
    /\ ordering[o] = "sent"
    /\ ordering' = [ordering EXCEPT ![o] = "done"]
    /\ UNCHANGED <<consentVars, hubTable, whose, files, noted, slots, round,
                   stranded, hubCrashes>>

\* A certificate in the answer is imported on the spot.
ImportAtOnce(o) ==
    /\ ordering[o] = "taken" /\ hubTable[o] = "issued"
    /\ slots' = slots \cup {o}
    /\ ordering' = [ordering EXCEPT ![o] = "done"]
    /\ UNCHANGED <<consentVars, hubTable, whose, files, noted, round, stranded,
                   hubCrashes>>

\* save_pending: the key first, then the JSON that makes the order visible.
SaveFirst(o) ==
    /\ ordering[o] = "taken"
    /\ files' = [files EXCEPT ![o] = {"key"}]
    /\ ordering' = [ordering EXCEPT ![o] = "saving"]
    /\ UNCHANGED <<consentVars, hubTable, whose, noted, slots, round, stranded,
                   hubCrashes>>

SaveSecond(o) ==
    /\ ordering[o] = "saving"
    /\ files' = [files EXCEPT ![o] = {"key", "json"}]
    /\ ordering' = [ordering EXCEPT ![o] = "done"]
    /\ UNCHANGED <<consentVars, hubTable, whose, noted, slots, round, stranded,
                   hubCrashes>>

(***************************************************************************)
(* The hub and the authority                                               *)
(***************************************************************************)

Moves(o) ==
    \/ hubTable[o] = "waiting" /\ hubTable' = [hubTable EXCEPT ![o] = "confirmed"]
    \/ hubTable[o] = "confirmed" /\ hubTable' = [hubTable EXCEPT ![o] = "issued"]
    \/ /\ hubTable[o] \in {"waiting", "confirmed"}
       /\ hubTable' = [hubTable EXCEPT ![o] = "rejected"]

\* The owner may press the link too, so a waiting order can move by itself.
HubMoves(o) ==
    /\ Moves(o)
    /\ UNCHANGED <<consentVars, whose, ordering, files, noted, slots, round,
                   stranded, hubCrashes>>

(***************************************************************************)
(* The rounds of the pollers                                               *)
(***************************************************************************)

Pending == {o \in HubOrder : "json" \in files[o]}

SetRound(p, r) == round' = [round EXCEPT ![p] = r]
quietRound == <<consentVars, whose, ordering, stranded, hubCrashes>>

\* _poll_hub_orders confirms first; the web button only polls.
BeginRound(p) ==
    /\ round[p].stage = "rest" /\ Pending # {}
    /\ SetRound(p, [Resting EXCEPT !.left = Pending,
                        !.stage = IF p = Scheduler THEN "confirm" ELSE "poll"])
    /\ UNCHANGED <<quietRound, hubTable, files, noted, slots>>

NextPhase(p) ==
    /\ round[p].left = {} /\ round[p].at = NoHubOrder
    /\ CASE round[p].stage = "confirm" ->
                SetRound(p, [Resting EXCEPT !.left = Pending, !.stage = "poll"])
         [] round[p].stage = "poll" -> SetRound(p, Resting)
         [] OTHER -> FALSE
    /\ UNCHANGED <<quietRound, hubTable, files, noted, slots>>

\* The next order of the list taken at the start: ask the hub, or pass over.
TakeOrder(p, o) ==
    /\ o \in round[p].left /\ round[p].at = NoHubOrder
    /\ LET r    == [round[p] EXCEPT !.left = @ \ {o}]
           skip == /\ r.stage = "confirm"
                   /\ o \in noted \/ whose[o] \notin consented
       IN  SetRound(p, IF skip THEN r ELSE [r EXCEPT !.at = o])
    /\ UNCHANGED <<quietRound, hubTable, files, noted, slots>>

HubAnswers(p) ==
    /\ round[p].at # NoHubOrder /\ round[p].answer = "none"
    /\ SetRound(p, [round[p] EXCEPT !.answer = hubTable[round[p].at]])
    /\ UNCHANGED <<quietRound, hubTable, files, noted, slots>>

Passed(p) == [round[p] EXCEPT !.at = NoHubOrder, !.answer = "none"]

\* No answer, no mail yet, the link not understood: the next order.
PassOver(p) ==
    /\ round[p].at # NoHubOrder
    /\ SetRound(p, Passed(p))
    /\ UNCHANGED <<quietRound, hubTable, files, noted, slots>>

\* bestaetigungslink reads the mailbox, bestaetigen presses the link, and the
\* note goes into the JSON, if it is still there.
PressLink(p) ==
    LET o == round[p].at
    IN  /\ round[p].stage = "confirm" /\ round[p].answer = "waiting"
        /\ whose[o] \in consented
        /\ hubTable' = [hubTable EXCEPT ![o] =
                            IF @ = "waiting" THEN "confirmed" ELSE @]
        /\ noted' = IF o \in Pending THEN noted \cup {o} ELSE noted
        /\ SetRound(p, Passed(p))
        /\ UNCHANGED <<quietRound, files, slots>>

\* poll_all: an issued certificate goes into the store together with the key,
\* and only then the order's files go.
Gone(o) == files' = [files EXCEPT ![o] = {}]

\* Mutant: the files go although the import raised.
CollectAndDrop(p) ==
    LET o == round[p].at
    IN  /\ round[p].stage = "poll" /\ round[p].answer = "issued"
        /\ "key" \in files[o]
        /\ slots' \in {slots, slots \cup {o}} /\ Gone(o)
        /\ SetRound(p, Passed(p))
        /\ UNCHANGED <<quietRound, hubTable, noted>>

Collect(p) ==
    LET o == round[p].at
    IN  /\ round[p].stage = "poll" /\ round[p].answer = "issued"
        /\ "key" \in files[o]
        /\ \/ slots' = slots \cup {o} /\ Gone(o)
           \/ UNCHANGED <<slots, files>>        \* the import raised
        /\ SetRound(p, Passed(p))
        /\ UNCHANGED <<quietRound, hubTable, noted>>

DropRejected(p) ==
    LET o == round[p].at
    IN  /\ round[p].stage = "poll" /\ round[p].answer = "rejected"
        /\ Gone(o)
        /\ SetRound(p, Passed(p))
        /\ UNCHANGED <<quietRound, hubTable, noted, slots>>

\* A crash, also between two of the files; consent and files are on disk.
CrashHub ==
    /\ hubCrashes < MaxHubCrashes
    /\ hubCrashes' = hubCrashes + 1
    /\ stranded' = stranded \cup {o \in HubOrder :
            /\ ordering[o] \in {"sent", "taken", "saving"}
            /\ files[o] # {"key", "json"}}
    /\ ordering' = [o \in HubOrder |->
            IF ordering[o] = "no" THEN "no" ELSE "done"]
    /\ round' = [p \in Poller |-> Resting]
    /\ answering' = [m \in HubMailbox |-> 0]
    /\ UNCHANGED <<hubTable, whose, files, noted, slots, consented, links, asks,
                   yeses>>

HubNext ==
    \/ \E m \in HubMailbox :
          \/ AskOwner(m) \/ ReadLink(m) \/ SayYes(m) \/ SayNo(m)
          \/ LinkExpires(m) \/ GrantConsent(m) \/ RevokeConsent(m)
          \/ Renew(m)
    \/ \E o \in HubOrder :
          \/ HubTakes(o) \/ HubRefuses(o) \/ ImportAtOnce(o)
          \/ SaveFirst(o) \/ SaveSecond(o) \/ HubMoves(o)
    \/ \E p \in Poller :
          \/ BeginRound(p) \/ NextPhase(p) \/ HubAnswers(p) \/ PassOver(p)
          \/ PressLink(p) \/ Collect(p) \/ DropRejected(p)
          \/ \E o \in HubOrder : TakeOrder(p, o)
    \/ CrashHub

HubSpec == HubInit /\ [][HubNext]_hubVars

(***************************************************************************)
(* Properties                                                              *)
(***************************************************************************)

HubTypeOK ==
    /\ hubTable \in [HubOrder -> {"none", "waiting", "confirmed", "issued", "rejected"}]
    /\ whose \in [HubOrder -> HubMailbox]
    /\ ordering \in [HubOrder -> {"no", "sent", "taken", "saving", "done"}]
    /\ files \in [HubOrder -> SUBSET {"key", "json"}]
    /\ noted \subseteq HubOrder /\ slots \subseteq HubOrder
    /\ stranded \subseteq HubOrder
    /\ \A p \in Poller :
          /\ round[p].stage \in {"rest", "confirm", "poll"}
          /\ round[p].left \subseteq HubOrder
          /\ round[p].at \in HubOrder \cup {NoHubOrder}
    /\ consented \subseteq HubMailbox /\ links \subseteq HubMailbox
    /\ answering \in [HubMailbox -> 0..2]
    /\ asks \in [HubMailbox -> 0..MaxAsked]
    /\ yeses \in [HubMailbox -> Nat]
    /\ hubCrashes \in 0..MaxHubCrashes

\* Every order the hub has taken, and has not turned down, can still become a
\* usable certificate: its key is with the ordering task, or on disk, or the
\* pair is in the store.  What a lost answer or a crash during the order took
\* away is named.  And what a poller can see, it can finish: no order lies in
\* the directory with its JSON but without its key.
KeyKept ==
    /\ \A o \in HubOrder :
          hubTable[o] \in {"waiting", "confirmed", "issued"} =>
              \/ ordering[o] \in {"taken", "saving"}
              \/ "key" \in files[o]
              \/ o \in slots \cup stranded
    /\ \A o \in Pending : "key" \in files[o]

\* One consent mail starts one order at most, however often its link is
\* pressed and however many answers are under way at once.
YesOrdersOnce == \A m \in HubMailbox : yeses[m] <= asks[m]
==============================================================================
