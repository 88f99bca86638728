--------------------------------- MODULE Portal ---------------------------------
(***************************************************************************)
(* The secure message portal: messages, access codes, replies and their    *)
(* removal (app/portal_store.py, app/webui/routen/portal.py).              *)
(*                                                                         *)
(* A message is a row in SQLite and a blob on disk, written and removed    *)
(* one after the other by three threads: handle_DATA creates messages, the *)
(* event loop of the web interface serves readers and revokes, the         *)
(* scheduler purges what expired.  The loop runs a request undisturbed     *)
(* from one await to the next, the two other threads run in between.       *)
(* The process may stop anywhere.                                          *)
(***************************************************************************)
EXTENDS Naturals

CONSTANTS
  Token,       \* portal messages
  Browser,     \* those who have the link, the recipient's devices among them
  Nobody,      \* no message, no browser
  Retention,   \* SECURE_PORTAL_RETENTION_DAYS, in ticks
  OtpTtl,      \* OTP_VALIDITY_MIN, in ticks
  Cooldown,    \* OTP_SEND_COOLDOWN, in ticks
  AccessTtl,   \* ACCESS_VALIDITY_H, in ticks
  MaxTries,    \* OTP_MAX_ATTEMPTS
  MaxCodes,    \* bound on the codes generated per message
  MaxEvents,   \* bound on restarts, revocations and switches together
  Faults       \* a subset of {"send", "db", "crash"}

ASSUME PortalAssumption ==
  /\ Nobody \notin Token \cup Browser \cup (Browser \X Token)
  /\ Retention \in Nat \ {0} /\ OtpTtl \in Nat \ {0} /\ AccessTtl \in Nat \ {0}
  /\ Cooldown \in Nat /\ MaxTries \in Nat \ {0}
  /\ MaxCodes \in Nat /\ MaxEvents \in Nat
  /\ Faults \subseteq {"send", "db", "crash"}

VARIABLES
  row,       \* [Token -> PortalRow], portal_messages
  blob,      \* messages whose .enc file exists
  replies,   \* messages with rows in portal_replies
  otp,       \* SECURE_PORTAL_OTP
  making,    \* create_message: the message it has written the blob of
  mailing,   \* codes on their way to the recipient's mailbox
  mailed,    \* <<message, code>> that arrived there
  cap,       \* [Browser -> <<message, access token>> it was given]
  reading,   \* the <<browser, message>> whose blob is about to be read
  replying,  \* <<browser, message>> whose reply is being mailed
  removing,  \* a revoked message whose blob is about to be unlinked
  purge,     \* the purge: expired messages it selected, and those unlinked
  bought,    \* portalHistory: <<browser, message, code>> that bought access
  stray,     \* portalHistory: <<message, cause>> where something was left behind
  portalEvents     \* restarts, revocations and switches so far

portalVars == <<row, blob, replies, otp, making, mailing, mailed, cap, reading,
          replying, removing, purge, bought, stray, portalEvents>>

Code == 0..MaxCodes             \* 0: no code, no access token (NULL)

PortalRow == [state : {"none", "live", "deleted"}, left : 0..Retention,
        code : Code, last : Code, codeLeft : 0..OtpTtl, tries : 0..MaxTries,
        cool : 0..Cooldown, access : Code, accessLeft : 0..AccessTtl]

NoRow == [state |-> "none", left |-> 0, code |-> 0, last |-> 0, codeLeft |-> 0,
          tries |-> 0, cool |-> 0, access |-> 0, accessLeft |-> 0]

NoPurge == [sel |-> {}, gone |-> {}]

Live(t) == row[t].state = "live"             \* get_message
Open(t) == Live(t) /\ row[t].left > 0        \* and not is_expired

(* check_access: the token the browser sends is the one in the row, and    *)
(* not older than a day.                                                   *)
Admitted(b, t) ==
  row[t].access # 0 /\ <<t, row[t].access>> \in cap[b] /\ row[t].accessLeft > 0

(* Open, and _portal_check_access.                                         *)
MayEnter(b, t) == Open(t) /\ (otp => Admitted(b, t))

PortalEvent == portalEvents < MaxEvents /\ portalEvents' = portalEvents + 1
WebFree == reading = Nobody /\ removing = Nobody

portalStore == <<row, blob, replies>>
web == <<otp, mailing, mailed, cap, reading, replying, removing>>
portalHistory == <<bought, stray, portalEvents>>

-----------------------------------------------------------------------------
PortalInit ==
  /\ row = [t \in Token |-> NoRow]
  /\ blob = {} /\ replies = {}
  /\ otp \in BOOLEAN
  /\ making = Nobody /\ mailing = {} /\ mailed = {}
  /\ cap = [b \in Browser |-> {}]
  /\ reading = Nobody /\ replying = {} /\ removing = Nobody /\ purge = NoPurge
  /\ bought = {} /\ stray = {} /\ portalEvents = 0

(* create_message writes the blob ...                                      *)
CreateBlob(t) ==
  /\ making = Nobody /\ row[t].state = "none" /\ t \notin blob
  /\ blob' = blob \cup {t} /\ making' = t
  /\ UNCHANGED <<row, replies, web, purge, portalHistory>>

Fresh(t) == row' = [row EXCEPT ![t] = [NoRow EXCEPT !.state = "live", !.left = Retention]]

(* ... and then the row; if the database is locked the blob stays.         *)
CreateRow ==
  /\ making # Nobody
  /\ \/ Fresh(making) /\ UNCHANGED stray
     \/ "db" \in Faults /\ stray' = stray \cup {<<making, "no_row">>} /\ UNCHANGED row
  /\ making' = Nobody
  /\ UNCHANGED <<blob, replies, web, purge, bought, portalEvents>>

(* portal_request_otp up to its await: generate_otp replaces the code and  *)
(* forgets the failed attempts.                                            *)
RequestCode(t) ==
  /\ WebFree /\ Open(t) /\ row[t].cool = 0 /\ row[t].last < MaxCodes
  /\ row' = [row EXCEPT ![t] = [@ EXCEPT !.code = row[t].last + 1, !.last = row[t].last + 1,
                                         !.codeLeft = OtpTtl, !.tries = 0, !.cool = Cooldown]]
  /\ mailing' = mailing \cup {<<t, row[t].last + 1>>}
  /\ UNCHANGED <<blob, replies, otp, making, mailed, cap, reading, replying,
                 removing, purge, portalHistory>>

(* send_portal_otp, in the executor.                                       *)
CodeSent(m) ==
  /\ m \in mailing
  /\ mailing' = mailing \ {m}
  /\ \/ mailed' = mailed \cup {m}
     \/ "send" \in Faults /\ UNCHANGED mailed
  /\ UNCHANGED <<portalStore, otp, making, cap, reading, replying, removing, purge, portalHistory>>

(* Mutant: the limit on attempts forgotten.                                *)
CheckableForEver(t) == row[t].code # 0 /\ row[t].codeLeft > 0

(* verify_otp asks for a code that has not run out of time or attempts.    *)
Checkable(t) == row[t].code # 0 /\ row[t].codeLeft > 0 /\ row[t].tries < MaxTries

(* Mutant: the code stays valid after it was used.                         *)
Reusable(b, t) ==
  /\ WebFree /\ Open(t) /\ Checkable(t) /\ <<t, row[t].code>> \in mailed
  /\ row' = [row EXCEPT ![t] = [@ EXCEPT !.access = row[t].code, !.accessLeft = AccessTtl]]
  /\ cap' = [cap EXCEPT ![b] = @ \cup {<<t, row[t].code>>}]
  /\ bought' = bought \cup {<<b, t, row[t].code>>}
  /\ UNCHANGED <<blob, replies, otp, making, mailing, mailed, reading, replying,
                 removing, purge, stray, portalEvents>>

(* The right code, read in the mailbox (a guess is taken to be wrong):     *)
(* access for a day instead of whoever had it, and the code is used up.    *)
Enter(b, t) ==
  /\ WebFree /\ Open(t) /\ Checkable(t) /\ <<t, row[t].code>> \in mailed
  /\ row' = [row EXCEPT ![t] = [@ EXCEPT !.access = row[t].code, !.accessLeft = AccessTtl,
                                         !.code = 0]]
  /\ cap' = [cap EXCEPT ![b] = @ \cup {<<t, row[t].code>>}]
  /\ bought' = bought \cup {<<b, t, row[t].code>>}
  /\ UNCHANGED <<blob, replies, otp, making, mailing, mailed, reading, replying,
                 removing, purge, stray, portalEvents>>

(* A wrong code.                                                           *)
Miss(t) ==
  /\ WebFree /\ Open(t) /\ Checkable(t)
  /\ row' = [row EXCEPT ![t].tries = @ + 1]
  /\ UNCHANGED <<blob, replies, web, making, purge, portalHistory>>

(* portal_get_message: checked, then the blob is read, with the purge in   *)
(* between if it comes.                                                    *)
BeginRead(b, t) ==
  /\ WebFree /\ MayEnter(b, t)
  /\ reading' = <<b, t>>
  /\ UNCHANGED <<portalStore, otp, making, mailing, mailed, cap, replying, removing,
                 purge, portalHistory>>

EndRead ==
  /\ reading # Nobody
  /\ reading' = Nobody
  /\ UNCHANGED <<portalStore, otp, making, mailing, mailed, cap, replying, removing,
                 purge, portalHistory>>

(* Mutant: no second look at expiry and access when a reply is posted.     *)
ReplyUnchecked(b, t) ==
  /\ WebFree /\ Live(t) /\ <<b, t>> \notin replying
  /\ replying' = replying \cup {<<b, t>>}
  /\ UNCHANGED <<portalStore, otp, making, mailing, mailed, cap, reading, removing,
                 purge, portalHistory>>

(* portal_reply: checked, then mailed to the sender in the executor ...    *)
BeginReply(b, t) ==
  /\ WebFree /\ MayEnter(b, t) /\ <<b, t>> \notin replying
  /\ replying' = replying \cup {<<b, t>>}
  /\ UNCHANGED <<portalStore, otp, making, mailing, mailed, cap, reading, removing,
                 purge, portalHistory>>

(* ... and its ciphertext kept (add_reply does not ask whether the message *)
(* still exists), unless the sending failed.                               *)
EndReply(b, t) ==
  /\ WebFree /\ <<b, t>> \in replying
  /\ replying' = replying \ {<<b, t>>}
  /\ \/ /\ replies' = replies \cup {t}
        /\ stray' = IF Live(t) THEN stray ELSE stray \cup {<<t, "late_reply">>}
     \/ /\ "send" \in Faults
        /\ UNCHANGED <<replies, stray>>
  /\ UNCHANGED <<row, blob, otp, making, mailing, mailed, cap, reading, removing,
                 purge, bought, portalEvents>>

(* Mutant: the replies are forgotten.                                      *)
RevokeRow(t) ==
  /\ WebFree /\ Live(t) /\ PortalEvent
  /\ row' = [row EXCEPT ![t].state = "deleted"]
  /\ removing' = t
  /\ UNCHANGED <<blob, replies, otp, making, mailing, mailed, cap, reading, replying,
                 purge, bought, stray>>

(* delete_message: row and replies in one transaction, then the blob.      *)
Revoke(t) ==
  /\ WebFree /\ Live(t) /\ PortalEvent
  /\ row' = [row EXCEPT ![t].state = "deleted"]
  /\ replies' = replies \ {t}
  /\ removing' = t
  /\ UNCHANGED <<blob, otp, making, mailing, mailed, cap, reading, replying,
                 purge, bought, stray>>

Unlink ==
  /\ removing # Nobody
  /\ blob' = blob \ {removing} /\ removing' = Nobody
  /\ UNCHANGED <<row, replies, otp, making, mailing, mailed, cap, reading,
                 replying, purge, portalHistory>>

Switch ==
  /\ WebFree /\ PortalEvent
  /\ otp' = ~otp
  /\ UNCHANGED <<portalStore, making, mailing, mailed, cap, reading, replying, removing,
                 purge, bought, stray>>

(* Mutant: compared with a clock that is ahead.                            *)
PurgeEarly ==
  /\ purge = NoPurge
  /\ purge' = [NoPurge EXCEPT !.sel = {t \in Token : Live(t) /\ row[t].left <= 1}]
  /\ purge'.sel # {}
  /\ UNCHANGED <<portalStore, web, making, portalHistory>>

(* cleanup_expired: select, unlink one after the other, then mark and      *)
(* commit.                                                                 *)
PurgeSelect ==
  /\ purge = NoPurge
  /\ purge' = [NoPurge EXCEPT !.sel = {t \in Token : Live(t) /\ ~Open(t)}]
  /\ purge'.sel # {}
  /\ UNCHANGED <<portalStore, web, making, portalHistory>>

PurgeUnlink(t) ==
  /\ t \in purge.sel \ purge.gone
  /\ blob' = blob \ {t}
  /\ purge' = [purge EXCEPT !.gone = @ \cup {t}]
  /\ UNCHANGED <<row, replies, web, making, portalHistory>>

(* Mutant: the rows are not marked.                                        *)
PurgeForget ==
  /\ purge # NoPurge /\ purge.gone = purge.sel
  /\ purge' = NoPurge
  /\ UNCHANGED <<portalStore, web, making, portalHistory>>

PurgeCommit ==
  /\ purge # NoPurge /\ purge.gone = purge.sel
  /\ \/ /\ row' = [t \in Token |-> IF t \in purge.sel
                                   THEN [row[t] EXCEPT !.state = "deleted"] ELSE row[t]]
        /\ replies' = replies \ purge.sel
     \/ /\ "db" \in Faults
        /\ UNCHANGED <<row, replies>>
  /\ purge' = NoPurge
  /\ UNCHANGED <<blob, web, making, portalHistory>>

(* The process stops and comes back.                                       *)
PortalCrash ==
  /\ "crash" \in Faults /\ PortalEvent
  /\ stray' = stray \cup ({making, removing} \ {Nobody}) \X {"crash"}
  /\ making' = Nobody /\ mailing' = {} /\ reading' = Nobody /\ replying' = {}
  /\ removing' = Nobody /\ purge' = NoPurge
  /\ UNCHANGED <<portalStore, otp, mailed, cap, bought>>

Down(n) == IF n > 0 THEN n - 1 ELSE 0

PortalTick ==
  /\ row' = [t \in Token |->
               [row[t] EXCEPT !.left = Down(row[t].left), !.codeLeft = Down(row[t].codeLeft),
                              !.cool = Down(row[t].cool), !.accessLeft = Down(row[t].accessLeft)]]
  /\ row' # row
  /\ UNCHANGED <<blob, replies, web, making, purge, portalHistory>>

Purge == PurgeSelect \/ (\E t \in Token : PurgeUnlink(t)) \/ PurgeCommit

PortalNext ==
  \/ \E t \in Token : CreateBlob(t) \/ RequestCode(t) \/ Miss(t) \/ Revoke(t)
  \/ CreateRow \/ EndRead \/ Unlink \/ Switch \/ Purge \/ PortalCrash \/ PortalTick
  \/ \E m \in mailing : CodeSent(m)
  \/ \E b \in Browser, t \in Token :
       Enter(b, t) \/ BeginRead(b, t) \/ BeginReply(b, t) \/ EndReply(b, t)

PortalSpec == PortalInit /\ [][PortalNext]_portalVars

(* Time passes and the scheduler's daily run comes again; requests end.    *)
PortalFairness ==
  /\ WF_portalVars(PortalTick) /\ WF_portalVars(PurgeSelect)
  /\ WF_portalVars(EndRead) /\ WF_portalVars(Unlink)
  /\ \A t \in Token : WF_portalVars(PurgeUnlink(t))
  /\ WF_portalVars(PurgeCommit)
  /\ SF_portalVars(PurgeCommit /\ row' # row)     \* the database is not locked for ever

-----------------------------------------------------------------------------
(* Type correctness.                                                       *)
PortalTypeOK ==
  /\ row \in [Token -> PortalRow]
  /\ blob \subseteq Token /\ replies \subseteq Token
  /\ otp \in BOOLEAN
  /\ making \in Token \cup {Nobody} /\ removing \in Token \cup {Nobody}
  /\ mailing \subseteq Token \X Code /\ mailed \subseteq Token \X Code
  /\ cap \in [Browser -> SUBSET (Token \X Code)]
  /\ reading \in (Browser \X Token) \cup {Nobody}
  /\ replying \subseteq Browser \X Token
  /\ purge \in [sel : SUBSET Token, gone : SUBSET Token]
  /\ bought \subseteq Browser \X Token \X Code
  /\ stray \subseteq Token \X {"no_row", "late_reply", "crash"}
  /\ portalEvents \in 0..MaxEvents

(* A link that has not expired leads to a message: whatever thread stops   *)
(* where, an open row has its blob (it is written first, and a revocation  *)
(* takes the row first).                                                   *)
OpenHasContent == \A t \in Token : Open(t) => t \in blob

(* "Der Code ist single-use" (verify_otp): however requests, expiry,       *)
(* renewed codes and restarts interleave, one code opens a message for one *)
(* browser, and that only after it was mailed to the recipient.            *)
CodeOnce ==
  /\ \A x, y \in bought : x[2] = y[2] /\ x[3] = y[3] => x[1] = y[1]
  /\ \A x \in bought : <<x[2], x[3]>> \in mailed

(* What stays behind of a message that never was or is no more, a blob or  *)
(* a reply, is there because of one of three known gaps: the process       *)
(* stopped between the two stores, the row could not be inserted, or a     *)
(* reply was on its way when the message went.                             *)
LeftoversExplained ==
  \A t \in Token :
    ~Live(t) /\ t \notin {making, removing} =>
      /\ t \in blob => \E c \in {"crash", "no_row"} : <<t, c>> \in stray
      /\ t \in replies => <<t, "late_reply">> \in stray

(* Every message is gone in the end, row and blob.                         *)
EveryMessageGoes ==
  \A t \in Token : Live(t) ~> (row[t].state = "deleted" /\ (t \in blob => <<t, "crash">> \in stray))

Holder(t) == {b \in Browser : Admitted(b, t)}
Life(t) == IF row[t].state = "none" THEN "absent" ELSE IF Open(t) THEN "open" ELSE "closed"

Promise == INSTANCE Disclosure WITH
  life <- [t \in Token |-> Life(t)],
  gate <- otp,
  key <- [t \in Token |-> IF Holder(t) = {} THEN Nobody ELSE CHOOSE b \in Browser : b \in Holder(t)],
  visits <- replying \cup (IF reading = Nobody THEN {} ELSE {reading})

(* The portal keeps the promise of Disclosure: no interleaving of readers, *)
(* renewed codes, revocation, purge and restarts reopens a message, admits *)
(* two browsers at once or serves one that is not admitted.                *)
DisclosureKept == Promise!Spec
================================================================================
