-------------------------------- MODULE Handler --------------------------------
(***************************************************************************)
(* What becomes of a mail in SignatureHandler.handle_DATA                  *)
(* (app/handler.py): which branch takes it, what is signed, encrypted, put *)
(* in the portal, reported or let go, and what Exchange is answered.       *)
(*                                                                         *)
(* All transactions share one event loop.  A transaction runs undisturbed  *)
(* from one await to the next (the decryption, graph_client.get_user, the  *)
(* signing), so the actions are those sections; between them other         *)
(* transactions run, an administrator changes settings, and certificates   *)
(* come, go and expire.  reinject.send is one step here; what it does with *)
(* a mail once it has it is module Delivery.                               *)
(***************************************************************************)
EXTENDS Naturals

CONSTANTS
  Mail,       \* logical mails
  Rcpt,       \* recipient addresses
  Fork,       \* SMTP transactions in which Exchange hands mails over
  MailOf,     \* [Fork -> Mail]
  Env,        \* [Fork -> SUBSET Rcpt], the envelope of a transaction (Bcc too)
  Hdr,        \* [Mail -> SUBSET Rcpt], the To/Cc header recipients
  Known,      \* recipients that are mailboxes of the tenant
  RuleRcpt,   \* recipients an encrypt rule of SMIME_AUTO_RULES matches
  SendToAll,  \* a Graph mode with GRAPH_MIXED_FORK_MODE = send_to_all
  Traits,     \* the mails of the instance, a subset of AllTraits
  Start,      \* the settings it may start with, a subset of Settings
  Faults,     \* what may go wrong, a subset of AllFaults
  MaxEvents   \* bound on restarts, 451s and changes of settings and certificates

AllTraits ==
  [origin : {"denied", "exchange", "ident", "relay"},  \* who delivers it
   foreign : BOOLEAN,        \* CrossTenant-Id of another tenant
   sort : {"harvest", "acme", "acme_reply", "auto", "enveloped", "signed", "plain"},
   marked : BOOLEAN,         \* carries the loop marker
   inner : BOOLEAN,          \* so does the signed part
   internal : BOOLEAN,       \* the sender is a known mailbox of the tenant
   active : BOOLEAN,         \* the sender has signatures or S/MIME switched on
   smime : BOOLEAN,          \* S/MIME is on for the sender
   asks : BOOLEAN,           \* #enc, or the tag of an encrypted thread
   nosign : BOOLEAN,         \* #nodigsig or a rule suppresses S/MIME
   sign : BOOLEAN]           \* a rule forces S/MIME

Setting == {"portal",    \* SECURE_PORTAL_ENABLED
            "signing",   \* SMIME_SIGNING_ENABLED
            "strip",     \* SMIME_STRIP_INBOUND
            "internal",  \* SIGN_INTERNAL_ONLY_MAIL
            "fallback",  \* FALLBACK_ON_ERROR
            "maint",     \* MAINTENANCE_MODE
            "gate",      \* RELAY_TENANT_CHECK
            "route"}     \* a tenant route for the foreign tenant
Settings == SUBSET Setting

AllFaults == {"raise", "send", "cipher", "portal", "ndr"}

ASSUME HandlerAssumption ==
  /\ MailOf \in [Fork -> Mail]
  /\ Env \in [Fork -> SUBSET Rcpt]
  /\ Hdr \in [Mail -> SUBSET Rcpt]
  /\ Known \subseteq Rcpt /\ RuleRcpt \subseteq Rcpt
  /\ SendToAll \in BOOLEAN
  /\ Traits \subseteq AllTraits
  /\ Start \subseteq Settings
  /\ Faults \subseteq AllFaults
  /\ MaxEvents \in Nat

VARIABLES
  mail,     \* [Mail -> Traits], what the mails are like
  pc,       \* [Fork -> where the transaction is suspended, or its answer]
  wants,    \* [Fork -> wants_encryption at the await]
  on,       \* the settings that are switched on
  cert,     \* [Rcpt -> state of the recipient's stored certificate]
  carried,  \* _mixed_fork_registry: mails a send-to-all was confirmed for
  out,      \* copies handed to reinject.send, to hold or to another gateway
  portal,   \* <<transaction, recipient>>: the link to a portal message was sent
  told,     \* transactions whose sender was told (non-delivery report)
  gone,     \* history: <<transaction, recipient, cause>> the handler let go of
  waived,   \* history: <<transaction, cause>> encryption was passed over
  events    \* restarts, 451s and changes of settings and certificates so far

vars == <<mail, pc, wants, on, cert, carried, out, portal, told, gone, waived, events>>

Suspended == {"decrypt", "user", "sign"}
Stage == {"offered", "250", "554"} \cup Suspended
Form == {"original", "opened", "processed", "sealed"}
Way == {"send", "hold", "forward"}
Copy == [fork : Fork, to : SUBSET Rcpt, form : Form,
         way : Way, marked : BOOLEAN]
LossCause == {"harvest", "acme", "own", "inner", "portal", "has_cert",
              "unreported", "bcc"}
WaiveCause == {"branch", "early", "off", "cipher"}

T(f) == mail[MailOf[f]]
Rule(f) == Env[f] \cap RuleRcpt # {}            \* _eval_smime_rules: encrypt
Stored(r) == cert[r] # "none"                   \* get_recipient_cert_path
MixedFork(f) == SendToAll /\ T(f).internal /\ Hdr[MailOf[f]] \ Env[f] # {}

-----------------------------------------------------------------------------
(* Which branch takes the mail: the order of the tests in handle_DATA up to *)
(* "Early #enc# cert check".                                               *)

(* Every recipient is a known mailbox, and it is not one half of a mixed   *)
(* mail that a send-to-all is going to carry.                              *)
InternalOnly(f) ==
  /\ "internal" \notin on
  /\ Known # {} /\ Env[f] \subseteq Known
  /\ ~(SendToAll /\ T(f).internal /\ ~(Hdr[MailOf[f]] \subseteq Known))

Branch(f) ==
  LET m == T(f) IN
  IF m.origin = "denied" THEN "refuse"
  ELSE IF m.origin = "exchange" /\ m.foreign /\ "route" \in on THEN "forward"
  ELSE IF m.origin # "relay" /\ m.foreign /\ "gate" \in on THEN "refuse"
  ELSE IF m.sort \in {"harvest", "acme"} THEN "consume"
  ELSE IF m.sort = "acme_reply" /\ ~m.marked THEN "pass"
  ELSE IF m.sort = "auto" THEN "pass"
  ELSE IF m.sort = "enveloped" THEN "decrypt"
  ELSE IF m.sort = "signed" /\ m.marked THEN "own"
  ELSE IF m.sort = "signed" /\ m.inner THEN "inner"
  ELSE IF m.sort = "signed" THEN "strip"
  ELSE IF ~m.active THEN "pass"
  ELSE IF m.marked THEN "loop"
  ELSE IF InternalOnly(f) THEN "pass"
  ELSE "sign"

Bypassed(f) ==
  waived \cup (IF T(f).asks \/ Rule(f) THEN {<<f, "branch">>} ELSE {})

-----------------------------------------------------------------------------
(* Handing a copy over.                                                    *)

CopyOf(f, S, form, way, marked) ==
  [fork |-> f, to |-> S, form |-> form, way |-> way, marked |-> marked]

(* Where send() delivers: a fork of a mixed mail goes to all header        *)
(* recipients, or nowhere once a sibling did, or - when that call fails -  *)
(* to its own envelope.                                                    *)
Destinations(f, car) ==
  IF ~MixedFork(f) THEN {Env[f]}
  ELSE IF MailOf[f] \in car THEN {{}}
  ELSE {Hdr[MailOf[f]], Env[f]}

(* send(), with what follows it in the section: all is well, or something  *)
(* raises after none, some or all of the recipients.                       *)
Results(f, car) ==
  {[to |-> D, ok |-> TRUE] : D \in Destinations(f, car)} \cup
  IF "send" \notin Faults THEN {}
  ELSE {[to |-> S, ok |-> FALSE] : S \in UNION {SUBSET D : D \in Destinations(f, car)}}

(* Mutant: registered before the call is confirmed.                        *)
CarriedEarly(f, r, car) == IF MixedFork(f) THEN car \cup {MailOf[f]} ELSE car

(* Only a confirmed send-to-all is registered.                             *)
Carried(f, r, car) ==
  IF MixedFork(f) /\ r.to = Hdr[MailOf[f]] THEN car \cup {MailOf[f]} ELSE car

Copies(f, S, form, way, marked) ==
  IF S = {} THEN {} ELSE {CopyOf(f, S, form, way, marked)}

(* The header recipients are all a send-to-all serves: whoever stands only *)
(* in the envelope of its carrier, or of a dropped sibling, gets nothing.  *)
Hidden(f, r) ==
  IF r.ok /\ MixedFork(f) /\ r.to # Env[f]
  THEN {<<f, x, "bcc">> : x \in Env[f] \ Hdr[MailOf[f]]} ELSE {}

(* One more restart, 451, or change of settings or certificates.           *)
Event == events < MaxEvents /\ events' = events + 1

Answer(f, a) ==
  /\ pc' = [pc EXCEPT ![f] = a]
  /\ IF a = "offered" THEN Event ELSE UNCHANGED events

(* _send_ndr: a failure is only logged.                                    *)
Ndr(f) ==
  \/ /\ told' = told \cup {f}
     /\ UNCHANGED gone
  \/ /\ "ndr" \in Faults
     /\ gone' = gone \cup {<<f, r, "unreported">> : r \in Env[f]}
     /\ UNCHANGED told

(* Mutant: the handler's except clause without its test for encryption.    *)
CaughtAlike(f, w, done, car) ==
  /\ UNCHANGED told
  /\ \E r \in Results(f, car) :
       /\ gone' = gone \cup Hidden(f, r)
       /\ out' = done \cup Copies(f, r.to, "original", "send", TRUE)
       /\ carried' = Carried(f, r, car)
       /\ Answer(f, IF r.ok THEN "250" ELSE "offered")

(* The except clause of handle_DATA, with wants_encryption = w: report, or *)
(* send the original, or answer 451 so that Exchange offers it again.      *)
Caught(f, w, done, car) ==
  \/ /\ w
     /\ out' = done /\ carried' = car
     /\ Ndr(f) /\ Answer(f, "250")
  \/ /\ ~w /\ "fallback" \in on
     /\ UNCHANGED told
     /\ \E r \in Results(f, car) :
          /\ gone' = gone \cup Hidden(f, r)
          /\ out' = done \cup Copies(f, r.to, "original", "send", TRUE)
          /\ carried' = Carried(f, r, car)
          /\ Answer(f, IF r.ok THEN "250" ELSE "offered")
  \/ /\ ~w /\ "fallback" \notin on
     /\ out' = done /\ carried' = car
     /\ UNCHANGED <<told, gone>>
     /\ Answer(f, "offered")

(* reinject.send, then 250.                                                *)
Send(f, form, marked, w) ==
  \E r \in Results(f, carried) :
    LET done == out \cup Copies(f, r.to, form, "send", marked)
        car == Carried(f, r, carried) IN
    \/ /\ r.ok
       /\ out' = done /\ carried' = car
       /\ Answer(f, "250")
       /\ gone' = gone \cup Hidden(f, r)
       /\ UNCHANGED told
    \/ /\ ~r.ok /\ Caught(f, w, done, car)

(* The end of the signing branch: mark, then hold or send.                 *)
Return(f, form, w) ==
  \/ /\ "maint" \in on
     /\ \/ /\ out' = out \cup Copies(f, Env[f], form, "hold", TRUE)
           /\ Answer(f, "250")
           /\ UNCHANGED <<carried, told, gone>>
        \/ /\ "send" \in Faults
           /\ Caught(f, w, out, carried)
  \/ /\ "maint" \notin on
     /\ Send(f, form, TRUE, w)

LetGo(f, cause) == gone' = gone \cup {<<f, r, cause>> : r \in Env[f]}

config == <<mail, on, cert>>
Takes(f, b) == pc[f] = "offered" /\ Branch(f) = b

-----------------------------------------------------------------------------
Init ==
  /\ mail \in [Mail -> Traits]
  /\ pc = [f \in Fork |-> "offered"]
  /\ wants = [f \in Fork |-> FALSE]
  /\ on \in Start
  /\ cert \in [Rcpt -> {"none", "good", "bad"}]
  /\ carried = {} /\ out = {} /\ portal = {} /\ told = {} /\ gone = {} /\ waived = {}
  /\ events = 0

(* Not an allowed source, a relay or identity limit, or a foreign tenant.  *)
Refuse(f) ==
  /\ Takes(f, "refuse")
  /\ Answer(f, "554")
  /\ UNCHANGED <<config, wants, carried, out, portal, told, gone, waived>>

(* Byte by byte to the other tenant's gateway; a loop (ist_schleife, over- *)
(* approximated) is refused, a failed hop answered with 451.               *)
Forward(f) ==
  /\ Takes(f, "forward")
  /\ \/ /\ out' = out \cup Copies(f, Env[f], "original", "forward", T(f).marked)
        /\ Answer(f, "250")
        /\ waived' = Bypassed(f)
     \/ /\ "send" \in Faults
        /\ UNCHANGED <<pc, events, out, waived>>
     \/ /\ Answer(f, "554")
        /\ UNCHANGED <<out, waived>>
  /\ UNCHANGED <<config, wants, carried, portal, told, gone>>

(* The harvest address and ACME challenges: 250, and nobody gets the mail. *)
Consume(f) ==
  /\ Takes(f, "consume")
  /\ LetGo(f, T(f).sort)
  /\ Answer(f, "250")
  /\ UNCHANGED <<config, wants, carried, out, portal, told, waived>>

(* Mutant: one of the passing branches forgets the marker.                 *)
PassUnmarked(f) ==
  /\ Takes(f, "pass")
  /\ Send(f, "original", T(f).marked, FALSE)
  /\ waived' = Bypassed(f)
  /\ UNCHANGED <<config, wants, portal>>

(* ACME replies, automatic mail and calendar items, senders that are not   *)
(* active, internal mail: the original, marked.                            *)
Pass(f) ==
  /\ Takes(f, "pass")
  /\ Send(f, "original", TRUE, FALSE)
  /\ waived' = Bypassed(f)
  /\ UNCHANGED <<config, wants, portal>>

(* A mail that was here before goes out as it is.                          *)
Loop(f) ==
  /\ Takes(f, "loop")
  /\ Send(f, "original", T(f).marked, FALSE)
  /\ waived' = Bypassed(f)
  /\ UNCHANGED <<config, wants, portal>>

(* Signed mail from outside: the signature is stripped, if that works.     *)
Strip(f) ==
  /\ Takes(f, "strip")
  /\ \/ "strip" \in on /\ Send(f, "opened", TRUE, FALSE)
     \/ Send(f, "original", TRUE, FALSE)
  /\ waived' = Bypassed(f)
  /\ UNCHANGED <<config, wants, portal>>

(* Our own signed mail, forwarded back from outside: without its signature *)
(* to the new recipients; it is discarded when that cannot be stripped.    *)
Own(f) ==
  /\ Takes(f, "own")
  /\ \/ Send(f, "opened", TRUE, FALSE)
     \/ LetGo(f, "own") /\ Answer(f, "250") /\ UNCHANGED <<out, carried, told>>
  /\ waived' = Bypassed(f)
  /\ UNCHANGED <<config, wants, portal>>

(* A signed part that carries the marker: accepted and dropped.            *)
Inner(f) ==
  /\ Takes(f, "inner")
  /\ LetGo(f, "inner")
  /\ Answer(f, "250")
  /\ UNCHANGED <<config, wants, carried, out, portal, told, waived>>

(* Encrypted mail from outside: with a key for a recipient the handler     *)
(* waits for the decryption, without one it goes on as it is.              *)
BeginDecrypt(f) ==
  /\ Takes(f, "decrypt")
  /\ \/ /\ Answer(f, "decrypt")
        /\ UNCHANGED <<out, carried, told, gone, waived>>
     \/ /\ Send(f, "original", TRUE, FALSE)
        /\ waived' = Bypassed(f)
  /\ UNCHANGED <<config, wants, portal>>

(* Mutant: a failed decryption hands its result on.                        *)
DecryptedOrNothing(f) ==
  /\ pc[f] = "decrypt"
  /\ \E form \in {"opened", "none"} : Send(f, form, TRUE, FALSE)
  /\ waived' = Bypassed(f)
  /\ UNCHANGED <<config, wants, portal>>

(* Decrypted for the first recipient that has a key, or else as it is.     *)
Decrypted(f) ==
  /\ pc[f] = "decrypt"
  /\ \E form \in {"opened", "original"} : Send(f, form, TRUE, FALSE)
  /\ waived' = Bypassed(f)
  /\ UNCHANGED <<config, wants, portal>>

(* The signing branch up to graph_client.get_user: does the mail ask for   *)
(* encryption, and is a certificate stored for everybody?                  *)
StartSigning(f) ==
  /\ Takes(f, "sign")
  /\ LET w == T(f).asks \/ Rule(f) IN
     \/ /\ w /\ "portal" \notin on /\ \E r \in Env[f] : ~Stored(r)
        /\ Ndr(f) /\ Answer(f, "250")
        /\ UNCHANGED wants
     \/ /\ ~(w /\ "portal" \notin on /\ \E r \in Env[f] : ~Stored(r))
        /\ wants' = [wants EXCEPT ![f] = w]
        /\ Answer(f, "user")
        /\ UNCHANGED <<told, gone>>
  /\ UNCHANGED <<config, carried, out, portal, waived>>

(* _smime_ok, from the settings as they are after the await.               *)
SmimeOk(f) == ~T(f).nosign /\ (("signing" \in on /\ T(f).smime) \/ T(f).sign)

(* Not to be encrypted, or no longer; S/MIME off lets an encrypted mail go *)
(* out in plain text.                                                      *)
Sign(f) ==
  /\ pc[f] = "user" /\ ~(wants[f] /\ SmimeOk(f))
  /\ \/ /\ SmimeOk(f)
        /\ Answer(f, "sign")
        /\ UNCHANGED <<out, carried, told, gone, waived>>
     \/ /\ ~SmimeOk(f)
        /\ Return(f, "processed", FALSE)
        /\ waived' = waived \cup (IF wants[f] THEN {<<f, "off">>} ELSE {})
  /\ UNCHANGED <<config, wants, portal>>

(* sign_async is back, with a signature or without one.                    *)
Signed(f) ==
  /\ pc[f] = "sign"
  /\ Return(f, "processed", FALSE)
  /\ UNCHANGED <<config, wants, portal, waived>>

(* smime_encrypt.encrypt with a usable certificate for everybody; when     *)
(* both ways to encrypt fail it returns (None, []).                        *)
Seal(f) ==
  /\ pc[f] = "user" /\ wants[f] /\ SmimeOk(f)
  /\ \A r \in Env[f] : cert[r] = "good"
  /\ \/ /\ Return(f, "sealed", TRUE)
        /\ UNCHANGED waived
     \/ /\ "cipher" \in Faults
        /\ Return(f, "processed", TRUE)
        /\ waived' = waived \cup {<<f, "cipher">>}
  /\ UNCHANGED <<config, wants, portal>>

(* Recipients without a usable certificate get a portal message each, or   *)
(* the sender is told.  A portal message that cannot be stored, or whose   *)
(* link is not sent, is only logged; the others get nothing.               *)
Unsealable(f) ==
  /\ pc[f] = "user" /\ wants[f] /\ SmimeOk(f)
  /\ LET missing == {r \in Env[f] : cert[r] # "good"} IN
     /\ missing # {}
     /\ \/ /\ "portal" \in on
           /\ \E S \in SUBSET missing :
                /\ S = missing \/ "portal" \in Faults
                /\ portal' = portal \cup {f} \X S
                /\ gone' = gone \cup {<<f, r, "portal">> : r \in missing \ S}
                                \cup {<<f, r, "has_cert">> : r \in Env[f] \ missing}
           /\ UNCHANGED told
        \/ /\ "portal" \notin on
           /\ Ndr(f)
           /\ UNCHANGED portal
  /\ Answer(f, "250")
  /\ UNCHANGED <<config, wants, carried, out, waived>>

(* Something raises before anything was handed over.  Before the triggers  *)
(* and rules were looked at, nobody knows that encryption was asked for.   *)
Raise(f) ==
  /\ "raise" \in Faults
  /\ \/ /\ pc[f] = "offered"
        /\ Branch(f) \notin {"refuse", "forward"}
        /\ \E w \in {FALSE} \cup (IF Branch(f) = "sign"
                                  THEN {T(f).asks, T(f).asks \/ Rule(f)} ELSE {}) :
             /\ Caught(f, w, out, carried)
             /\ waived' = waived \cup
                  (IF ~w /\ (T(f).asks \/ Rule(f)) THEN {<<f, "early">>} ELSE {})
     \/ /\ pc[f] = "decrypt"
        /\ Caught(f, FALSE, out, carried)
        /\ waived' = Bypassed(f)
     \/ /\ pc[f] \in {"user", "sign"}
        /\ Caught(f, wants[f], out, carried)
        /\ UNCHANGED waived
  /\ UNCHANGED <<config, wants, portal>>

-----------------------------------------------------------------------------
Switch(s) ==
  /\ Event
  /\ on' = IF s \in on THEN on \ {s} ELSE on \cup {s}
  /\ UNCHANGED <<mail, pc, wants, cert, carried, out, portal, told, gone, waived>>

(* A certificate is imported, harvested or deleted, expires, is revoked,   *)
(* or its revocation list cannot be fetched.                               *)
Certificate(r) ==
  /\ Event
  /\ \E c \in {"none", "good", "bad"} \ {cert[r]} : cert' = [cert EXCEPT ![r] = c]
  /\ UNCHANGED <<mail, pc, wants, on, carried, out, portal, told, gone, waived>>

(* The process restarts: Exchange offers every unanswered mail again.      *)
Restart ==
  /\ Event
  /\ pc' = [f \in Fork |-> IF pc[f] \in Suspended THEN "offered" ELSE pc[f]]
  /\ carried' = {}
  /\ UNCHANGED <<mail, wants, on, cert, out, portal, told, gone, waived>>

Handle(f) ==
  \/ Refuse(f) \/ Forward(f) \/ Consume(f) \/ Pass(f) \/ Loop(f)
  \/ Strip(f) \/ Own(f) \/ Inner(f) \/ BeginDecrypt(f) \/ Decrypted(f)
  \/ StartSigning(f) \/ Sign(f) \/ Signed(f) \/ Seal(f) \/ Unsealable(f)
  \/ Raise(f)

Next ==
  \/ \E f \in Fork : Handle(f)
  \/ \E s \in Setting : Switch(s)
  \/ \E r \in Rcpt : Certificate(r)
  \/ Restart

Spec == Init /\ [][Next]_vars

-----------------------------------------------------------------------------
(* Type correctness.                                                       *)
TypeOK ==
  /\ mail \in [Mail -> AllTraits]
  /\ pc \in [Fork -> Stage]
  /\ wants \in [Fork -> BOOLEAN]
  /\ on \subseteq Setting
  /\ cert \in [Rcpt -> {"none", "good", "bad"}]
  /\ carried \subseteq Mail
  /\ out \subseteq Copy
  /\ portal \subseteq Fork \X Rcpt
  /\ told \subseteq Fork
  /\ gone \subseteq Fork \X Rcpt \X LossCause
  /\ waived \subseteq Fork \X WaiveCause
  /\ events \in 0..MaxEvents

Reached(f, r) == \E c \in out : MailOf[c.fork] = MailOf[f] /\ r \in c.to
Served(f, r) == Reached(f, r) \/ <<f, r>> \in portal \/ f \in told

(* Nobody is forgotten: when Exchange has its 250, every recipient of the  *)
(* transaction was handed over (by it or by the sibling that carried the   *)
(* whole mail), has the link to a portal message, the sender was told, or  *)
(* the handler let go of the recipient in one of eight named places -      *)
(* whatever changed while the transaction waited.                          *)
NobodyForgotten ==
  \A f \in Fork, r \in Rcpt :
    pc[f] = "250" /\ r \in Env[f] =>
      Served(f, r) \/ \E c \in LossCause : <<f, r, c>> \in gone

(* Plain text goes out for a transaction that asks for encryption only     *)
(* where the handler passes encryption over: a branch before the test, an  *)
(* exception before it, S/MIME switched off, or a failed cipher.  In       *)
(* particular never from the except clause once it knows better.           *)
PlainOnlyWhenWaived ==
  \A c \in out :
    (T(c.fork).asks \/ Rule(c.fork)) /\ c.form # "sealed" =>
      \E w \in WaiveCause : <<c.fork, w>> \in waived

(* No circle: whatever goes back to Exchange carries the marker its        *)
(* transport rules exempt, so that it does not come here again.            *)
NoCircle == \A c \in out : c.way # "forward" => c.marked

(* "All missing recipients handled via portal": with the portal on, a mail *)
(* to be encrypted reaches everybody, one way or the other.                *)
PortalServesAll ==
  \A f \in Fork, r \in Rcpt :
    pc[f] = "250" /\ r \in Env[f] => Served(f, r)
================================================================================
