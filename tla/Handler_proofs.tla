---------------------------- MODULE Handler_proofs ----------------------------
(***************************************************************************)
(* Proofs about the branches of handle_DATA in Handler, for every number   *)
(* of mails, recipients and transactions, every kind of mail, all settings *)
(* and every set of faults.                                                *)
(***************************************************************************)
EXTENDS Handler, TLAPS

USE HandlerAssumption

(* Among the copies o somebody was sent mail m's copy for x.               *)
ReachedIn(o, m, x) == \E c \in o : MailOf[c.fork] = m /\ x \in c.to

(* Whoever the registry says is served by a send-to-all is served by it.   *)
CarriedIn(o, car) == \A m \in car : \A x \in Hdr[m] : ReachedIn(o, m, x)

(* What a suspended transaction remembers of its wish for encryption.      *)
Asked(f) == T(f).asks \/ Rule(f)
WishRemembered ==
  \A f \in Fork : /\ pc[f] = "user" => (wants[f] <=> Asked(f))
                  /\ pc[f] = "sign" => ~wants[f] /\ ~Asked(f)

Kept(f, x) == Served(f, x) \/ \E c \in LossCause : <<f, x, c>> \in gone

(* The inductive invariant.                                                *)
HandlerInv ==
  /\ TypeOK
  /\ CarriedIn(out, carried)
  /\ WishRemembered
  /\ NobodyForgotten /\ PlainOnlyWhenWaived /\ NoCircle

-----------------------------------------------------------------------------
(* Where send() delivers, it is to the envelope at least, unless a sibling *)
(* has carried the whole mail, or nobody will: then it is noted.           *)
LEMMA ResultsFacts ==
  ASSUME NEW f \in Fork, NEW car \in SUBSET Mail, NEW r \in Results(f, car)
  PROVE  /\ r.to \in SUBSET Rcpt
         /\ r.ok => \A x \in Env[f] :
              \/ x \in r.to
              \/ MailOf[f] \in car /\ x \in Hdr[MailOf[f]]
              \/ <<f, x, "bcc">> \in Hidden(f, r)
<1>1. \A D \in Destinations(f, car) :
        /\ D \in SUBSET Rcpt
        /\ \/ D = Env[f]
           \/ MixedFork(f) /\ (D = Hdr[MailOf[f]] \/ MailOf[f] \in car)
  BY DEF Destinations
<1>2. \/ \E D \in Destinations(f, car) : r = [to |-> D, ok |-> TRUE]
      \/ \E S \in UNION {SUBSET D : D \in Destinations(f, car)} :
            r = [to |-> S, ok |-> FALSE]
  BY DEF Results
<1>3. r.to \in SUBSET Rcpt
  BY <1>1, <1>2
<1>4. ASSUME r.ok, NEW x \in Env[f], x \notin r.to,
             ~(MailOf[f] \in car /\ x \in Hdr[MailOf[f]])
      PROVE  <<f, x, "bcc">> \in Hidden(f, r)
  <2>1. MixedFork(f) /\ r.to # Env[f] /\ x \notin Hdr[MailOf[f]]
    BY <1>1, <1>2, <1>4
  <2> QED  BY <1>4, <2>1 DEF Hidden
<1> QED  BY <1>3, <1>4

(* The note is of the transaction's own recipients.                        *)
LEMMA HiddenFacts ==
  ASSUME TypeOK, NEW f \in Fork, NEW r, gone' = gone \cup Hidden(f, r)
  PROVE  gone \subseteq gone' /\ gone' \subseteq Fork \X Rcpt \X LossCause
<1>1. Hidden(f, r) \subseteq Fork \X Rcpt \X LossCause
  BY DEF Hidden, LossCause
<1> QED  BY <1>1 DEF TypeOK

(* The copy for the recipients S, if there are any.                        *)
LEMMA CopiesFacts ==
  ASSUME NEW f \in Fork, NEW S \in SUBSET Rcpt, NEW form \in Form,
         NEW way \in Way, NEW marked \in BOOLEAN,
         NEW new, new = Copies(f, S, form, way, marked)
  PROVE  /\ new \in SUBSET Copy
         /\ \A x \in S : \E c \in new : c.fork = f /\ x \in c.to
         /\ \A c \in new : /\ c.fork = f /\ c.form = form
                           /\ c.way = way /\ c.marked = marked
<1> DEFINE c0 == CopyOf(f, S, form, way, marked)
<1>1. /\ c0 \in Copy /\ c0.fork = f /\ c0.to = S /\ c0.form = form
      /\ c0.way = way /\ c0.marked = marked
  BY DEF CopyOf, Copy
<1>2. new \subseteq {c0} /\ (S # {} => c0 \in new)
  BY DEF Copies
<1> QED  BY <1>1, <1>2

(* One call of send(): the copies stay well typed, the registry stays true, *)
(* and when all is well everybody of the envelope is reached, or noted.     *)
LEMMA HandOver ==
  ASSUME NEW f \in Fork, NEW o \in SUBSET Copy, NEW car \in SUBSET Mail,
         CarriedIn(o, car), NEW r \in Results(f, car),
         NEW new \in SUBSET Copy,
         \A x \in r.to : \E c \in new : c.fork = f /\ x \in c.to
  PROVE  /\ Carried(f, r, car) \in SUBSET Mail
         /\ CarriedIn(o \cup new, Carried(f, r, car))
         /\ r.ok => \A x \in Env[f] : \/ ReachedIn(o \cup new, MailOf[f], x)
                                      \/ <<f, x, "bcc">> \in Hidden(f, r)
<1>1. /\ r.to \in SUBSET Rcpt
      /\ r.ok => \A x \in Env[f] :
           \/ x \in r.to
           \/ MailOf[f] \in car /\ x \in Hdr[MailOf[f]]
           \/ <<f, x, "bcc">> \in Hidden(f, r)
  BY ResultsFacts
<1>4. Carried(f, r, car) \in SUBSET Mail
  BY DEF Carried
<1>5. ASSUME NEW x \in r.to PROVE ReachedIn(o \cup new, MailOf[f], x)
  BY DEF ReachedIn
<1>6. \A m \in Mail, x \in Rcpt : ReachedIn(o, m, x) => ReachedIn(o \cup new, m, x)
  BY DEF ReachedIn
<1>7. CarriedIn(o \cup new, Carried(f, r, car))
  BY <1>5, <1>6 DEF CarriedIn, Carried
<1>8. r.ok => \A x \in Env[f] : \/ ReachedIn(o \cup new, MailOf[f], x)
                                \/ <<f, x, "bcc">> \in Hidden(f, r)
  BY <1>1, <1>5, <1>6 DEF CarriedIn
<1> QED  BY <1>4, <1>7, <1>8

-----------------------------------------------------------------------------
(* What every section of a transaction f does: the history only grows, and *)
(* a 250 is given when everybody of the envelope is kept.                  *)
Moves(f) ==
  /\ pc' \in [Fork -> Stage] /\ events' \in 0..MaxEvents
  /\ \A g \in Fork \ {f} : pc'[g] = pc[g]
  /\ out \subseteq out' /\ out' \subseteq Copy
  /\ carried' \in SUBSET Mail /\ CarriedIn(out', carried')
  /\ told \subseteq told' /\ told' \subseteq Fork
  /\ gone \subseteq gone' /\ gone' \subseteq Fork \X Rcpt \X LossCause
  /\ pc'[f] = "250" => \A x \in Env[f] : Kept(f, x)'

(* A section that ends with send(), a hold or the except clause: what it   *)
(* hands over, and that the transaction waits no longer.                   *)
HandsOver(f, form, marked, w) ==
  /\ pc'[f] \notin Suspended
  /\ \A c \in out' \ out : /\ c.fork = f
                           /\ \/ c.form = form /\ c.marked = marked
                              \/ c.form = "original" /\ c.marked /\ ~w

LEMMA AnswerFacts ==
  ASSUME TypeOK, NEW f \in Fork, NEW a \in Stage, Answer(f, a)
  PROVE  /\ pc' \in [Fork -> Stage] /\ pc'[f] = a
         /\ \A g \in Fork \ {f} : pc'[g] = pc[g]
         /\ events' \in 0..MaxEvents
BY DEF TypeOK, Answer, Event

(* The report, or a note that it failed, keeps the whole envelope.         *)
LEMMA NdrFacts ==
  ASSUME TypeOK, NEW f \in Fork, Ndr(f)
  PROVE  /\ told \subseteq told' /\ told' \subseteq Fork
         /\ gone \subseteq gone' /\ gone' \subseteq Fork \X Rcpt \X LossCause
         /\ \A x \in Env[f] : Kept(f, x)'
<1>1. CASE told' = told \cup {f} /\ UNCHANGED gone
  BY <1>1 DEF TypeOK, Kept, Served
<1>2. CASE gone' = gone \cup {<<f, r, "unreported">> : r \in Env[f]} /\ UNCHANGED told
  BY <1>2 DEF TypeOK, Kept, LossCause
<1> QED  BY <1>1, <1>2 DEF Ndr

(* The except clause, entered with the copies o already handed over.       *)
LEMMA CaughtFacts ==
  ASSUME TypeOK, NEW f \in Fork, NEW w \in BOOLEAN,
         NEW o \in SUBSET Copy, NEW car \in SUBSET Mail,
         out \subseteq o, CarriedIn(o, car), Caught(f, w, o, car)
  PROVE  /\ Moves(f) /\ pc'[f] \notin Suspended
         /\ \A c \in out' \ o : c.fork = f /\ c.form = "original" /\ c.marked /\ ~w
<1>0. "250" \in Stage /\ "offered" \in Stage /\ "original" \in Form
      /\ "250" \notin Suspended /\ "offered" \notin Suspended /\ "250" # "offered"
  BY DEF Stage, Form, Suspended
<1>1. CASE w /\ out' = o /\ carried' = car /\ Ndr(f) /\ Answer(f, "250")
  <2>1. /\ pc' \in [Fork -> Stage] /\ pc'[f] = "250" /\ events' \in 0..MaxEvents
        /\ \A g \in Fork \ {f} : pc'[g] = pc[g]
    BY <1>0, <1>1, AnswerFacts
  <2>2. /\ told \subseteq told' /\ told' \subseteq Fork
        /\ gone \subseteq gone' /\ gone' \subseteq Fork \X Rcpt \X LossCause
        /\ \A x \in Env[f] : Kept(f, x)'
    BY <1>1, NdrFacts
  <2> QED  BY <1>0, <1>1, <2>1, <2>2 DEF Moves
<1>2. CASE /\ ~w /\ UNCHANGED told
           /\ \E r \in Results(f, car) :
                /\ gone' = gone \cup Hidden(f, r)
                /\ out' = o \cup Copies(f, r.to, "original", "send", TRUE)
                /\ carried' = Carried(f, r, car)
                /\ Answer(f, IF r.ok THEN "250" ELSE "offered")
  <2>1. PICK r \in Results(f, car) :
          /\ gone' = gone \cup Hidden(f, r)
          /\ out' = o \cup Copies(f, r.to, "original", "send", TRUE)
          /\ carried' = Carried(f, r, car)
          /\ Answer(f, IF r.ok THEN "250" ELSE "offered")
    BY <1>2
  <2>2. /\ out' \in SUBSET Copy /\ carried' \in SUBSET Mail
        /\ CarriedIn(out', carried')
        /\ r.ok => \A x \in Env[f] : \/ ReachedIn(out', MailOf[f], x)
                                     \/ <<f, x, "bcc">> \in Hidden(f, r)
        /\ \A c \in out' \ o : c.fork = f /\ c.form = "original" /\ c.marked = TRUE
    <3> DEFINE new == Copies(f, r.to, "original", "send", TRUE)
    <3>1. r.to \in SUBSET Rcpt /\ "send" \in Way /\ TRUE \in BOOLEAN
      BY ResultsFacts DEF Way
    <3>2. /\ new \in SUBSET Copy
          /\ \A x \in r.to : \E c \in new : c.fork = f /\ x \in c.to
          /\ \A c \in new : c.fork = f /\ c.form = "original" /\ c.marked = TRUE
      <4> DEFINE c0 == CopyOf(f, r.to, "original", "send", TRUE)
      <4>1. /\ c0 \in Copy /\ c0.fork = f /\ c0.to = r.to
            /\ c0.form = "original" /\ c0.marked = TRUE
        BY <1>0, <3>1 DEF CopyOf, Copy
      <4>2. new \subseteq {c0} /\ (r.to # {} => c0 \in new)
        BY DEF Copies
      <4> QED  BY <4>1, <4>2
    <3>3. out' = o \cup new
      BY <2>1
    <3> HIDE DEF new
    <3>4. /\ Carried(f, r, car) \in SUBSET Mail
          /\ CarriedIn(o \cup new, Carried(f, r, car))
          /\ r.ok => \A x \in Env[f] : \/ ReachedIn(o \cup new, MailOf[f], x)
                                       \/ <<f, x, "bcc">> \in Hidden(f, r)
      BY <3>2, HandOver
    <3> QED  BY <2>1, <3>2, <3>3, <3>4
  <2>3. /\ pc' \in [Fork -> Stage] /\ events' \in 0..MaxEvents
        /\ pc'[f] = (IF r.ok THEN "250" ELSE "offered")
        /\ \A g \in Fork \ {f} : pc'[g] = pc[g]
    BY <1>0, <2>1, AnswerFacts
  <2>4. pc'[f] = "250" => \A x \in Env[f] : Kept(f, x)'
    <3>1. "bcc" \in LossCause
      BY DEF LossCause
    <3> QED  BY <1>0, <2>1, <2>2, <2>3, <3>1 DEF Kept, Served, Reached, ReachedIn
  <2>5. /\ told' = told /\ told \subseteq Fork
        /\ gone \subseteq gone' /\ gone' \subseteq Fork \X Rcpt \X LossCause
    BY <1>2, <2>1, HiddenFacts DEF TypeOK
  <2>6. pc'[f] \notin Suspended
    BY <1>0, <2>3
  <2>7. out \subseteq out'
    BY <2>1
  <2> QED  BY <1>2, <2>2, <2>3, <2>4, <2>5, <2>6, <2>7 DEF Moves
<1>3. CASE ~w /\ out' = o /\ carried' = car /\ UNCHANGED <<told, gone>> /\ Answer(f, "offered")
  <2>1. /\ pc' \in [Fork -> Stage] /\ pc'[f] = "offered" /\ events' \in 0..MaxEvents
        /\ \A g \in Fork \ {f} : pc'[g] = pc[g]
    BY <1>0, <1>3, AnswerFacts
  <2> QED  BY <1>0, <1>3, <2>1 DEF Moves, TypeOK
<1> QED  BY <1>1, <1>2, <1>3 DEF Caught

(* reinject.send with what follows it in the section.                      *)
LEMMA SendFacts ==
  ASSUME TypeOK, CarriedIn(out, carried), NEW f \in Fork,
         NEW form \in Form, NEW marked \in BOOLEAN, NEW w \in BOOLEAN,
         Send(f, form, marked, w)
  PROVE  Moves(f) /\ HandsOver(f, form, marked, w)
<1> DEFINE Done(r) == out \cup Copies(f, r.to, form, "send", marked)
           Car(r) == Carried(f, r, carried)
<1>1. PICK r \in Results(f, carried) :
        \/ /\ r.ok /\ out' = Done(r) /\ carried' = Car(r)
           /\ Answer(f, "250") /\ gone' = gone \cup Hidden(f, r) /\ UNCHANGED told
        \/ ~r.ok /\ Caught(f, w, Done(r), Car(r))
  BY DEF Send
<1>2. out \in SUBSET Copy /\ carried \in SUBSET Mail
  BY DEF TypeOK
<1>3. /\ Done(r) \in SUBSET Copy /\ Car(r) \in SUBSET Mail
      /\ CarriedIn(Done(r), Car(r))
      /\ r.ok => \A x \in Env[f] : \/ ReachedIn(Done(r), MailOf[f], x)
                                   \/ <<f, x, "bcc">> \in Hidden(f, r)
      /\ \A c \in Done(r) \ out : c.fork = f /\ c.form = form /\ c.marked = marked
  <2> DEFINE new == Copies(f, r.to, form, "send", marked)
  <2>1. r.to \in SUBSET Rcpt /\ "send" \in Way
    BY <1>2, ResultsFacts DEF Way
  <2>2. /\ new \in SUBSET Copy
        /\ \A x \in r.to : \E c \in new : c.fork = f /\ x \in c.to
        /\ \A c \in new : c.fork = f /\ c.form = form /\ c.marked = marked
    <3> DEFINE c0 == CopyOf(f, r.to, form, "send", marked)
    <3>1. /\ c0 \in Copy /\ c0.fork = f /\ c0.to = r.to
          /\ c0.form = form /\ c0.marked = marked
      BY <2>1 DEF CopyOf, Copy
    <3>2. new \subseteq {c0} /\ (r.to # {} => c0 \in new)
      BY DEF Copies
    <3> QED  BY <3>1, <3>2
  <2>3. Done(r) = out \cup new
    OBVIOUS
  <2> HIDE DEF new
  <2>4. /\ Car(r) \in SUBSET Mail /\ CarriedIn(out \cup new, Car(r))
        /\ r.ok => \A x \in Env[f] : \/ ReachedIn(out \cup new, MailOf[f], x)
                                     \/ <<f, x, "bcc">> \in Hidden(f, r)
    BY <1>2, <2>2, HandOver
  <2> QED  BY <1>2, <2>2, <2>3, <2>4
<1>4. CASE /\ r.ok /\ out' = Done(r) /\ carried' = Car(r)
           /\ Answer(f, "250") /\ gone' = gone \cup Hidden(f, r) /\ UNCHANGED told
  <2>1. "250" \in Stage /\ "250" \notin Suspended
    BY DEF Stage, Suspended
  <2>2. /\ pc' \in [Fork -> Stage] /\ pc'[f] = "250" /\ events' \in 0..MaxEvents
        /\ \A g \in Fork \ {f} : pc'[g] = pc[g]
    BY <1>4, <2>1, AnswerFacts
  <2>3. \A x \in Env[f] : Kept(f, x)'
    <3>1. "bcc" \in LossCause
      BY DEF LossCause
    <3> QED  BY <1>3, <1>4, <3>1 DEF Kept, Served, Reached, ReachedIn
  <2>4. gone \subseteq gone' /\ gone' \subseteq Fork \X Rcpt \X LossCause
    BY <1>4, HiddenFacts
  <2>5. told' = told /\ told \subseteq Fork
    BY <1>4 DEF TypeOK
  <2> QED  BY <1>3, <1>4, <2>1, <2>2, <2>3, <2>4, <2>5 DEF Moves, HandsOver
<1>5. CASE ~r.ok /\ Caught(f, w, Done(r), Car(r))
  <2> DEFINE o == Done(r)
             car == Car(r)
  <2>1. /\ o \in SUBSET Copy /\ car \in SUBSET Mail /\ CarriedIn(o, car)
        /\ \A c \in o \ out : c.fork = f /\ c.form = form /\ c.marked = marked
    BY <1>3
  <2>2. out \subseteq o /\ Caught(f, w, o, car)
    BY <1>5
  <2> HIDE DEF o, car
  <2>3. /\ Moves(f) /\ pc'[f] \notin Suspended
        /\ \A c \in out' \ o : c.fork = f /\ c.form = "original" /\ c.marked /\ ~w
    BY <2>1, <2>2, CaughtFacts
  <2> QED  BY <2>1, <2>3 DEF HandsOver
<1> QED  BY <1>1, <1>4, <1>5

(* The whole envelope held, or handed to another gateway.                  *)
LEMMA PlacedFacts ==
  ASSUME TypeOK, CarriedIn(out, carried), NEW f \in Fork,
         NEW form \in Form, NEW way \in Way, NEW marked \in BOOLEAN,
         out' = out \cup Copies(f, Env[f], form, way, marked),
         Answer(f, "250"), UNCHANGED <<carried, told, gone>>
  PROVE  /\ Moves(f) /\ pc'[f] \notin Suspended
         /\ \A c \in out' \ out :
              c.fork = f /\ c.form = form /\ c.way = way /\ c.marked = marked
<1> DEFINE new == Copies(f, Env[f], form, way, marked)
<1>1. "250" \in Stage /\ "250" \notin Suspended
  BY DEF Stage, Suspended
<1>2. /\ pc' \in [Fork -> Stage] /\ pc'[f] = "250" /\ events' \in 0..MaxEvents
      /\ \A g \in Fork \ {f} : pc'[g] = pc[g]
  BY <1>1, AnswerFacts
<1>3. /\ new \in SUBSET Copy
      /\ \A x \in Env[f] : \E c \in new : c.fork = f /\ x \in c.to
      /\ \A c \in new : /\ c.fork = f /\ c.form = form
                        /\ c.way = way /\ c.marked = marked
  BY CopiesFacts
<1>4. out' = out \cup new
  OBVIOUS
<1> HIDE DEF new
<1>5. out' \subseteq Copy /\ out \subseteq out'
  BY <1>3, <1>4 DEF TypeOK
<1>7. ASSUME NEW x \in Env[f] PROVE Kept(f, x)'
  BY <1>3, <1>4 DEF Kept, Served, Reached
<1>8. CarriedIn(out', carried')
  BY <1>5 DEF CarriedIn, ReachedIn
<1>9. /\ carried' \in SUBSET Mail
      /\ told \subseteq told' /\ told' \subseteq Fork
      /\ gone \subseteq gone' /\ gone' \subseteq Fork \X Rcpt \X LossCause
  BY DEF TypeOK
<1>10. Moves(f)
  BY <1>2, <1>5, <1>7, <1>8, <1>9 DEF Moves
<1> QED  BY <1>1, <1>2, <1>3, <1>4, <1>10

(* The end of the signing branch.                                          *)
LEMMA ReturnFacts ==
  ASSUME TypeOK, CarriedIn(out, carried), NEW f \in Fork,
         NEW form \in Form, NEW w \in BOOLEAN, Return(f, form, w)
  PROVE  Moves(f) /\ HandsOver(f, form, TRUE, w)
<1>1. CASE /\ out' = out \cup Copies(f, Env[f], form, "hold", TRUE)
           /\ Answer(f, "250") /\ UNCHANGED <<carried, told, gone>>
  <2>1. "hold" \in Way /\ TRUE \in BOOLEAN
    BY DEF Way
  <2>2. /\ Moves(f) /\ pc'[f] \notin Suspended
        /\ \A c \in out' \ out :
             c.fork = f /\ c.form = form /\ c.way = "hold" /\ c.marked = TRUE
    BY <1>1, <2>1, PlacedFacts
  <2> QED  BY <2>2 DEF HandsOver
<1>2. CASE Caught(f, w, out, carried)
  <2>1. out \in SUBSET Copy /\ carried \in SUBSET Mail /\ out \subseteq out
    BY DEF TypeOK
  <2> QED  BY <1>2, <2>1, CaughtFacts DEF HandsOver
<1>3. CASE Send(f, form, TRUE, w)
  BY <1>3, SendFacts
<1> QED  BY <1>1, <1>2, <1>3 DEF Return

(* The mail is let go of, in the name of one of the causes.                *)
LEMMA LetGoFacts ==
  ASSUME TypeOK, CarriedIn(out, carried), NEW f \in Fork, NEW cause \in LossCause,
         LetGo(f, cause), Answer(f, "250"), UNCHANGED <<out, carried, told>>
  PROVE  Moves(f) /\ out' = out /\ pc'[f] \notin Suspended
<1>1. "250" \in Stage /\ "250" \notin Suspended
  BY DEF Stage, Suspended
<1>2. /\ pc' \in [Fork -> Stage] /\ pc'[f] = "250" /\ events' \in 0..MaxEvents
      /\ \A g \in Fork \ {f} : pc'[g] = pc[g]
  BY <1>1, AnswerFacts
<1>3. /\ gone \subseteq gone' /\ gone' \subseteq Fork \X Rcpt \X LossCause
      /\ \A x \in Env[f] : <<f, x, cause>> \in gone'
  BY DEF LetGo, TypeOK
<1> QED  BY <1>1, <1>2, <1>3 DEF Moves, TypeOK, Kept

(* Another answer than 250, or an await; nobody gets anything.             *)
LEMMA AnswerMoves ==
  ASSUME TypeOK, CarriedIn(out, carried), NEW f \in Fork, NEW a \in Stage \ {"250"},
         Answer(f, a), UNCHANGED <<out, carried, told, gone>>
  PROVE  Moves(f) /\ out' = out /\ pc'[f] = a
<1>1. /\ pc' \in [Fork -> Stage] /\ pc'[f] = a /\ events' \in 0..MaxEvents
      /\ \A g \in Fork \ {f} : pc'[g] = pc[g]
  BY AnswerFacts
<1> QED  BY <1>1 DEF Moves, TypeOK

-----------------------------------------------------------------------------
(* What a section has to show to keep the invariant.                       *)
Excused(f) == \E w \in WaiveCause : <<f, w>> \in waived

LEMMA StepKeeps ==
  ASSUME HandlerInv, NEW f \in Fork, Moves(f), UNCHANGED config,
         wants' \in [Fork -> BOOLEAN],
         \A g \in Fork \ {f} : wants'[g] = wants[g],
         portal \subseteq portal', portal' \subseteq Fork \X Rcpt,
         waived \subseteq waived', waived' \subseteq Fork \X WaiveCause,
         pc'[f] = "user" => (wants'[f] <=> Asked(f)),
         pc'[f] = "sign" => ~wants'[f] /\ ~Asked(f),
         \A c \in out' \ out :
           /\ c.fork = f
           /\ c.way # "forward" => c.marked
           /\ Asked(f) /\ c.form # "sealed" => Excused(f)'
  PROVE  HandlerInv'
<1>1. TypeOK'
  BY DEF HandlerInv, TypeOK, Moves, config
<1>2. CarriedIn(out, carried)'
  BY DEF Moves
<1>3. mail' = mail
  BY DEF config
<1>4. \A g \in Fork : Asked(g)' <=> Asked(g)
  BY <1>3 DEF Asked, T, Rule
<1>5. WishRemembered'
  BY <1>4 DEF HandlerInv, WishRemembered, Moves
<1>6. NobodyForgotten'
  <2>1. SUFFICES ASSUME NEW g \in Fork, NEW x \in Rcpt, pc'[g] = "250", x \in Env[g]
                 PROVE  Kept(g, x)'
    BY DEF NobodyForgotten, Kept
  <2>2. CASE g = f
    BY <2>1, <2>2 DEF Moves
  <2>3. CASE g # f
    <3>1. Kept(g, x)
      BY <2>1, <2>3 DEF HandlerInv, NobodyForgotten, Kept, Moves
    <3>2. out \subseteq out' /\ told \subseteq told' /\ gone \subseteq gone'
      BY DEF Moves
    <3> QED  BY <3>1, <3>2 DEF Kept, Served, Reached
  <2> QED  BY <2>2, <2>3
<1>7. PlainOnlyWhenWaived'
  <2>1. SUFFICES ASSUME NEW c \in out', (T(c.fork).asks \/ Rule(c.fork))', c.form # "sealed"
                 PROVE  \E w \in WaiveCause : <<c.fork, w>> \in waived'
    BY DEF PlainOnlyWhenWaived
  <2>2. CASE c \in out
    <3>1. T(c.fork).asks \/ Rule(c.fork)
      BY <1>3, <2>1 DEF T, Rule
    <3> QED  BY <2>1, <2>2, <3>1 DEF HandlerInv, PlainOnlyWhenWaived
  <2>3. CASE c \notin out
    BY <1>3, <2>1, <2>3 DEF Excused, Asked, T, Rule
  <2> QED  BY <2>2, <2>3
<1>8. NoCircle'
  BY DEF HandlerInv, NoCircle
<1> QED  BY <1>1, <1>2, <1>5, <1>6, <1>7, <1>8 DEF HandlerInv

(* A section that hands the mail over in some form, encryption waived for  *)
(* it where it had to be.                                                  *)
LEMMA HandsOverKeeps ==
  ASSUME HandlerInv, NEW f \in Fork, NEW form \in Form, NEW w \in BOOLEAN,
         Moves(f), HandsOver(f, form, TRUE, w), UNCHANGED <<config, wants, portal>>,
         waived \subseteq waived', waived' \subseteq Fork \X WaiveCause,
         Asked(f) /\ (form # "sealed" \/ ~w) => Excused(f)'
  PROVE  HandlerInv'
<1>1. pc'[f] # "user" /\ pc'[f] # "sign"
  BY DEF HandsOver, Suspended
<1>2. \A c \in out' \ out :
        /\ c.fork = f /\ c.marked
        /\ Asked(f) /\ c.form # "sealed" => Excused(f)'
  BY DEF HandsOver
<1>3. UNCHANGED <<config, wants, portal>> /\ wants \in [Fork -> BOOLEAN]
      /\ portal \subseteq Fork \X Rcpt
  BY DEF HandlerInv, TypeOK
<1> QED  BY <1>1, <1>2, <1>3, StepKeeps

(* A section that hands nothing over and awaits nothing.                   *)
LEMMA QuietKeeps ==
  ASSUME HandlerInv, NEW f \in Fork, Moves(f), out' = out,
         pc'[f] \notin {"user", "sign"}, UNCHANGED <<config, wants>>,
         portal \subseteq portal', portal' \subseteq Fork \X Rcpt,
         waived \subseteq waived', waived' \subseteq Fork \X WaiveCause
  PROVE  HandlerInv'
<1>1. UNCHANGED <<config, wants>> /\ wants \in [Fork -> BOOLEAN]
  BY DEF HandlerInv, TypeOK
<1> QED  BY <1>1, StepKeeps

(* The branches before the tests for encryption waive it.                  *)
LEMMA BypassFacts ==
  ASSUME TypeOK, NEW f \in Fork, waived' = Bypassed(f)
  PROVE  /\ waived \subseteq waived' /\ waived' \subseteq Fork \X WaiveCause
         /\ Asked(f) => Excused(f)'
BY DEF TypeOK, Bypassed, Asked, Excused, WaiveCause

LEMMA LoopIsMarked ==
  ASSUME NEW f \in Fork, Branch(f) = "loop"
  PROVE  T(f).marked
BY DEF Branch

-----------------------------------------------------------------------------
(* Every section of handle_DATA keeps the invariant.                       *)
LEMMA SendKeeps ==
  ASSUME HandlerInv, NEW f \in Fork, NEW form \in Form,
         Send(f, form, TRUE, FALSE), waived' = Bypassed(f),
         UNCHANGED <<config, wants, portal>>
  PROVE  HandlerInv'
<1>1. TypeOK /\ CarriedIn(out, carried)
  BY DEF HandlerInv
<1>2. Moves(f) /\ HandsOver(f, form, TRUE, FALSE)
  BY <1>1, SendFacts
<1>3. /\ waived \subseteq waived' /\ waived' \subseteq Fork \X WaiveCause
      /\ Asked(f) => Excused(f)'
  BY <1>1, BypassFacts
<1> QED  BY <1>2, <1>3, HandsOverKeeps

LEMMA RefuseKeeps ==
  ASSUME HandlerInv, NEW f \in Fork, Refuse(f)
  PROVE  HandlerInv'
<1>1. "554" \in Stage \ {"250"} /\ "554" \notin {"user", "sign"}
  BY DEF Stage
<1>2. Moves(f) /\ out' = out /\ pc'[f] = "554"
  BY <1>1, AnswerMoves DEF HandlerInv, Refuse
<1> QED  BY <1>1, <1>2, QuietKeeps DEF Refuse, HandlerInv, TypeOK

LEMMA ForwardKeeps ==
  ASSUME HandlerInv, NEW f \in Fork, Forward(f)
  PROVE  HandlerInv'
<1>0. TypeOK /\ CarriedIn(out, carried) /\ UNCHANGED <<config, wants, carried, portal, told, gone>>
  BY DEF HandlerInv, Forward
<1>1. CASE /\ out' = out \cup Copies(f, Env[f], "original", "forward", T(f).marked)
           /\ Answer(f, "250") /\ waived' = Bypassed(f)
  <2>1. "forward" \in Way /\ "original" \in Form /\ T(f).marked \in BOOLEAN
    BY <1>0 DEF Way, Form, T, TypeOK, AllTraits
  <2>2. /\ Moves(f) /\ pc'[f] \notin Suspended
        /\ \A c \in out' \ out : c.fork = f /\ c.way = "forward"
    BY <1>0, <1>1, <2>1, PlacedFacts
  <2>3. /\ waived \subseteq waived' /\ waived' \subseteq Fork \X WaiveCause
        /\ Asked(f) => Excused(f)'
    BY <1>0, <1>1, BypassFacts
  <2>4. pc'[f] # "user" /\ pc'[f] # "sign"
    BY <2>2 DEF Suspended
  <2> QED  BY <1>0, <2>2, <2>3, <2>4, StepKeeps DEF TypeOK
<1>2. CASE UNCHANGED <<pc, events, out, waived>>
  <2>1. UNCHANGED vars
    BY <1>0, <1>2 DEF vars, config
  <2> QED  BY <2>1 DEF HandlerInv, vars, TypeOK, CarriedIn, ReachedIn, WishRemembered,
           NobodyForgotten, PlainOnlyWhenWaived, NoCircle, Asked, T, Rule, Served, Reached
<1>3. CASE Answer(f, "554") /\ UNCHANGED <<out, waived>>
  <2>1. "554" \in Stage \ {"250"} /\ "554" \notin {"user", "sign"}
    BY DEF Stage
  <2>2. Moves(f) /\ out' = out /\ pc'[f] = "554"
    BY <1>0, <1>3, <2>1, AnswerMoves
  <2> QED  BY <1>0, <1>3, <2>1, <2>2, QuietKeeps DEF TypeOK
<1> QED  BY <1>1, <1>2, <1>3 DEF Forward

LEMMA LetGoKeeps ==
  ASSUME HandlerInv, NEW f \in Fork, NEW cause \in LossCause,
         LetGo(f, cause), Answer(f, "250"), UNCHANGED <<out, carried, told>>,
         UNCHANGED <<config, wants, portal>>,
         waived \subseteq waived', waived' \subseteq Fork \X WaiveCause
  PROVE  HandlerInv'
<1>1. TypeOK /\ CarriedIn(out, carried)
  BY DEF HandlerInv
<1>2. Moves(f) /\ out' = out /\ pc'[f] \notin {"user", "sign"}
  BY <1>1, LetGoFacts DEF Suspended
<1> QED  BY <1>1, <1>2, QuietKeeps DEF TypeOK

LEMMA ConsumeKeeps ==
  ASSUME HandlerInv, NEW f \in Fork, Consume(f) \/ Inner(f)
  PROVE  HandlerInv'
<1>0. waived \subseteq Fork \X WaiveCause
  BY DEF HandlerInv, TypeOK
<1>1. CASE Consume(f)
  <2>1. T(f).sort \in LossCause
    BY <1>1 DEF Consume, Takes, Branch, LossCause
  <2> QED  BY <1>0, <1>1, <2>1, LetGoKeeps DEF Consume
<1>2. CASE Inner(f)
  <2>1. "inner" \in LossCause
    BY DEF LossCause
  <2> QED  BY <1>0, <1>2, <2>1, LetGoKeeps DEF Inner
<1> QED  BY <1>1, <1>2

(* The branches that let the mail pass, stripped of a signature or not.    *)
LEMMA PassKeeps ==
  ASSUME HandlerInv, NEW f \in Fork, Pass(f) \/ Loop(f) \/ Strip(f) \/ Decrypted(f)
  PROVE  HandlerInv'
<1>0. "original" \in Form /\ "opened" \in Form
  BY DEF Form
<1>1. CASE Pass(f)
  BY <1>0, <1>1, SendKeeps DEF Pass
<1>2. CASE Loop(f)
  <2>1. T(f).marked = TRUE
    BY <1>2, LoopIsMarked DEF Loop, Takes, HandlerInv, TypeOK, AllTraits, T
  <2>2. Send(f, "original", TRUE, FALSE)
    BY <1>2, <2>1 DEF Loop
  <2> QED  BY <1>0, <1>2, <2>2, SendKeeps DEF Loop
<1>3. CASE Strip(f)
  BY <1>0, <1>3, SendKeeps DEF Strip
<1>4. CASE Decrypted(f)
  BY <1>0, <1>4, SendKeeps DEF Decrypted
<1> QED  BY <1>1, <1>2, <1>3, <1>4

LEMMA OwnKeeps ==
  ASSUME HandlerInv, NEW f \in Fork, Own(f)
  PROVE  HandlerInv'
<1>0. waived' = Bypassed(f) /\ UNCHANGED <<config, wants, portal>>
  BY DEF Own
<1>1. CASE Send(f, "opened", TRUE, FALSE)
  <2>1. "opened" \in Form
    BY DEF Form
  <2> QED  BY <1>0, <1>1, <2>1, SendKeeps
<1>2. CASE LetGo(f, "own") /\ Answer(f, "250") /\ UNCHANGED <<out, carried, told>>
  <2>1. "own" \in LossCause
    BY DEF LossCause
  <2>2. waived \subseteq waived' /\ waived' \subseteq Fork \X WaiveCause
    BY <1>0, BypassFacts DEF HandlerInv
  <2> QED  BY <1>0, <1>2, <2>1, <2>2, LetGoKeeps
<1> QED  BY <1>1, <1>2 DEF Own

LEMMA BeginDecryptKeeps ==
  ASSUME HandlerInv, NEW f \in Fork, BeginDecrypt(f)
  PROVE  HandlerInv'
<1>0. UNCHANGED <<config, wants, portal>> /\ TypeOK /\ CarriedIn(out, carried)
  BY DEF BeginDecrypt, HandlerInv
<1>1. CASE Answer(f, "decrypt") /\ UNCHANGED <<out, carried, told, gone, waived>>
  <2>1. "decrypt" \in Stage \ {"250"} /\ "decrypt" \notin {"user", "sign"}
    BY DEF Stage, Suspended
  <2>2. Moves(f) /\ out' = out /\ pc'[f] = "decrypt"
    BY <1>0, <1>1, <2>1, AnswerMoves
  <2> QED  BY <1>0, <1>1, <2>1, <2>2, QuietKeeps DEF TypeOK
<1>2. CASE Send(f, "original", TRUE, FALSE) /\ waived' = Bypassed(f)
  <2>1. "original" \in Form
    BY DEF Form
  <2> QED  BY <1>0, <1>2, <2>1, SendKeeps
<1> QED  BY <1>1, <1>2 DEF BeginDecrypt

(* The sections from the test for encryption on.                           *)
LEMMA StartSigningKeeps ==
  ASSUME HandlerInv, NEW f \in Fork, StartSigning(f)
  PROVE  HandlerInv'
<1>0. UNCHANGED <<config, carried, out, portal, waived>> /\ TypeOK /\ CarriedIn(out, carried)
  BY DEF StartSigning, HandlerInv
<1>1. CASE Ndr(f) /\ Answer(f, "250") /\ UNCHANGED wants
  <2>1. "250" \in Stage /\ "250" \notin {"user", "sign"}
    BY DEF Stage
  <2>2. /\ pc' \in [Fork -> Stage] /\ pc'[f] = "250" /\ events' \in 0..MaxEvents
        /\ \A g \in Fork \ {f} : pc'[g] = pc[g]
    BY <1>0, <1>1, <2>1, AnswerFacts
  <2>3. /\ told \subseteq told' /\ told' \subseteq Fork
        /\ gone \subseteq gone' /\ gone' \subseteq Fork \X Rcpt \X LossCause
        /\ \A x \in Env[f] : Kept(f, x)'
    BY <1>0, <1>1, NdrFacts
  <2>4. Moves(f)
    BY <1>0, <2>2, <2>3 DEF Moves, TypeOK
  <2> QED  BY <1>0, <1>1, <2>1, <2>2, <2>4, QuietKeeps DEF TypeOK
<1>2. CASE /\ wants' = [wants EXCEPT ![f] = T(f).asks \/ Rule(f)]
           /\ Answer(f, "user") /\ UNCHANGED <<told, gone>>
  <2>1. "user" \in Stage \ {"250"}
    BY DEF Stage, Suspended
  <2>2. Moves(f) /\ out' = out /\ pc'[f] = "user"
    BY <1>0, <1>2, <2>1, AnswerMoves
  <2>3. (T(f).asks \/ Rule(f)) \in BOOLEAN
    OBVIOUS
  <2>4. wants' \in [Fork -> BOOLEAN] /\ (wants'[f] <=> Asked(f))
        /\ \A g \in Fork \ {f} : wants'[g] = wants[g]
    BY <1>0, <1>2 DEF TypeOK, Asked
  <2> QED  BY <1>0, <2>2, <2>4, StepKeeps DEF TypeOK
<1> QED  BY <1>1, <1>2 DEF StartSigning

LEMMA SignKeeps ==
  ASSUME HandlerInv, NEW f \in Fork, Sign(f)
  PROVE  HandlerInv'
<1>0. /\ UNCHANGED <<config, wants, portal>> /\ TypeOK /\ CarriedIn(out, carried)
      /\ pc[f] = "user" /\ (wants[f] <=> Asked(f))
      /\ "processed" \in Form
  BY DEF Sign, HandlerInv, WishRemembered, Form
<1>1. CASE /\ ~wants[f] /\ Answer(f, "sign")
           /\ UNCHANGED <<out, carried, told, gone, waived>>
  <2>1. "sign" \in Stage \ {"250"}
    BY DEF Stage, Suspended
  <2>2. Moves(f) /\ out' = out /\ pc'[f] = "sign"
    BY <1>0, <1>1, <2>1, AnswerMoves
  <2> QED  BY <1>0, <1>1, <2>2, StepKeeps DEF TypeOK
<1>2. CASE /\ Return(f, "processed", FALSE)
           /\ waived' = waived \cup (IF wants[f] THEN {<<f, "off">>} ELSE {})
  <2>1. Moves(f) /\ HandsOver(f, "processed", TRUE, FALSE)
    BY <1>0, <1>2, ReturnFacts
  <2>2. /\ waived \subseteq waived' /\ waived' \subseteq Fork \X WaiveCause
        /\ Asked(f) => Excused(f)'
    BY <1>0, <1>2 DEF TypeOK, Excused, WaiveCause
  <2> QED  BY <1>0, <2>1, <2>2, HandsOverKeeps
<1> QED  BY <1>1, <1>2 DEF Sign

LEMMA SignedKeeps ==
  ASSUME HandlerInv, NEW f \in Fork, Signed(f)
  PROVE  HandlerInv'
<1>0. /\ UNCHANGED <<config, wants, portal, waived>> /\ TypeOK /\ CarriedIn(out, carried)
      /\ ~Asked(f) /\ "processed" \in Form /\ Return(f, "processed", FALSE)
  BY DEF Signed, HandlerInv, WishRemembered, Form
<1>1. Moves(f) /\ HandsOver(f, "processed", TRUE, FALSE)
  BY <1>0, ReturnFacts
<1> QED  BY <1>0, <1>1, HandsOverKeeps DEF TypeOK

LEMMA SealKeeps ==
  ASSUME HandlerInv, NEW f \in Fork, Seal(f)
  PROVE  HandlerInv'
<1>0. /\ UNCHANGED <<config, wants, portal>> /\ TypeOK /\ CarriedIn(out, carried)
      /\ "processed" \in Form /\ "sealed" \in Form
  BY DEF Seal, HandlerInv, Form
<1>1. CASE Return(f, "sealed", TRUE) /\ UNCHANGED waived
  <2>1. Moves(f) /\ HandsOver(f, "sealed", TRUE, TRUE)
    BY <1>0, <1>1, ReturnFacts
  <2> QED  BY <1>0, <1>1, <2>1, HandsOverKeeps DEF TypeOK
<1>2. CASE Return(f, "processed", TRUE) /\ waived' = waived \cup {<<f, "cipher">>}
  <2>1. Moves(f) /\ HandsOver(f, "processed", TRUE, TRUE)
    BY <1>0, <1>2, ReturnFacts
  <2>2. /\ waived \subseteq waived' /\ waived' \subseteq Fork \X WaiveCause
        /\ Excused(f)'
    BY <1>0, <1>2 DEF TypeOK, Excused, WaiveCause
  <2> QED  BY <1>0, <2>1, <2>2, HandsOverKeeps
<1> QED  BY <1>1, <1>2 DEF Seal

(* A portal message that failed, and a recipient nobody sends to because   *)
(* there is a certificate, are let go of by name.                          *)
LEMMA UnsealableKeeps ==
  ASSUME HandlerInv, NEW f \in Fork, Unsealable(f)
  PROVE  HandlerInv'
<1> DEFINE missing == {r \in Env[f] : cert[r] # "good"}
           Kind == /\ told \subseteq told' /\ told' \subseteq Fork
                   /\ gone \subseteq gone' /\ gone' \subseteq Fork \X Rcpt \X LossCause
                   /\ portal \subseteq portal' /\ portal' \subseteq Fork \X Rcpt
                   /\ \A x \in Env[f] : Kept(f, x)'
<1>0. /\ UNCHANGED <<config, wants, carried, out, waived>> /\ TypeOK
      /\ CarriedIn(out, carried) /\ Answer(f, "250")
      /\ "250" \in Stage /\ "250" \notin {"user", "sign"}
  BY DEF Unsealable, HandlerInv, Stage
<1>1. /\ pc' \in [Fork -> Stage] /\ pc'[f] = "250" /\ events' \in 0..MaxEvents
      /\ \A g \in Fork \ {f} : pc'[g] = pc[g]
  BY <1>0, AnswerFacts
<1>2. Kind
  <2>1. ASSUME NEW S \in SUBSET missing, UNCHANGED told,
               portal' = portal \cup {f} \X S,
               gone' = gone \cup {<<f, r, "portal">> : r \in missing \ S}
                            \cup {<<f, r, "has_cert">> : r \in Env[f] \ missing}
        PROVE  Kind
    <3>1. Env[f] \subseteq Rcpt /\ "portal" \in LossCause /\ "has_cert" \in LossCause
      BY DEF LossCause
    <3>2. gone \subseteq gone' /\ gone' \subseteq Fork \X Rcpt \X LossCause
      BY <1>0, <2>1, <3>1 DEF TypeOK
    <3>3. portal \subseteq portal' /\ portal' \subseteq Fork \X Rcpt
      BY <1>0, <2>1, <3>1 DEF TypeOK
    <3>4. ASSUME NEW x \in Env[f]
          PROVE \/ <<f, x>> \in portal' \/ <<f, x, "portal">> \in gone'
                \/ <<f, x, "has_cert">> \in gone'
      BY <2>1
    <3>5. \A x \in Env[f] : Kept(f, x)'
      BY <3>1, <3>4 DEF Kept, Served
    <3> QED  BY <1>0, <2>1, <3>2, <3>3, <3>5 DEF TypeOK
  <2>2. CASE Ndr(f) /\ UNCHANGED portal
    <3>1. portal \subseteq portal' /\ portal' \subseteq Fork \X Rcpt
      BY <1>0, <2>2 DEF TypeOK
    <3> QED  BY <1>0, <2>2, <3>1, NdrFacts
  <2> QED  BY <2>1, <2>2 DEF Unsealable
<1>3. Moves(f)
  BY <1>0, <1>1, <1>2 DEF Moves, TypeOK
<1> QED  BY <1>0, <1>1, <1>2, <1>3, QuietKeeps DEF TypeOK

(* Something raises: the original goes out, unless the wish is known.      *)
LEMMA CaughtKeeps ==
  ASSUME HandlerInv, NEW f \in Fork, NEW w \in BOOLEAN, Caught(f, w, out, carried),
         UNCHANGED <<config, wants, portal>>,
         waived \subseteq waived', waived' \subseteq Fork \X WaiveCause,
         Asked(f) /\ ~w => Excused(f)'
  PROVE  HandlerInv'
<1>1. /\ TypeOK /\ CarriedIn(out, carried) /\ "original" \in Form
      /\ out \in SUBSET Copy /\ carried \in SUBSET Mail /\ out \subseteq out
  BY DEF HandlerInv, TypeOK, Form
<1>2. /\ Moves(f) /\ pc'[f] \notin Suspended
      /\ \A c \in out' \ out : c.fork = f /\ c.form = "original" /\ c.marked /\ ~w
  BY <1>1, CaughtFacts
<1>3. pc'[f] # "user" /\ pc'[f] # "sign"
  BY <1>2 DEF Suspended
<1> QED  BY <1>1, <1>2, <1>3, StepKeeps DEF TypeOK

LEMMA RaiseKeeps ==
  ASSUME HandlerInv, NEW f \in Fork, Raise(f)
  PROVE  HandlerInv'
<1>0. UNCHANGED <<config, wants, portal>> /\ TypeOK
  BY DEF Raise, HandlerInv
<1>1. ASSUME NEW w \in {FALSE} \cup (IF Branch(f) = "sign"
                                     THEN {T(f).asks, T(f).asks \/ Rule(f)} ELSE {}),
             Caught(f, w, out, carried),
             waived' = waived \cup
               (IF ~w /\ (T(f).asks \/ Rule(f)) THEN {<<f, "early">>} ELSE {})
      PROVE  HandlerInv'
  <2>1. T(f).asks \in BOOLEAN
    BY <1>0 DEF TypeOK, T, AllTraits
  <2>2. w \in BOOLEAN
    BY <2>1
  <2>3. /\ waived \subseteq waived' /\ waived' \subseteq Fork \X WaiveCause
        /\ Asked(f) /\ ~w => Excused(f)'
    BY <1>0, <1>1 DEF TypeOK, Excused, Asked, WaiveCause
  <2> QED  BY <1>0, <1>1, <2>2, <2>3, CaughtKeeps
<1>2. CASE Caught(f, FALSE, out, carried) /\ waived' = Bypassed(f)
  <2>1. /\ waived \subseteq waived' /\ waived' \subseteq Fork \X WaiveCause
        /\ Asked(f) => Excused(f)'
    BY <1>0, <1>2, BypassFacts
  <2> QED  BY <1>0, <1>2, <2>1, CaughtKeeps
<1>3. CASE /\ pc[f] \in {"user", "sign"} /\ Caught(f, wants[f], out, carried)
           /\ UNCHANGED waived
  <2>1. wants[f] \in BOOLEAN /\ (Asked(f) => wants[f])
    BY <1>0, <1>3 DEF HandlerInv, TypeOK, WishRemembered
  <2> QED  BY <1>0, <1>3, <2>1, CaughtKeeps DEF TypeOK
<1> QED  BY <1>1, <1>2, <1>3 DEF Raise

-----------------------------------------------------------------------------
(* The steps of the surroundings.                                          *)
LEMMA ConfigKeeps ==
  ASSUME HandlerInv, on' \subseteq Setting,
         cert' \in [Rcpt -> {"none", "good", "bad"}], events' \in 0..MaxEvents,
         UNCHANGED <<mail, pc, wants, carried, out, portal, told, gone, waived>>
  PROVE  HandlerInv'
BY DEF HandlerInv, TypeOK, CarriedIn, ReachedIn, WishRemembered, NobodyForgotten,
   PlainOnlyWhenWaived, NoCircle, Asked, T, Rule, Served, Reached

LEMMA RestartKeeps ==
  ASSUME HandlerInv, Restart
  PROVE  HandlerInv'
<1>1. /\ pc' \in [Fork -> Stage] /\ events' \in 0..MaxEvents
      /\ \A f \in Fork : /\ pc'[f] = "250" => pc[f] = "250"
                         /\ pc'[f] # "user" /\ pc'[f] # "sign"
  BY DEF Restart, Event, HandlerInv, TypeOK, Stage, Suspended
<1>2. UNCHANGED <<mail, wants, on, cert, out, portal, told, gone, waived>> /\ carried' = {}
  BY DEF Restart
<1>3. TypeOK'
  BY <1>1, <1>2 DEF HandlerInv, TypeOK
<1>4. CarriedIn(out, carried)' /\ WishRemembered'
  BY <1>1, <1>2 DEF CarriedIn, WishRemembered
<1>5. NobodyForgotten'
  BY <1>1, <1>2 DEF HandlerInv, NobodyForgotten, Served, Reached
<1>6. PlainOnlyWhenWaived' /\ NoCircle'
  BY <1>2 DEF HandlerInv, PlainOnlyWhenWaived, NoCircle, T, Rule
<1> QED  BY <1>3, <1>4, <1>5, <1>6 DEF HandlerInv

LEMMA InitHolds ==
  ASSUME Init
  PROVE  HandlerInv
<1>1. TypeOK
  BY DEF Init, TypeOK, Stage, Settings
<1> QED  BY <1>1 DEF Init, HandlerInv, CarriedIn, WishRemembered, NobodyForgotten,
         PlainOnlyWhenWaived, NoCircle

LEMMA NextKeeps ==
  ASSUME HandlerInv, [Next]_vars
  PROVE  HandlerInv'
<1>1. ASSUME NEW f \in Fork, Handle(f) PROVE HandlerInv'
  BY <1>1, RefuseKeeps, ForwardKeeps, ConsumeKeeps, PassKeeps, OwnKeeps,
     BeginDecryptKeeps, StartSigningKeeps, SignKeeps, SignedKeeps, SealKeeps,
     UnsealableKeeps, RaiseKeeps DEF Handle
<1>2. ASSUME NEW s \in Setting, Switch(s) PROVE HandlerInv'
  <2>1. on' \subseteq Setting /\ cert' \in [Rcpt -> {"none", "good", "bad"}]
        /\ events' \in 0..MaxEvents
    BY <1>2 DEF Switch, Event, HandlerInv, TypeOK
  <2> QED  BY <1>2, <2>1, ConfigKeeps DEF Switch
<1>3. ASSUME NEW r \in Rcpt, Certificate(r) PROVE HandlerInv'
  <2>1. on' \subseteq Setting /\ cert' \in [Rcpt -> {"none", "good", "bad"}]
        /\ events' \in 0..MaxEvents
    BY <1>3 DEF Certificate, Event, HandlerInv, TypeOK
  <2> QED  BY <1>3, <2>1, ConfigKeeps DEF Certificate
<1>4. CASE Restart
  BY <1>4, RestartKeeps
<1>5. CASE UNCHANGED vars
  <2>1. /\ on' \subseteq Setting /\ cert' \in [Rcpt -> {"none", "good", "bad"}]
        /\ events' \in 0..MaxEvents
    BY <1>5 DEF vars, HandlerInv, TypeOK
  <2> QED  BY <1>5, <2>1, ConfigKeeps DEF vars
<1> QED  BY <1>1, <1>2, <1>3, <1>4, <1>5 DEF Next

LEMMA HandlerInvariant == Spec => []HandlerInv
<1>1. Init => HandlerInv
  BY InitHolds
<1>2. HandlerInv /\ [Next]_vars => HandlerInv'
  BY NextKeeps
<1> QED  BY <1>1, <1>2, PTL DEF Spec

-----------------------------------------------------------------------------
(* Type correctness of the handler's state.                                *)
THEOREM HandlerTypeCorrect == Spec => []TypeOK
<1>1. HandlerInv => TypeOK
  BY DEF HandlerInv
<1> QED  BY <1>1, HandlerInvariant, PTL

(* Whatever raises, is switched or restarts while transactions wait for    *)
(* one another: a recipient of a mail that was answered 250 was handed     *)
(* over, has a portal message, was reported, or was let go of in one of    *)
(* the named places of handle_DATA.                                        *)
THEOREM NobodyIsForgotten == Spec => []NobodyForgotten
<1>1. HandlerInv => NobodyForgotten
  BY DEF HandlerInv
<1> QED  BY <1>1, HandlerInvariant, PTL

(* A mail that asks for encryption goes out in plain text only past one of *)
(* the four named points of handle_DATA.                                   *)
THEOREM PlainTextIsWaived == Spec => []PlainOnlyWhenWaived
<1>1. HandlerInv => PlainOnlyWhenWaived
  BY DEF HandlerInv
<1> QED  BY <1>1, HandlerInvariant, PTL

(* Every copy given back to Exchange carries the loop marker.              *)
THEOREM NothingCircles == Spec => []NoCircle
<1>1. HandlerInv => NoCircle
  BY DEF HandlerInv
<1> QED  BY <1>1, HandlerInvariant, PTL
===============================================================================
