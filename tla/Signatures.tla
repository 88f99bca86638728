------------------------------- MODULE Signatures -------------------------------
(***************************************************************************)
(* Signatures in a conversation (handle_DATA from "Normal outbound" on,    *)
(* mail_processor.py, sig_thread.py).                                      *)
(*                                                                         *)
(* Every mail of a mailbox should show its signature in full once: in the  *)
(* text that was written, or in the mails quoted below.  The gateway knows *)
(* three things to tell: marks it left in the HTML, the text of the        *)
(* signature in the quote, and which mails it remembers having signed.     *)
(* Mail programs drop the marks, cut quotes or wrap them in ways it does   *)
(* not know, and the add-in may have set a signature before.               *)
(***************************************************************************)
EXTENDS Integers, Sequences

CONSTANTS
    Author,        \* mailboxes whose mail the gateway signs
    Outsider,      \* correspondents elsewhere
    MaxThread      \* bound on the mails of the conversation

ASSUME SignatureAssumption == MaxThread \in Nat /\ Author \cap Outsider = {}

Place == 1..MaxThread
Look == {"gone", "text", "bare", "marked"}     \* how a block is seen in a mail
Form == {"none", "short", "long", "full"}      \* none, a reply signature, the full one
Cause == {"asked", "unseen", "by_hand", "stuck", "cut_off", "colleague", "bare"}

VARIABLES
    reply,      \* the template for replies: none, of one line, or longer
    skip,       \* SKIP_SIG_IN_THREAD
    last,       \* ANTWORT_LETZTES_WORT
    thread,     \* the mails so far: who wrote it, its block, the blocks it shows
    signed,     \* sig_thread.db: <<author, mail>>
    odd         \* ghost: what happened that the promise leaves out

signatureVars == <<reply, skip, last, thread, signed, odd>>

SignatureInit ==
    /\ reply \in {"none", "short", "long"} /\ skip \in BOOLEAN /\ last \in {"addin", "gateway"}
    /\ thread = <<>> /\ signed = {} /\ odd = {}

(***************************************************************************)
(* Quotes                                                                  *)
(***************************************************************************)

\* What a mail program makes of the blocks it quotes: it keeps them, strips
\* the marks, or (Exchange) prefixes the bare id.
Carried(how, look) ==
    CASE how = "strip" /\ look # "gone" -> "text"
      [] how = "prefix" /\ look = "bare" -> "marked"
      [] OTHER -> look

Quote(j, how) ==
    [k \in Place |-> IF j = 0 \/ how = "cut" THEN "gone"
                     ELSE Carried(how, thread[j].shows[k])]

\* marker_im_zitat: the bare id of the add-in does not count here ...
Marked(q) == \E k \in Place : q[k] = "marked"

\* ... but it does in the search through the whole mail.
AnyMark(q) == \E k \in Place : q[k] \in {"bare", "marked"}

\* signatur_zu_lesen: the text of the author's own signature, which needs more
\* than one line to be told.
Legible(a, q) ==
    \E k \in Place :
        q[k] # "gone" /\ thread[k].from = a /\ thread[k].form \in {"long", "full"}

\* kennt: the mail that is answered is one it remembers having signed.
Knows(a, m) == m.linked /\ <<a, m.to>> \in signed

\* Mutant: only the marks are looked for in the quote.
MarkInChain(a, m, q) ==
    \/ Knows(a, m)
    \/ m.html /\ m.known /\ Marked(q)

\* Knows, or sender_already_in_thread: a quote that is not told from what was
\* written shows nothing.
InChain(a, m, q) ==
    \/ Knows(a, m)
    \/ m.html /\ m.known /\ (Marked(q) \/ Legible(a, q))

(***************************************************************************)
(* A mail of a mailbox                                                     *)
(***************************************************************************)

\* What the author's program and the add-in (with its choice in a header, or by
\* its button without) put into the draft.
Drafts ==
    [by : {"nobody"}, form : {"none"}, look : {"gone"}, stuck : {FALSE}]
      \cup [by : {"button"}, form : {"full"}, look : {"bare", "marked"}, stuck : {FALSE}]
      \cup [by : {"choice"}, form : {"full", reply} \ {"none"}, look : {"bare", "marked"},
            stuck : BOOLEAN]
      \cup (IF reply = "none"
                THEN [by : {"choice"}, form : {"none"}, look : {"gone"}, stuck : {FALSE}]
                ELSE {})

\* _has_own_sig_in_compose_area: all of the mail when no quote is recognised.
InDraft(m, q, look) == m.html /\ (look # "gone" \/ (~m.known /\ AnyMark(q)))

\* The add-in chose otherwise than the gateway, which has the last word.
Disagrees(m, q, chain) ==
    /\ InDraft(m, q, m.draft.look) /\ ~m.nosig /\ last = "gateway"
    /\ m.draft.by = "choice" /\ (m.draft.form = "full" <=> chain)

\* addin_signatur_entfernen: a block whose HTML it cannot take apart is left alone,
\* and then stands as the add-in chose it.
Overruled(m, q, chain) == Disagrees(m, q, chain) /\ ~m.draft.stuck

Block(form, look, adds) == [form |-> form, look |-> look, adds |-> adds]

\* The block that goes out: the draft's when the gateway adds none, otherwise
\* the one for replies in a chain, the full one, or none at all when inject
\* finds a mark in the mail.
Outcome(m, q, chain) ==
    LET over == Overruled(m, q, chain)
        form == IF over THEN "none" ELSE m.draft.form
        look == IF over THEN "gone" ELSE m.draft.look
        placed == IF m.html THEN "marked" ELSE "text"
        silent == m.nosig \/ InDraft(m, q, look)
    IN  IF silent \/ (chain /\ reply = "none") THEN Block(form, look, FALSE)
        ELSE IF chain THEN Block(reply, placed, TRUE)
        ELSE IF skip /\ m.html /\ AnyMark(q) THEN Block(form, look, TRUE)
        ELSE Block("full", placed, TRUE)

\* merken: whenever a signature was to be set, whatever inject made of it.
Remembers(a, out) ==
    signed' = IF out.adds THEN signed \cup {<<a, Len(thread) + 1>>} ELSE signed

Foreign(a, q) == \E k \in Place : q[k] = "marked" /\ thread[k].from # a

\* What the promise leaves out; each is seen in the code or its comments.
Causes(a, m, q, chain) ==
    LET out == Outcome(m, q, chain) IN
    {c \in Cause :
        \/ c = "asked" /\ m.nosig
        \/ c = "unseen" /\ m.to # 0 /\ ~(m.html /\ m.known)
        \/ c = "by_hand" /\ m.draft.form # "none" /\ out.form = m.draft.form
             /\ ~out.adds /\ (m.draft.by = "button" \/ last = "addin")
        \/ c = "stuck" /\ m.draft.stuck /\ Disagrees(m, q, chain)
        \/ c = "cut_off" /\ Knows(a, m) /\ m.how = "cut"
        \/ c = "colleague" /\ Foreign(a, q)
        \/ c = "bare" /\ AnyMark(q) /\ ~Marked(q)}

Add(a, form, look, q) ==
    thread' = Append(thread, [from |-> a, form |-> form,
                              shows |-> [q EXCEPT ![Len(thread) + 1] = look]])

\* How a mail can be: a new one quotes nothing, plain text has neither marks nor
\* a quote that is told apart, and the add-in has no part in it.
Mails(to) ==
    {m \in [to : {to}, how : IF to = 0 THEN {"cut"} ELSE {"keep", "strip", "prefix", "cut"},
            html : BOOLEAN, known : IF to = 0 THEN {TRUE} ELSE BOOLEAN,
            linked : IF to = 0 THEN {FALSE} ELSE BOOLEAN, nosig : BOOLEAN, draft : Drafts] :
        ~m.html => m.known /\ m.draft.by = "nobody"}

\* The way through the gateway.  A conversation is followed until something odd
\* happens in it.
Send(a) ==
    /\ Len(thread) < MaxThread /\ odd = {}
    /\ \E to \in 0..Len(thread) : \E m \in Mails(to) :
           LET q == Quote(to, m.how)
               out == Outcome(m, q, InChain(a, m, q))
           IN  /\ odd' = Causes(a, m, q, InChain(a, m, q))
               /\ IF odd' = {}
                     THEN /\ Add(a, out.form, out.look,
                                 IF m.html THEN q ELSE [k \in Place |-> Carried("strip", q[k])])
                          /\ Remembers(a, out)
                     ELSE UNCHANGED <<thread, signed>>
    /\ UNCHANGED <<reply, skip, last>>

\* A mail from elsewhere, with what its program makes of the quote.
Receive(o) ==
    /\ Len(thread) < MaxThread /\ odd = {}
    /\ \E j \in 0..Len(thread), how \in {"keep", "strip", "prefix", "cut"} :
         Add(o, "none", "gone", Quote(j, how))
    /\ UNCHANGED <<reply, skip, last, signed, odd>>

\* The table of a month is dropped, or was never written.
Forget ==
    /\ signed # {} /\ signed' = {}
    /\ UNCHANGED <<reply, skip, last, thread, odd>>

SignatureNext == (\E a \in Author : Send(a)) \/ (\E o \in Outsider : Receive(o)) \/ Forget

SignatureSpec == SignatureInit /\ [][SignatureNext]_signatureVars

(***************************************************************************)
(* Properties                                                              *)
(***************************************************************************)

SignatureTypeOK ==
    /\ Len(thread) <= MaxThread
    /\ \A i \in 1..Len(thread) :
          /\ thread[i].from \in Author \cup Outsider /\ thread[i].form \in Form
          /\ thread[i].shows \in [Place -> Look]
    /\ reply \in {"none", "short", "long"} /\ skip \in BOOLEAN /\ last \in {"addin", "gateway"}
    /\ signed \subseteq Author \X Place /\ odd \subseteq Cause

FullBlocks(i) ==
    {k \in Place : /\ thread[i].shows[k] # "gone"
                   /\ thread[k].from = thread[i].from /\ thread[k].form = "full"}

\* "Die ERSTE eigene Mail im Thread bekommt die volle Signatur", later ones the
\* reply signature (handler.py): whoever reads a mail of a mailbox finds its
\* full signature in it once, above or in the quote, however the programs of
\* the others treat marks and quotes and whatever the add-in guessed, unless its
\* block cannot be taken out again.
OneFullBlock ==
    odd = {} => \A i \in 1..Len(thread) :
                    thread[i].from \in Author => \E k \in Place : FullBlocks(i) = {k}
===============================================================================
