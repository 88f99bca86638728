---------------------------- MODULE AbsenceReplies ----------------------------
(***************************************************************************)
(* The absence reply for mail that is put into the mailbox instead of      *)
(* being delivered (oof_ablage.py): Exchange does not answer it, so a      *)
(* thread of its own does, once for each sender as long as the absence     *)
(* does not change.                                                        *)
(*                                                                         *)
(* A file holds, for the mailbox, the fingerprint of the absence that was  *)
(* answered last and the senders who had an answer.  The text is part of   *)
(* the fingerprint, and senders of the tenant may get another text than    *)
(* those from outside: they then take turns in the one place, each with a  *)
(* list that begins anew, and "once for each sender" does not hold.        *)
(***************************************************************************)
EXTENDS Naturals, FiniteSets

CONSTANTS ReplySender,      \* senders who may have an answer
          ReplyThread,      \* threads, one for each mail
          MaxAbsence,       \* bound on changes of the absence
          MaxReplies,       \* bound on answers to one sender
          MaxTurns          \* bound on changes of the noted fingerprint

ASSUME ReplyAssumption ==
    /\ IsFiniteSet(ReplyThread) /\ ReplySender # {}
    /\ MaxAbsence \in Nat /\ MaxReplies \in Nat /\ MaxTurns \in Nat

Side == {"inside", "outside"}

VARIABLES
    sideOf,     \* [ReplySender -> Side], known_addresses
    public,     \* answers go outside (externalAudience)
    absence,    \* the setting in Exchange: [no, on, apart]
    noted,      \* the file: [fp, to]
    thread,     \* [ReplyThread -> [at, sender, fp]]
    answers,    \* [fingerprint -> [ReplySender -> answers]]
    turns,      \* [fingerprint -> how often another one took its place]
    crossed     \* fingerprints that one of another absence replaced

replyVars == <<sideOf, public, absence, noted, thread, answers, turns, crossed>>

\* _fingerabdruck: the absence, and the text of the side unless both have one.
Fingerprint == [no : 0..MaxAbsence, text : Side \cup {"both"}]
Mark(setting, s) ==
    [no |-> setting.no, text |-> IF setting.apart THEN sideOf[s] ELSE "both"]

Nothing == [no |-> 0, text |-> "both"]
Silent == [at |-> "none", sender |-> CHOOSE s \in ReplySender : TRUE, fp |-> Nothing]

ReplyInit ==
    /\ sideOf \in [ReplySender -> Side] /\ public \in BOOLEAN
    /\ absence = [no |-> 0, on |-> FALSE, apart |-> FALSE]
    /\ noted = [fp |-> Nothing, to |-> {}]
    /\ thread = [t \in ReplyThread |-> Silent]
    /\ answers = [f \in Fingerprint |-> [s \in ReplySender |-> 0]]
    /\ turns = [f \in Fingerprint |-> 0]
    /\ crossed = {}

\* The owner or the poll changes status, dates or text; the announcement of
\* later absences may be for the inside only.
ChangeAbsence ==
    /\ absence.no < MaxAbsence
    /\ \E on, apart \in BOOLEAN :
          absence' = [no |-> absence.no + 1, on |-> on, apart |-> apart]
    /\ UNCHANGED <<sideOf, public, noted, thread, answers, turns, crossed>>

\* nach_ablage, _antworten: the settings are read, and answer or not.
MailStored(t, s) ==
    /\ thread[t].at = "none"
    /\ absence.on /\ (sideOf[s] = "outside" => public)
    /\ thread' = [thread EXCEPT ![t] =
                    [at |-> "read", sender |-> s, fp |-> Mark(absence, s)]]
    /\ UNCHANGED <<sideOf, public, absence, noted, answers, turns, crossed>>

Ends(t) == thread' = [thread EXCEPT ![t] = Silent]

\* The contacts cannot be read, or the file cannot be written.
ReplyFails(t) ==
    /\ thread[t].at # "none" /\ Ends(t)
    /\ UNCHANGED <<sideOf, public, absence, noted, answers, turns, crossed>>

\* _schon_beantwortet, under its lock: looks and notes in one step.
NotedFor(f) == IF noted.fp = f THEN noted ELSE [fp |-> f, to |-> {}]

NewTurn(f) ==
    /\ turns[noted.fp] < MaxTurns
    /\ turns' = IF noted.fp = f THEN turns ELSE [turns EXCEPT ![noted.fp] = @ + 1]
    /\ crossed' = crossed \cup {g \in {noted.fp} : g.no # f.no}

AlreadyAnswered(t) ==
    LET f == thread[t].fp
    IN  /\ thread[t].at = "read" /\ thread[t].sender \in NotedFor(f).to
        /\ Ends(t)
        /\ UNCHANGED <<sideOf, public, absence, noted, answers, turns, crossed>>

\* Mutant: without the lock a note may overwrite the one of another thread.
NoteUnlocked(t) ==
    LET f == thread[t].fp
        s == thread[t].sender
    IN  /\ thread[t].at = "read" /\ s \notin NotedFor(f).to
        /\ \E to \in SUBSET NotedFor(f).to : noted' = [fp |-> f, to |-> to \cup {s}]
        /\ NewTurn(f)
        /\ thread' = [thread EXCEPT ![t].at = "send"]
        /\ UNCHANGED <<sideOf, public, absence, answers>>

NoteSender(t) ==
    LET f == thread[t].fp
        s == thread[t].sender
    IN  /\ thread[t].at = "read" /\ s \notin NotedFor(f).to
        /\ noted' = [NotedFor(f) EXCEPT !.to = @ \cup {s}]
        /\ NewTurn(f)
        /\ thread' = [thread EXCEPT ![t].at = "send"]
        /\ UNCHANGED <<sideOf, public, absence, answers>>

SendReply(t) ==
    LET f == thread[t].fp
        s == thread[t].sender
    IN  /\ thread[t].at = "send" /\ answers[f][s] < MaxReplies
        /\ answers' = [answers EXCEPT ![f][s] = @ + 1]
        /\ Ends(t)
        /\ UNCHANGED <<sideOf, public, absence, noted, turns, crossed>>

ReplyNext ==
    \/ ChangeAbsence
    \/ \E t \in ReplyThread :
          \/ \E s \in ReplySender : MailStored(t, s)
          \/ ReplyFails(t) \/ AlreadyAnswered(t) \/ NoteSender(t) \/ SendReply(t)

ReplySpec == ReplyInit /\ [][ReplyNext]_replyVars

(***************************************************************************)
(* Properties                                                              *)
(***************************************************************************)

ReplyTypeOK ==
    /\ sideOf \in [ReplySender -> Side] /\ public \in BOOLEAN
    /\ absence \in [no : 0..MaxAbsence, on : BOOLEAN, apart : BOOLEAN]
    /\ noted \in [fp : Fingerprint, to : SUBSET ReplySender]
    /\ thread \in [ReplyThread -> [at : {"none", "read", "send"},
                                   sender : ReplySender, fp : Fingerprint]]
    /\ answers \in [Fingerprint -> [ReplySender -> 0..MaxReplies]]
    /\ turns \in [Fingerprint -> 0..MaxTurns]
    /\ crossed \subseteq Fingerprint

\* However many mails of one sender arrive at once, each further answer for the
\* same fingerprint costs that another one took its place; and of an absence
\* with one text for all, none of the same absence can: there a sender is
\* answered once, but for a thread that read the absence before or after it.
\* (With two texts, inside and outside replace each other's list without end.)
AnswersAreBounded ==
    \A f \in Fingerprint :
        /\ \A s \in ReplySender : answers[f][s] <= turns[f] + 1
        /\ turns[f] > 0 => f.text # "both" \/ f \in crossed
===============================================================================
