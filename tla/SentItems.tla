------------------------------- MODULE SentItems -------------------------------
(***************************************************************************)
(* The sender's Sent Items after a mail went through the gateway           *)
(* (handler.py, graph_client.py, the release in routen/betrieb.py).        *)
(*                                                                         *)
(* Outlook stores what the user sent; each sendMail of the gateway adds a  *)
(* copy of what it sent, sooner or later.  The first fork of a mail that   *)
(* asks for it starts a task that looks three times, and patches one item  *)
(* or deletes those it takes for superfluous.  One mail is modelled, with  *)
(* its forks.                                                              *)
(***************************************************************************)
EXTENDS Naturals, FiniteSets, FiniteSetsExt

CONSTANTS SentFork,      \* the transactions Exchange makes of the mail
          Original,      \* what Outlook stores
          MaxSentStop    \* bound on restarts

ASSUME SentAssumption ==
    IsFiniteSet(SentFork) /\ Original \notin SentFork /\ MaxSentStop \in Nat

Item == SentFork \cup {Original}
Passes == 3

VARIABLES
    updates,      \* SENT_ITEMS_UPDATE
    cipher,       \* forks that are encrypted
    done,         \* forks the gateway has sent
    transit,      \* items Exchange will still show in the folder
    born,         \* [Item -> order of creation], 0: not in the folder
    readable,     \* items in the folder the sender can read
    registered,   \* _processed_mids knows the mail
    cleaner,      \* [SentFork -> the clean-up it started]
    sentStops,
    wasReadable   \* ghost: the sender could read one of them

sentVars == <<updates, cipher, done, transit, born, readable, registered, cleaner,
              sentStops, wasReadable>>

NoCleaner == [at |-> "off", mode |-> "signed", pass |-> 0, found |-> {}, kept |-> Original]
Found == {i \in Item : born[i] # 0}
Oldest(S) == CHOOSE i \in S : \A j \in S : born[i] <= born[j]
Newest(S) == CHOOSE i \in S : \A j \in S : born[j] <= born[i]

SentInit ==
    /\ updates \in BOOLEAN /\ cipher \in SUBSET SentFork
    /\ done = {} /\ transit = {Original}
    /\ born = [i \in Item |-> 0] /\ readable = {} /\ registered = FALSE
    /\ cleaner = [f \in SentFork |-> NoCleaner] /\ sentStops = 0 /\ wasReadable = FALSE

(***************************************************************************)
(* The forks                                                               *)
(***************************************************************************)

Schedules(f, mode) ==
    cleaner' = [cleaner EXCEPT ![f] = [NoCleaner EXCEPT !.at = "wait", !.mode = mode]]

\* The copy of the JSON way is not saved while SENT_ITEMS_UPDATE is on, SMTP
\* leaves none either.
Stores(f) == transit' \in {transit, transit \cup {f}}

\* The end of handle_DATA: only the first fork of the mail cleans up.
Process(f) ==
    /\ f \notin done /\ done' = done \cup {f}
    /\ Stores(f) /\ registered' = TRUE
    /\ IF ~registered /\ (f \in cipher \/ updates)
          THEN Schedules(f, IF f \in cipher THEN "encrypted" ELSE "signed")
          ELSE UNCHANGED cleaner
    /\ UNCHANGED <<updates, cipher, born, readable, sentStops, wasReadable>>

\* Internal mail that is passed on unchanged: the copy is of the way it takes.
PassOn(f) ==
    /\ f \notin done \cup cipher /\ done' = done \cup {f}
    /\ \/ transit' = transit \cup {f} /\ registered' = TRUE
          /\ IF registered THEN UNCHANGED cleaner ELSE Schedules(f, "duplicates")
       \/ UNCHANGED <<transit, registered, cleaner>>
    /\ UNCHANGED <<updates, cipher, born, readable, sentStops, wasReadable>>

\* A held mail is released: a ciphertext is left alone, for there is no plain
\* text to put in its place.
ReleaseHeld(f) ==
    /\ f \notin done /\ done' = done \cup {f}
    /\ Stores(f) /\ registered' = (registered \/ updates)
    /\ IF updates /\ ~registered /\ f \notin cipher
          THEN Schedules(f, "signed") ELSE UNCHANGED cleaner
    /\ UNCHANGED <<updates, cipher, born, readable, sentStops, wasReadable>>

\* 120 s are over, while a slow clean-up may still be at work.
RegistryExpires ==
    /\ registered /\ registered' = FALSE
    /\ UNCHANGED <<updates, cipher, done, transit, born, readable, cleaner, sentStops,
                   wasReadable>>

Appear(i) ==
    /\ i \in transit /\ transit' = transit \ {i}
    /\ born' = [born EXCEPT ![i] = 1 + Max({born[j] : j \in Item})]
    /\ readable' = IF i \in cipher THEN readable ELSE readable \cup {i}
    /\ wasReadable' = (wasReadable \/ i \notin cipher)
    /\ UNCHANGED <<updates, cipher, done, registered, cleaner, sentStops>>

(***************************************************************************)
(* The clean-up                                                            *)
(***************************************************************************)

\* False, and _cleanup_sent_item tries again until its passes are used up.
Again(f) ==
    LET c == cleaner[f]
    IN  cleaner' = [cleaner EXCEPT ![f] =
            IF c.pass + 1 = Passes THEN NoCleaner
            ELSE [NoCleaner EXCEPT !.at = "wait", !.mode = c.mode, !.pass = c.pass + 1]]

Stop(f) == cleaner' = [cleaner EXCEPT ![f] = NoCleaner]

Goes(f, at, i) ==
    cleaner' = [cleaner EXCEPT ![f] = [@ EXCEPT !.at = at, !.found = Found, !.kept = i]]

\* The search: a single item is patched, of several only the oldest of an
\* encrypted mail; a mere duplicate waits for its twin.
Search(f) ==
    /\ cleaner[f].at = "wait"
    /\ \/ Again(f)                                        \* no token, an HTTP error
       \/ Found = {} /\ Again(f)
       \/ /\ Cardinality(Found) = 1
          /\ IF cleaner[f].mode = "duplicates" THEN Again(f) ELSE Goes(f, "patch", Oldest(Found))
       \/ /\ Cardinality(Found) > 1
          /\ IF cleaner[f].mode = "encrypted" THEN Goes(f, "patch", Oldest(Found))
                                             ELSE Goes(f, "delete", Newest(Found))
    /\ UNCHANGED <<updates, cipher, done, transit, born, readable, registered, sentStops,
                   wasReadable>>

\* _patch_item: the one that is gone is a permanent error.
Patch(f) ==
    LET c == cleaner[f] i == c.kept
        several == Cardinality(c.found) > 1
    IN  /\ c.at = "patch"
        /\ \/ /\ born[i] # 0
              /\ readable' = readable \cup {i} /\ wasReadable' = TRUE
              /\ \/ several /\ cleaner' = [cleaner EXCEPT ![f].at = "delete"]
                 \/ ~several /\ c.mode = "encrypted" /\ Again(f)
                 \/ ~several /\ c.mode = "signed" /\ Stop(f)
           \/ /\ (Stop(f) \/ Again(f))                    \* 4xx, or an exception
              /\ UNCHANGED <<readable, wasReadable>>
        /\ UNCHANGED <<updates, cipher, done, transit, born, registered, sentStops>>

\* Mutant: everything that was found is deleted, the one to keep with it.
DeletesAll(c) == c.found

\* What the clean-up takes for superfluous: everything but the patched item of
\* an encrypted mail, everything but the newest otherwise.
Superfluous(c) == c.found \ {c.kept}

\* One request per item, each of which may fail.
Delete(f) ==
    LET c == cleaner[f]
    IN  /\ c.at = "delete"
        /\ \E gone \in SUBSET Superfluous(c) :
              /\ born' = [i \in Item |-> IF i \in gone THEN 0 ELSE born[i]]
              /\ readable' = readable \ gone
        /\ Stop(f)
        /\ UNCHANGED <<updates, cipher, done, transit, registered, sentStops, wasReadable>>

\* The tasks and the registry are in memory.
SentRestart ==
    /\ sentStops < MaxSentStop /\ sentStops' = sentStops + 1
    /\ registered' = FALSE /\ cleaner' = [f \in SentFork |-> NoCleaner]
    /\ UNCHANGED <<updates, cipher, done, transit, born, readable, wasReadable>>

SentNext ==
    \/ \E f \in SentFork :
          Process(f) \/ PassOn(f) \/ ReleaseHeld(f) \/ Search(f) \/ Patch(f) \/ Delete(f)
    \/ \E i \in Item : Appear(i)
    \/ RegistryExpires \/ SentRestart

SentSpec == SentInit /\ [][SentNext]_sentVars

(***************************************************************************)
(* Properties                                                              *)
(***************************************************************************)

SentTypeOK ==
    /\ updates \in BOOLEAN /\ cipher \subseteq SentFork /\ done \subseteq SentFork
    /\ transit \subseteq Item /\ born \in [Item -> 0..Cardinality(Item)]
    /\ readable \subseteq Found /\ registered \in BOOLEAN
    /\ cleaner \in [SentFork -> [at : {"off", "wait", "patch", "delete"},
                                 mode : {"signed", "encrypted", "duplicates"},
                                 pass : 0..(Passes - 1), found : SUBSET Item,
                                 kept : Item]]
    /\ sentStops \in 0..MaxSentStop /\ wasReadable \in BOOLEAN

\* The code's promise that Sent Items stay readable (handler.py: "Always patch
\* it with the pre-encryption plaintext body so Sent Items stay readable"),
\* whatever the forks of the mail are.
SentStaysReadable == wasReadable => readable # {}

\* The promise holds where all forks are encrypted, or none: however many
\* clean-ups overlap, copies come late and requests fail, what the sender could
\* read is not deleted to the last item.
AlikeStayReadable == cipher \in {{}, SentFork} => SentStaysReadable
===============================================================================
