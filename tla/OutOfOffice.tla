------------------------------ MODULE OutOfOffice ------------------------------
(***************************************************************************)
(* The central out-of-office text (abwesenheit.py, the self-service and    *)
(* the administrator's page that set an absence).                          *)
(*                                                                         *)
(* The owner switches the absence in Outlook; a poll of the scheduler puts *)
(* the company's text into every mailbox and, for a calendar entry, turns  *)
(* the absence on once.  Each PATCH makes Exchange answer every sender     *)
(* anew, so the poll compares what it reads with what it remembers of the  *)
(* last PATCH.  What it remembers is a copy of one map, taken when the     *)
(* poll begins and stored when it ends; the self-service stores a copy of  *)
(* its own after it has read the calendar.                                 *)
(***************************************************************************)
EXTENDS Naturals, FiniteSets

CONSTANTS OofMailbox,     \* mailboxes with an out-of-office template
          MaxVersion,     \* bound on changes of the template or the signature
          MaxWin,         \* bound on calendar windows
          MaxOwner,       \* bound on what people do and restarts together
          MaxOofCrashes   \* bound on restarts

ASSUME OofAssumption ==
    /\ MaxVersion \in Nat \ {0}
    /\ MaxWin \in Nat /\ MaxOwner \in Nat /\ MaxOofCrashes \in Nat

OwnPeriod == MaxWin + 1                \* an absence the owner dates himself
Period == 0..OwnPeriod              \* 0: none named in the text
Foreign == [version |-> 0, period |-> 0, form |-> "foreign"]

\* A text as it is rendered, and as Exchange encodes it.
Text(v, p) == [version |-> v, period |-> p, form |-> "ours"]
Encoded(t) == [t EXCEPT !.form = "exchange"]
Forgotten == [render |-> Foreign, text |-> Foreign, win |-> 0]

NoCopy == [m \in OofMailbox |-> Forgotten]
NotRead == [m \in OofMailbox |-> [status |-> "off", period |-> 0, text |-> Foreign]]

VARIABLES
    version,      \* the text's template, signature and banners
    calendar,     \* the decisive calendar window, 0 for none
    exch,         \* [mailbox -> absence in Exchange: status, period, text]
    kept,         \* _OOO_STATE: [mailbox -> render, text, win]
    polling,      \* TRUE while poll_alle runs
    copy,         \* its copy of kept
    at,           \* [mailbox -> where the poll is with it]
    reading,         \* [mailbox -> the setting the poll has read]
    saving,       \* the self-service: "none", "calendar" or "patch"
    savingCopy,   \* its copy of kept
    owners, oofCrashes,
    lastOn,       \* [mailbox -> the window the poll turned it on for last]
    unnoted,      \* mailboxes whose last PATCH the store does not know
    forgot,       \* mailboxes of which the store once lost a turned-on window
    twice,        \* mailboxes turned on twice in a row for one window
    needless      \* mailboxes PATCHed without need or excuse

oofVars == <<version, calendar, exch, kept, polling, copy, at, reading, saving,
             savingCopy, owners, oofCrashes, lastOn, unnoted, forgot, twice,
             needless>>

oofWorld == <<version, calendar>>
oofPoll == <<polling, copy, at, reading>>
oofSaving == <<saving, savingCopy>>
oofGhosts == <<lastOn, unnoted, forgot, twice, needless>>

OofInit ==
    /\ version = 1 /\ calendar = 0
    /\ exch = NotRead /\ reading = NotRead
    /\ kept = NoCopy /\ copy = NoCopy
    /\ polling = FALSE
    /\ at = [m \in OofMailbox |-> "done"]
    /\ saving = [m \in OofMailbox |-> "none"]
    /\ savingCopy = [m \in OofMailbox |-> NoCopy]
    /\ owners = 0 /\ oofCrashes = 0
    /\ lastOn = [m \in OofMailbox |-> 0]
    /\ unnoted = {} /\ forgot = {} /\ twice = {} /\ needless = {}

(***************************************************************************)
(* People                                                                  *)
(***************************************************************************)

\* People have come to rest, and the process no longer stops.
Quiet == owners + oofCrashes >= MaxOwner
Acts == ~Quiet /\ owners' = owners + 1

\* In Outlook: on, off, or another text.
SwitchInOutlook(m) ==
    /\ Acts
    /\ \E s \in {"off", "on"} :
            /\ s # exch[m].status
            /\ exch' = [exch EXCEPT ![m] = [@ EXCEPT !.status = s, !.period = 0]]
    /\ UNCHANGED <<oofWorld, kept, oofPoll, oofSaving, oofCrashes, oofGhosts>>

EditInOutlook(m) ==
    /\ Acts
    /\ exch' = [exch EXCEPT ![m].text = Foreign]
    /\ UNCHANGED <<oofWorld, kept, oofPoll, oofSaving, oofCrashes, oofGhosts>>

ChangeTemplate ==
    /\ version < MaxVersion /\ version' = version + 1
    /\ UNCHANGED <<calendar, exch, kept, oofPoll, oofSaving, owners, oofCrashes,
                   oofGhosts>>

\* Events are entered, moved, cancelled, they begin and end, and another window,
\* or none, is the decisive one: one that was so before may be so again.
NewWindow ==
    /\ calendar' \in (0..MaxWin) \ {calendar}
    /\ UNCHANGED <<version, exch, kept, oofPoll, oofSaving, owners, oofCrashes,
                   oofGhosts>>

(***************************************************************************)
(* Saving an absence through the gateway                                   *)
(***************************************************************************)

\* self_save copies the map and awaits the calendar ...
SaveBegins(m) ==
    /\ Acts /\ saving[m] = "none"
    /\ saving' = [saving EXCEPT ![m] = "calendar"]
    /\ savingCopy' = [savingCopy EXCEPT ![m] = kept]
    /\ UNCHANGED <<oofWorld, exch, kept, oofPoll, oofCrashes, oofGhosts>>

\* ... and stores the copy, whatever a poll has stored meanwhile.
SaveStores(m) ==
    LET lost == {n \in OofMailbox : kept[n] # savingCopy[m][n]}
    IN  /\ saving[m] = "calendar"
        /\ kept' = savingCopy[m]
        /\ saving' = [saving EXCEPT ![m] = "patch"]
        /\ unnoted' = unnoted \cup lost
        /\ forgot' = forgot \cup lost
        /\ UNCHANGED <<oofWorld, exch, oofPoll, savingCopy, owners, oofCrashes,
                       lastOn, twice, needless>>

\* The PATCH with status, period and text is not noted in the store.
SavePatches(m) ==
    /\ saving[m] = "patch"
    /\ \E s \in {"off", "on", "dated"} :
          LET p == IF s = "dated" THEN OwnPeriod ELSE 0
          IN  exch' = [exch EXCEPT ![m] =
                  [status |-> s, period |-> p, text |-> Encoded(Text(version, p))]]
    /\ saving' = [saving EXCEPT ![m] = "none"]
    /\ savingCopy' = [savingCopy EXCEPT ![m] = NoCopy]
    /\ unnoted' = unnoted \cup {m}
    /\ UNCHANGED <<oofWorld, kept, oofPoll, owners, oofCrashes, lastOn, forgot,
                   twice, needless>>

\* api_abwesenheit_postfach_setzen and the text after a new choice of
\* signature: a PATCH only.
AdminSaves(m) ==
    /\ Acts /\ saving[m] = "none"
    /\ saving' = [saving EXCEPT ![m] = "patch"]
    /\ UNCHANGED <<oofWorld, exch, kept, oofPoll, savingCopy, oofCrashes, oofGhosts>>

(***************************************************************************)
(* poll_alle                                                               *)
(***************************************************************************)

BeginPoll ==
    /\ ~polling /\ polling' = TRUE
    /\ copy' = kept
    /\ at' = [m \in OofMailbox |-> "todo"]
    /\ UNCHANGED <<oofWorld, exch, kept, reading, oofSaving, owners, oofCrashes,
                   oofGhosts>>

ReadBox(m) ==
    /\ at[m] = "todo"
    /\ at' = [at EXCEPT ![m] = "read"]
    /\ reading' = [reading EXCEPT ![m] = exch[m]]
    /\ UNCHANGED <<oofWorld, exch, kept, polling, copy, oofSaving, owners,
                   oofCrashes, oofGhosts>>

BoxDone(m) ==
    at' = [at EXCEPT ![m] = "done"] /\ reading' = [reading EXCEPT ![m] = NotRead[m]]

\* No access, no answer, a throttled PATCH: the mailbox waits for the next poll.
GiveUpBox(m) ==
    /\ at[m] \in {"todo", "read"}
    /\ BoxDone(m)
    /\ UNCHANGED <<oofWorld, exch, kept, polling, copy, oofSaving, owners, oofCrashes,
                   oofGhosts>>

\* The calendar turns the absence on: it is off, and not for the window that was
\* turned on last, the only one that is remembered.
TurnsOn(m) == reading[m].status = "off" /\ calendar # 0 /\ copy[m].win # calendar

Rendered(m) ==
    Text(version, IF TurnsOn(m) THEN calendar ELSE reading[m].period)

\* Mutant: the text in Exchange is compared with ours, not with Exchange's.
KnownByRender(m) == reading[m].text = copy[m].render

Known(m) == reading[m].text = copy[m].text

\* Mutant: what is in Exchange is what was set, so nothing is done.
InPlaceByExchange(m) == Known(m) /\ ~TurnsOn(m)

InPlace(m) == Rendered(m) = copy[m].render /\ Known(m) /\ ~TurnsOn(m)

LeaveBox(m) ==
    /\ at[m] = "read" /\ InPlace(m)
    /\ BoxDone(m)
    /\ UNCHANGED <<oofWorld, exch, kept, polling, copy, oofSaving, owners, oofCrashes,
                   oofGhosts>>

\* Only the two texts, and for a window the status and the dates.
Patched(m) ==
    [exch EXCEPT ![m] = IF TurnsOn(m)
        THEN [status |-> "dated", period |-> calendar, text |-> Encoded(Rendered(m))]
        ELSE [@ EXCEPT !.text = Encoded(Rendered(m))]]

\* Mutant: only a window turned on just now is remembered.
OnlyNewWin(m) == IF TurnsOn(m) THEN calendar ELSE 0

WinToKeep(m) == IF TurnsOn(m) THEN calendar ELSE copy[m].win

Noted(m) ==
    copy' = [copy EXCEPT ![m] = [render |-> Rendered(m),
                                 text |-> Encoded(Rendered(m)),
                                 win |-> WinToKeep(m)]]

\* The answer to the PATCH may be lost: then nothing is remembered.
PatchBox(m) ==
    /\ at[m] = "read" /\ ~InPlace(m)
    /\ exch' = Patched(m)
    /\ BoxDone(m)
    /\ needless' = IF exch' = exch /\ m \notin unnoted
                   THEN needless \cup {m} ELSE needless
    /\ twice' = IF TurnsOn(m) /\ calendar = lastOn[m] THEN twice \cup {m} ELSE twice
    /\ lastOn' = IF TurnsOn(m) THEN [lastOn EXCEPT ![m] = calendar] ELSE lastOn
    /\ \/ Noted(m) /\ UNCHANGED <<unnoted, forgot>>
       \/ /\ unnoted' = unnoted \cup {m} /\ forgot' = forgot \cup {m}
          /\ UNCHANGED copy
    /\ UNCHANGED <<oofWorld, kept, polling, oofSaving, owners, oofCrashes>>

\* The whole map is stored once, at the end.
EndPoll ==
    /\ polling /\ \A m \in OofMailbox : at[m] = "done"
    /\ polling' = FALSE
    /\ kept' = copy /\ copy' = NoCopy /\ reading' = NotRead
    /\ unnoted' = {m \in unnoted : copy[m].text # exch[m].text
                                   \/ copy[m].render # Text(version, exch[m].period)}
    /\ UNCHANGED <<oofWorld, exch, at, oofSaving, owners, oofCrashes, lastOn,
                   forgot, twice, needless>>

\* The process stops; what a running poll has PATCHed is not remembered.
OofCrash ==
    LET lost == {m \in OofMailbox : polling /\ copy[m] # kept[m]}
    IN  /\ ~Quiet /\ oofCrashes < MaxOofCrashes /\ oofCrashes' = oofCrashes + 1
        /\ polling' = FALSE
        /\ copy' = NoCopy /\ reading' = NotRead
        /\ at' = [m \in OofMailbox |-> "done"]
        /\ saving' = [m \in OofMailbox |-> "none"]
        /\ savingCopy' = [m \in OofMailbox |-> NoCopy]
        /\ unnoted' = unnoted \cup lost /\ forgot' = forgot \cup lost
        /\ UNCHANGED <<oofWorld, exch, kept, owners, lastOn, twice, needless>>

Polls(m) == ReadBox(m) \/ LeaveBox(m) \/ PatchBox(m)

OofNext ==
    \/ \E m \in OofMailbox :
          \/ SwitchInOutlook(m) \/ EditInOutlook(m)
          \/ SaveBegins(m) \/ SaveStores(m) \/ SavePatches(m) \/ AdminSaves(m)
          \/ Polls(m) \/ GiveUpBox(m)
    \/ ChangeTemplate \/ NewWindow \/ BeginPoll \/ EndPoll \/ OofCrash

OofSpec == OofInit /\ [][OofNext]_oofVars

\* The scheduler polls every ten minutes, and Exchange is not out of reach for
\* ever.
OofFairness ==
    /\ WF_oofVars(BeginPoll) /\ WF_oofVars(EndPoll)
    /\ \A m \in OofMailbox :
          /\ SF_oofVars(ReadBox(m)) /\ SF_oofVars(LeaveBox(m) \/ PatchBox(m))
          /\ WF_oofVars(SaveStores(m)) /\ WF_oofVars(SavePatches(m))

(***************************************************************************)
(* Properties                                                              *)
(***************************************************************************)

OofText == [version : 0..MaxVersion, period : Period,
            form : {"foreign", "ours", "exchange"}]
Absence == [status : {"off", "on", "dated"}, period : Period, text : OofText]
Memory == [OofMailbox -> [render : OofText, text : OofText, win : 0..MaxWin]]

OofTypeOK ==
    /\ version \in 1..MaxVersion /\ calendar \in 0..MaxWin
    /\ exch \in [OofMailbox -> Absence] /\ reading \in [OofMailbox -> Absence]
    /\ kept \in Memory /\ copy \in Memory /\ savingCopy \in [OofMailbox -> Memory]
    /\ polling \in BOOLEAN
    /\ at \in [OofMailbox -> {"todo", "read", "done"}]
    /\ saving \in [OofMailbox -> {"none", "calendar", "patch"}]
    /\ owners \in 0..MaxOwner /\ oofCrashes \in 0..MaxOofCrashes
    /\ lastOn \in [OofMailbox -> 0..MaxWin]
    /\ unnoted \cup forgot \cup twice \cup needless \subseteq OofMailbox

\* An absence is not turned on again for the window it was turned on for last:
\* an owner who turns it off is respected, whatever templates, edits and other
\* windows come between, until another window has turned it on.  What a restart,
\* an unheard answer or the copy of a simultaneous save made the store forget is
\* the only exception.
TurnedOnOnce == twice \subseteq forgot

\* A PATCH that changes nothing makes Exchange answer every sender again.  It
\* happens only after a PATCH the store does not know of.
NoNeedlessPatch == needless = {}

\* When people and templates come to rest, every mailbox has the company's
\* text, for the absence it has.
TextArrives ==
    <>[](\A m \in OofMailbox :
            exch[m].text = Encoded(Text(version, exch[m].period)))
===============================================================================
