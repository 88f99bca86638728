----------------------------- MODULE Upkeep_proofs -----------------------------
(***************************************************************************)
(* Proofs about the five parts MCUpkeep puts side by side: for each an     *)
(* inductive invariant and what follows from it, for every number of       *)
(* mailboxes, senders, threads and watchers and every bound; then the      *)
(* theorems about the whole.                                               *)
(***************************************************************************)
EXTENDS MCUpkeep, FiniteSetTheorems, TLAPS

-----------------------------------------------------------------------------
(* OutOfOffice                                                             *)

USE OofAssumption

Remembrance == [render : OofText, text : OofText, win : 0..MaxWin]

(* What counts as remembered of m: a poll will store its copy.             *)
Remembered(m) == IF polling THEN copy[m] ELSE kept[m]

(* Render and text belong to one PATCH, or there was none.                 *)
Fitting(r) ==
  \/ r.render.form = "ours" /\ r.text = Encoded(r.render)
  \/ r.render = Foreign /\ r.text = Foreign

OofNumbers ==
  /\ version \in 1..MaxVersion /\ calendar \in 0..MaxWin
  /\ owners \in 0..MaxOwner /\ oofCrashes \in 0..MaxOofCrashes

OofBoxes ==
  exch \in [OofMailbox -> Absence] /\ reading \in [OofMailbox -> Absence]

OofMemory ==
  /\ kept \in Memory /\ copy \in Memory /\ savingCopy \in [OofMailbox -> Memory]
  /\ \A m \in OofMailbox : /\ Fitting(kept[m]) /\ Fitting(copy[m])
                           /\ \A n \in OofMailbox : Fitting(savingCopy[n][m])

OofPlaces ==
  /\ polling \in BOOLEAN
  /\ at \in [OofMailbox -> {"todo", "read", "done"}]
  /\ saving \in [OofMailbox -> {"none", "calendar", "patch"}]
  /\ ~polling => \A m \in OofMailbox : at[m] = "done"

OofGhostTypes ==
  /\ lastOn \in [OofMailbox -> 0..MaxWin]
  /\ unnoted \subseteq OofMailbox /\ forgot \subseteq OofMailbox
  /\ twice \subseteq forgot /\ needless = {}

(* The window a mailbox was turned on for last is remembered.              *)
WindowsKnown ==
  \A m \in OofMailbox : m \notin forgot => Remembered(m).win = lastOn[m]

(* A text of the gateway in Exchange is the one remembered.                *)
TextsKnown ==
  \A m \in OofMailbox : m \notin unnoted /\ exch[m].text.form = "exchange" => exch[m].text = Remembered(m).text

(* What a poll has read stays true but for what people do in Outlook.      *)
ReadingHolds ==
  \A m \in OofMailbox : m \notin unnoted /\ at[m] = "read" =>
     /\ exch[m].status = "dated" => reading[m].status = "dated"
     /\ exch[m].text.form = "exchange" => reading[m].text = exch[m].text

OofInv ==
  /\ OofNumbers /\ OofBoxes /\ OofMemory /\ OofPlaces /\ OofGhostTypes
  /\ WindowsKnown /\ TextsKnown /\ ReadingHolds

LEMMA TextsAreTexts ==
  /\ Foreign \in OofText /\ Foreign.form = "foreign" /\ OwnPeriod \in Period /\ 0 \in Period
  /\ \A v \in 0..MaxVersion, p \in Period :
        /\ Text(v, p) \in OofText /\ Encoded(Text(v, p)) \in OofText
        /\ Text(v, p).form = "ours" /\ Encoded(Text(v, p)).form = "exchange"
BY DEF Foreign, OofText, Text, Encoded, OwnPeriod, Period

LEMMA NothingKept ==
  /\ NoCopy \in Memory /\ NotRead \in [OofMailbox -> Absence]
  /\ \A m \in OofMailbox : Fitting(NoCopy[m]) /\ NoCopy[m].win = 0
<1>1. Forgotten \in [render : OofText, text : OofText, win : 0..MaxWin]
  BY TextsAreTexts DEF Forgotten
<1>2. NoCopy \in Memory
  BY <1>1 DEF NoCopy, Memory
<1>3. NotRead \in [OofMailbox -> Absence]
  BY TextsAreTexts DEF NotRead, Absence
<1>4. Fitting(Forgotten) /\ Forgotten.win = 0
  BY DEF Fitting, Forgotten
<1> QED  BY <1>2, <1>3, <1>4 DEF NoCopy

(* Two of the gateway's texts that look alike in Exchange are the same.    *)
LEMMA EncodedOnce ==
  ASSUME NEW a \in OofText, NEW b \in OofText, a.form = "ours", b.form = "ours", Encoded(a) = Encoded(b)
  PROVE  a = b
<1>1. Encoded(a).version = a.version /\ Encoded(a).period = a.period
      /\ Encoded(b).version = b.version /\ Encoded(b).period = b.period
  BY DEF Encoded, OofText
<1> QED  BY <1>1 DEF OofText

LEMMA MemoryOf ==
  ASSUME OofMemory, NEW m \in OofMailbox
  PROVE  /\ kept[m] \in Remembrance /\ copy[m] \in Remembrance
         /\ \A n \in OofMailbox : savingCopy[n] \in Memory
BY DEF OofMemory, Memory, Remembrance

LEMMA OofStarts == OofInit => OofInv
<1> SUFFICES ASSUME OofInit PROVE OofInv
  OBVIOUS
<1>1. OofNumbers
  <2>1. version = 1 /\ calendar = 0 /\ owners = 0 /\ oofCrashes = 0
    BY DEF OofInit
  <2> QED  BY <2>1 DEF OofNumbers
<1>2. /\ exch = NotRead /\ reading = NotRead /\ kept = NoCopy /\ copy = NoCopy /\ polling = FALSE
      /\ at = [m \in OofMailbox |-> "done"] /\ saving = [m \in OofMailbox |-> "none"]
      /\ savingCopy = [m \in OofMailbox |-> NoCopy]
  BY DEF OofInit
<1>3. OofBoxes /\ OofPlaces
  BY <1>2, NothingKept DEF OofBoxes, OofPlaces
<1>6. OofMemory
  <2>1. \A m \in OofMailbox : savingCopy[m] = NoCopy
    BY <1>2
  <2>2. \A m \in OofMailbox : Fitting(NoCopy[m])
    BY NothingKept
  <2> QED  BY <1>2, <2>1, <2>2, NothingKept DEF OofMemory
<1>4. OofGhostTypes /\ WindowsKnown
  BY NothingKept DEF OofInit, OofGhostTypes, WindowsKnown, Remembered
<1>5. TextsKnown /\ ReadingHolds
  BY <1>2, TextsAreTexts DEF TextsKnown, ReadingHolds, NotRead
<1> QED  BY <1>1, <1>3, <1>4, <1>5, <1>6 DEF OofInv

LEMMA OofStep == OofInv /\ [OofNext]_oofVars => OofInv'
<1> SUFFICES ASSUME OofInv, [OofNext]_oofVars PROVE OofInv'
  OBVIOUS
<1>a. OofNumbers /\ OofBoxes /\ OofMemory /\ OofPlaces /\ OofGhostTypes /\ WindowsKnown /\ TextsKnown /\ ReadingHolds
  BY DEF OofInv
<1>1. ASSUME NEW m \in OofMailbox, SwitchInOutlook(m)
      PROVE  OofInv'
  <2>1. OofNumbers'
    BY <1>1, <1>a DEF SwitchInOutlook, Acts, Quiet, oofWorld, oofPoll, oofSaving, oofGhosts, OofNumbers
  <2>2. OofBoxes'
    <3>1. PICK s \in {"off", "on"} : exch' = [exch EXCEPT ![m] = [@ EXCEPT !.status = s, !.period = 0]]
      BY <1>1 DEF SwitchInOutlook
    <3>2. [exch[m] EXCEPT !.status = s, !.period = 0] \in Absence
      BY <1>a, TextsAreTexts DEF OofBoxes, Absence
    <3>3. reading' = reading
      BY <1>1 DEF SwitchInOutlook, oofPoll
    <3> QED  BY <3>1, <3>2, <3>3, <1>a DEF OofBoxes
  <2>3. OofMemory'
    BY <1>1, <1>a DEF SwitchInOutlook, Acts, oofWorld, oofPoll, oofSaving, oofGhosts, OofMemory, Fitting
  <2>4. OofPlaces'
    BY <1>1, <1>a DEF SwitchInOutlook, Acts, oofWorld, oofPoll, oofSaving, oofGhosts, OofPlaces
  <2>5. OofGhostTypes'
    BY <1>1, <1>a DEF SwitchInOutlook, Acts, oofWorld, oofPoll, oofSaving, oofGhosts, OofGhostTypes
  <2>6. WindowsKnown'
    BY <1>1, <1>a DEF SwitchInOutlook, Acts, oofWorld, oofPoll, oofSaving, oofGhosts, WindowsKnown, Remembered
  <2>7. TextsKnown'
    BY <1>1, <1>a DEF SwitchInOutlook, Acts, oofWorld, oofPoll, oofSaving, oofGhosts, TextsKnown, Remembered
  <2>8. ReadingHolds'
    BY <1>1, <1>a DEF SwitchInOutlook, Acts, oofWorld, oofPoll, oofSaving, oofGhosts, ReadingHolds
  <2> QED  BY <2>1, <2>2, <2>3, <2>4, <2>5, <2>6, <2>7, <2>8 DEF OofInv
<1>2. ASSUME NEW m \in OofMailbox, EditInOutlook(m)
      PROVE  OofInv'
  <2>d. /\ exch' \in [OofMailbox -> Absence] /\ exch'[m].text = Foreign /\ exch'[m].status = exch[m].status
        /\ \A n \in OofMailbox \ {m} : exch'[n] = exch[n]
        /\ Foreign.form = "foreign"
    <3>1. exch' = [exch EXCEPT ![m] = [exch[m] EXCEPT !.text = Foreign]]
      BY <1>2 DEF EditInOutlook
    <3>2. [exch[m] EXCEPT !.text = Foreign] \in Absence
      BY <1>a, TextsAreTexts DEF OofBoxes, Absence
    <3>3. [exch[m] EXCEPT !.text = Foreign].text = Foreign /\ [exch[m] EXCEPT !.text = Foreign].status = exch[m].status
      BY <1>a DEF OofBoxes, Absence
    <3> QED  BY <3>1, <3>2, <3>3, <1>a, TextsAreTexts DEF OofBoxes
  <2>e. UNCHANGED <<version, calendar, kept, copy, polling, at, reading, unnoted>>
    BY <1>2 DEF EditInOutlook, oofWorld, oofPoll, oofGhosts
  <2>1. OofNumbers'
    BY <1>2, <1>a, <2>d DEF EditInOutlook, Acts, Quiet, oofWorld, oofPoll, oofSaving, oofGhosts, OofNumbers
  <2>2. OofBoxes'
    BY <2>d, <2>e, <1>a DEF OofBoxes
  <2>3. OofMemory'
    BY <1>2, <1>a, <2>d DEF EditInOutlook, Acts, oofWorld, oofPoll, oofSaving, oofGhosts, OofMemory, Fitting
  <2>4. OofPlaces'
    BY <1>2, <1>a, <2>d DEF EditInOutlook, Acts, oofWorld, oofPoll, oofSaving, oofGhosts, OofPlaces
  <2>5. OofGhostTypes'
    BY <1>2, <1>a, <2>d DEF EditInOutlook, Acts, oofWorld, oofPoll, oofSaving, oofGhosts, OofGhostTypes
  <2>6. WindowsKnown'
    BY <1>2, <1>a, <2>d DEF EditInOutlook, Acts, oofWorld, oofPoll, oofSaving, oofGhosts, WindowsKnown, Remembered
  <2>7. TextsKnown'
    BY <2>d, <2>e, <1>a DEF TextsKnown, Remembered
  <2>8. ReadingHolds'
    BY <2>d, <2>e, <1>a DEF ReadingHolds
  <2> QED  BY <2>1, <2>2, <2>3, <2>4, <2>5, <2>6, <2>7, <2>8 DEF OofInv
<1>3. ASSUME NEW m \in OofMailbox, SaveBegins(m)
      PROVE  OofInv'
  <2>1. OofNumbers'
    BY <1>3, <1>a DEF SaveBegins, Acts, Quiet, oofWorld, oofPoll, oofSaving, oofGhosts, OofNumbers
  <2>2. OofBoxes'
    BY <1>3, <1>a DEF SaveBegins, Acts, oofWorld, oofPoll, oofSaving, oofGhosts, OofBoxes
  <2>3. OofMemory'
    BY <1>3, <1>a DEF SaveBegins, Acts, oofWorld, oofPoll, oofSaving, oofGhosts, OofMemory, Fitting
  <2>4. OofPlaces'
    BY <1>3, <1>a DEF SaveBegins, Acts, oofWorld, oofPoll, oofSaving, oofGhosts, OofPlaces
  <2>5. OofGhostTypes'
    BY <1>3, <1>a DEF SaveBegins, Acts, oofWorld, oofPoll, oofSaving, oofGhosts, OofGhostTypes
  <2>6. WindowsKnown'
    BY <1>3, <1>a DEF SaveBegins, Acts, oofWorld, oofPoll, oofSaving, oofGhosts, WindowsKnown, Remembered
  <2>7. TextsKnown'
    BY <1>3, <1>a DEF SaveBegins, Acts, oofWorld, oofPoll, oofSaving, oofGhosts, TextsKnown, Remembered
  <2>8. ReadingHolds'
    BY <1>3, <1>a DEF SaveBegins, Acts, oofWorld, oofPoll, oofSaving, oofGhosts, ReadingHolds
  <2> QED  BY <2>1, <2>2, <2>3, <2>4, <2>5, <2>6, <2>7, <2>8 DEF OofInv
<1>4. ASSUME NEW m \in OofMailbox, SaveStores(m)
      PROVE  OofInv'
  <2>1. OofNumbers'
    BY <1>4, <1>a DEF SaveStores, Acts, Quiet, oofWorld, oofPoll, oofSaving, oofGhosts, OofNumbers
  <2>2. OofBoxes'
    BY <1>4, <1>a DEF SaveStores, Acts, oofWorld, oofPoll, oofSaving, oofGhosts, OofBoxes
  <2>3. OofMemory'
    BY <1>4, <1>a DEF SaveStores, Acts, oofWorld, oofPoll, oofSaving, oofGhosts, OofMemory, Fitting
  <2>4. OofPlaces'
    BY <1>4, <1>a DEF SaveStores, Acts, oofWorld, oofPoll, oofSaving, oofGhosts, OofPlaces
  <2>5. OofGhostTypes'
    BY <1>4, <1>a DEF SaveStores, Acts, oofWorld, oofPoll, oofSaving, oofGhosts, OofGhostTypes
  <2>6. WindowsKnown'
    BY <1>4, <1>a DEF SaveStores, Acts, oofWorld, oofPoll, oofSaving, oofGhosts, WindowsKnown, Remembered
  <2>7. TextsKnown'
    BY <1>4, <1>a DEF SaveStores, Acts, oofWorld, oofPoll, oofSaving, oofGhosts, TextsKnown, Remembered
  <2>8. ReadingHolds'
    BY <1>4, <1>a DEF SaveStores, Acts, oofWorld, oofPoll, oofSaving, oofGhosts, ReadingHolds
  <2> QED  BY <2>1, <2>2, <2>3, <2>4, <2>5, <2>6, <2>7, <2>8 DEF OofInv
<1>5. ASSUME NEW m \in OofMailbox, SavePatches(m)
      PROVE  OofInv'
  <2>1. OofNumbers'
    BY <1>5, <1>a DEF SavePatches, Acts, Quiet, oofWorld, oofPoll, oofSaving, oofGhosts, OofNumbers
  <2>2. OofBoxes'
    <3>1. PICK s \in {"off", "on", "dated"} : exch' = [exch EXCEPT ![m] =
                  [status |-> s, period |-> IF s = "dated" THEN OwnPeriod ELSE 0,
                   text |-> Encoded(Text(version, IF s = "dated" THEN OwnPeriod ELSE 0))]]
      BY <1>5 DEF SavePatches
    <3> DEFINE p == IF s = "dated" THEN OwnPeriod ELSE 0
    <3>2. p \in Period /\ version \in 0..MaxVersion
      BY <1>a, TextsAreTexts DEF OofNumbers
    <3>3. Encoded(Text(version, p)) \in OofText
      BY <3>2, TextsAreTexts
    <3> HIDE DEF p
    <3>4. [status |-> s, period |-> p, text |-> Encoded(Text(version, p))] \in Absence
      BY <3>2, <3>3 DEF Absence
    <3>5. reading' = reading
      BY <1>5 DEF SavePatches, oofPoll
    <3>6. exch' = [exch EXCEPT ![m] = [status |-> s, period |-> p, text |-> Encoded(Text(version, p))]]
      BY <3>1 DEF p
    <3> QED  BY <3>4, <3>5, <3>6, <1>a DEF OofBoxes
  <2>3. OofMemory'
    <3>1. savingCopy' = [savingCopy EXCEPT ![m] = NoCopy] /\ UNCHANGED <<kept, copy, calendar>>
      BY <1>5 DEF SavePatches, oofWorld, oofPoll
    <3>2. savingCopy' \in [OofMailbox -> Memory]
      BY <3>1, <1>a, NothingKept DEF OofMemory
    <3>3. calendar \in Nat
      BY <1>a DEF OofNumbers
    <3>4. \A n, k \in OofMailbox : Fitting(savingCopy'[n][k])
      BY <3>1, <3>3, <1>a, NothingKept DEF OofMemory
    <3> QED  BY <3>1, <3>2, <3>4, <1>a DEF OofMemory, Fitting
  <2>4. OofPlaces'
    BY <1>5, <1>a DEF SavePatches, Acts, oofWorld, oofPoll, oofSaving, oofGhosts, OofPlaces
  <2>5. OofGhostTypes'
    BY <1>5, <1>a DEF SavePatches, Acts, oofWorld, oofPoll, oofSaving, oofGhosts, OofGhostTypes
  <2>6. WindowsKnown'
    BY <1>5, <1>a DEF SavePatches, Acts, oofWorld, oofPoll, oofSaving, oofGhosts, WindowsKnown, Remembered
  <2>7. TextsKnown'
    BY <1>5, <1>a DEF SavePatches, Acts, oofWorld, oofPoll, oofSaving, oofGhosts, TextsKnown, Remembered
  <2>8. ReadingHolds'
    BY <1>5, <1>a DEF SavePatches, Acts, oofWorld, oofPoll, oofSaving, oofGhosts, ReadingHolds
  <2> QED  BY <2>1, <2>2, <2>3, <2>4, <2>5, <2>6, <2>7, <2>8 DEF OofInv
<1>6. ASSUME NEW m \in OofMailbox, AdminSaves(m)
      PROVE  OofInv'
  <2>1. OofNumbers'
    BY <1>6, <1>a DEF AdminSaves, Acts, Quiet, oofWorld, oofPoll, oofSaving, oofGhosts, OofNumbers
  <2>2. OofBoxes'
    BY <1>6, <1>a DEF AdminSaves, Acts, oofWorld, oofPoll, oofSaving, oofGhosts, OofBoxes
  <2>3. OofMemory'
    BY <1>6, <1>a DEF AdminSaves, Acts, oofWorld, oofPoll, oofSaving, oofGhosts, OofMemory, Fitting
  <2>4. OofPlaces'
    BY <1>6, <1>a DEF AdminSaves, Acts, oofWorld, oofPoll, oofSaving, oofGhosts, OofPlaces
  <2>5. OofGhostTypes'
    BY <1>6, <1>a DEF AdminSaves, Acts, oofWorld, oofPoll, oofSaving, oofGhosts, OofGhostTypes
  <2>6. WindowsKnown'
    BY <1>6, <1>a DEF AdminSaves, Acts, oofWorld, oofPoll, oofSaving, oofGhosts, WindowsKnown, Remembered
  <2>7. TextsKnown'
    BY <1>6, <1>a DEF AdminSaves, Acts, oofWorld, oofPoll, oofSaving, oofGhosts, TextsKnown, Remembered
  <2>8. ReadingHolds'
    BY <1>6, <1>a DEF AdminSaves, Acts, oofWorld, oofPoll, oofSaving, oofGhosts, ReadingHolds
  <2> QED  BY <2>1, <2>2, <2>3, <2>4, <2>5, <2>6, <2>7, <2>8 DEF OofInv
<1>7. ASSUME NEW m \in OofMailbox, ReadBox(m)
      PROVE  OofInv'
  <2>1. OofNumbers'
    BY <1>7, <1>a DEF ReadBox, Acts, Quiet, oofWorld, oofPoll, oofSaving, oofGhosts, OofNumbers
  <2>2. OofBoxes'
    BY <1>7, <1>a DEF ReadBox, Acts, oofWorld, oofPoll, oofSaving, oofGhosts, OofBoxes
  <2>3. OofMemory'
    BY <1>7, <1>a DEF ReadBox, Acts, oofWorld, oofPoll, oofSaving, oofGhosts, OofMemory, Fitting
  <2>4. OofPlaces'
    BY <1>7, <1>a DEF ReadBox, Acts, oofWorld, oofPoll, oofSaving, oofGhosts, OofPlaces
  <2>5. OofGhostTypes'
    BY <1>7, <1>a DEF ReadBox, Acts, oofWorld, oofPoll, oofSaving, oofGhosts, OofGhostTypes
  <2>6. WindowsKnown'
    BY <1>7, <1>a DEF ReadBox, Acts, oofWorld, oofPoll, oofSaving, oofGhosts, WindowsKnown, Remembered
  <2>7. TextsKnown'
    BY <1>7, <1>a DEF ReadBox, Acts, oofWorld, oofPoll, oofSaving, oofGhosts, TextsKnown, Remembered
  <2>8. ReadingHolds'
    <3>1. at' = [at EXCEPT ![m] = "read"] /\ reading' = [reading EXCEPT ![m] = exch[m]]
          /\ exch' = exch /\ unnoted' = unnoted
      BY <1>7 DEF ReadBox, oofGhosts
    <3>2. reading'[m] = exch[m] /\ \A n \in OofMailbox \ {m} : reading'[n] = reading[n] /\ at'[n] = at[n]
      BY <3>1, <1>a DEF OofBoxes, OofPlaces
    <3> QED  BY <3>1, <3>2, <1>a DEF ReadingHolds
  <2> QED  BY <2>1, <2>2, <2>3, <2>4, <2>5, <2>6, <2>7, <2>8 DEF OofInv
<1>8. ASSUME NEW m \in OofMailbox, LeaveBox(m)
      PROVE  OofInv'
  <2>1. OofNumbers'
    BY <1>8, <1>a DEF LeaveBox, Acts, Quiet, oofWorld, oofPoll, oofSaving, oofGhosts, OofNumbers
  <2>2. OofBoxes'
    BY <1>8, <1>a, NothingKept DEF LeaveBox, BoxDone, oofWorld, oofPoll, oofSaving, oofGhosts, OofBoxes
  <2>3. OofMemory'
    BY <1>8, <1>a DEF LeaveBox, Acts, oofWorld, oofPoll, oofSaving, oofGhosts, OofMemory, Fitting
  <2>4. OofPlaces'
    BY <1>8, <1>a DEF LeaveBox, BoxDone, oofWorld, oofPoll, oofSaving, oofGhosts, OofPlaces
  <2>5. OofGhostTypes'
    BY <1>8, <1>a DEF LeaveBox, Acts, oofWorld, oofPoll, oofSaving, oofGhosts, OofGhostTypes
  <2>6. WindowsKnown'
    BY <1>8, <1>a DEF LeaveBox, Acts, oofWorld, oofPoll, oofSaving, oofGhosts, WindowsKnown, Remembered
  <2>7. TextsKnown'
    BY <1>8, <1>a DEF LeaveBox, Acts, oofWorld, oofPoll, oofSaving, oofGhosts, TextsKnown, Remembered
  <2>8. ReadingHolds'
    <3>1. /\ at'[m] = "done" /\ \A n \in OofMailbox \ {m} : at'[n] = at[n] /\ reading'[n] = reading[n]
          /\ exch' = exch /\ unnoted' = unnoted
      BY <1>8, <1>a DEF LeaveBox, BoxDone, oofGhosts, OofPlaces, OofBoxes
    <3> QED  BY <3>1, <1>a DEF ReadingHolds
  <2> QED  BY <2>1, <2>2, <2>3, <2>4, <2>5, <2>6, <2>7, <2>8 DEF OofInv
<1>9. ASSUME NEW m \in OofMailbox, PatchBox(m)
      PROVE  OofInv'
  <2>b. /\ at[m] = "read" /\ ~InPlace(m) /\ exch' = Patched(m) /\ at' = [at EXCEPT ![m] = "done"]
        /\ reading' = [reading EXCEPT ![m] = NotRead[m]]
        /\ UNCHANGED <<version, calendar, kept, polling, saving, savingCopy, owners, oofCrashes>>
        /\ \/ Noted(m) /\ UNCHANGED <<unnoted, forgot>>
           \/ unnoted' = unnoted \cup {m} /\ forgot' = forgot \cup {m} /\ UNCHANGED copy
    BY <1>9 DEF PatchBox, BoxDone, oofWorld, oofSaving
  <2>c. polling /\ Remembered(m) = copy[m]
    BY <2>b, <1>a DEF OofPlaces, Remembered
  <2>t. /\ Rendered(m) \in OofText /\ Encoded(Rendered(m)) \in OofText
        /\ Rendered(m).form = "ours" /\ Encoded(Rendered(m)).form = "exchange"
    <3>1. (IF TurnsOn(m) THEN calendar ELSE reading[m].period) \in Period /\ version \in 0..MaxVersion
      BY <1>a DEF OofNumbers, OofBoxes, Absence, Period, OwnPeriod
    <3> QED  BY <3>1, TextsAreTexts DEF Rendered
  <2>e. /\ exch' \in [OofMailbox -> Absence] /\ exch'[m].text = Encoded(Rendered(m))
        /\ TurnsOn(m) => exch'[m].status = "dated"
        /\ \A n \in OofMailbox \ {m} : exch'[n] = exch[n]
    <3>1. CASE TurnsOn(m)
      <4>1. exch' = [exch EXCEPT ![m] = [status |-> "dated", period |-> calendar, text |-> Encoded(Rendered(m))]]
        BY <2>b, <3>1 DEF Patched
      <4>2. [status |-> "dated", period |-> calendar, text |-> Encoded(Rendered(m))] \in Absence
        BY <2>t, <1>a DEF Absence, OofNumbers, Period, OwnPeriod
      <4> QED  BY <4>1, <4>2, <1>a DEF OofBoxes
    <3>2. CASE ~TurnsOn(m)
      <4>1. exch' = [exch EXCEPT ![m] = [exch[m] EXCEPT !.text = Encoded(Rendered(m))]]
        BY <2>b, <3>2 DEF Patched
      <4>2. [exch[m] EXCEPT !.text = Encoded(Rendered(m))] \in Absence
        BY <2>t, <1>a DEF OofBoxes, Absence
      <4>3. [exch[m] EXCEPT !.text = Encoded(Rendered(m))].text = Encoded(Rendered(m))
        BY <1>a DEF OofBoxes, Absence
      <4> QED  BY <3>2, <4>1, <4>2, <4>3, <1>a DEF OofBoxes
    <3> QED  BY <3>1, <3>2
  <2>w. WinToKeep(m) \in 0..MaxWin
    BY <1>a, MemoryOf DEF Remembrance, WinToKeep, OofNumbers
  <2>f. /\ copy' \in Memory
        /\ \/ copy'[m] = [render |-> Rendered(m), text |-> Encoded(Rendered(m)), win |-> WinToKeep(m)]
              /\ unnoted' = unnoted /\ forgot' = forgot
           \/ unnoted' = unnoted \cup {m} /\ forgot' = forgot \cup {m} /\ copy' = copy
        /\ \A n \in OofMailbox \ {m} : copy'[n] = copy[n]
    <3>1. CASE Noted(m) /\ UNCHANGED <<unnoted, forgot>>
      <4>1. copy' = [copy EXCEPT ![m] = [render |-> Rendered(m), text |-> Encoded(Rendered(m)), win |-> WinToKeep(m)]]
        BY <3>1 DEF Noted
      <4>2. [render |-> Rendered(m), text |-> Encoded(Rendered(m)), win |-> WinToKeep(m)]
               \in [render : OofText, text : OofText, win : 0..MaxWin]
        BY <2>t, <2>w
      <4> QED  BY <3>1, <4>1, <4>2, <1>a DEF OofMemory, Memory
    <3>2. CASE unnoted' = unnoted \cup {m} /\ forgot' = forgot \cup {m} /\ UNCHANGED copy
      BY <3>2, <1>a DEF OofMemory
    <3> QED  BY <3>1, <3>2, <2>b
  <2>g. /\ TurnsOn(m) => calendar # 0 /\ copy[m].win # calendar /\ reading[m].status = "off"
        /\ needless' = needless \/ (exch' = exch /\ m \notin unnoted)
        /\ twice' = twice \/ (TurnsOn(m) /\ calendar = lastOn[m] /\ twice' = twice \cup {m})
        /\ lastOn' = IF TurnsOn(m) THEN [lastOn EXCEPT ![m] = calendar] ELSE lastOn
    BY <1>9 DEF PatchBox, TurnsOn
  <2>1. OofNumbers'
    BY <1>9, <1>a, <2>f DEF PatchBox, Acts, Quiet, oofWorld, oofPoll, oofSaving, oofGhosts, OofNumbers
  <2>2. OofBoxes'
    BY <2>b, <2>e, <1>a, NothingKept DEF OofBoxes
  <2>3. OofMemory'
    <3>1. Fitting(copy'[m])
      <4>1. CASE copy'[m] = [render |-> Rendered(m), text |-> Encoded(Rendered(m)), win |-> WinToKeep(m)]
        <5>1. copy'[m].win = WinToKeep(m) /\ copy'[m].render = Rendered(m) /\ copy'[m].text = Encoded(Rendered(m))
          BY <4>1
        <5>2. copy'[m].text = Encoded(copy'[m].render)
          BY <5>1
        <5> QED  BY <5>1, <5>2, <2>t DEF Fitting
      <4>2. CASE copy' = copy
        BY <4>2, <1>a DEF OofMemory
      <4> QED  BY <4>1, <4>2, <2>f
    <3> QED  BY <3>1, <2>b, <2>f, <1>a DEF OofMemory, Fitting
  <2>4. OofPlaces'
    BY <2>b, <1>a DEF OofPlaces
  <2>5. OofGhostTypes'
    <3>1. needless' = {}
      <4> SUFFICES ASSUME exch' = exch, m \notin unnoted PROVE FALSE
        BY <2>g, <1>a DEF OofGhostTypes
      <4>1. exch[m].text = Encoded(Rendered(m))
        BY <2>e
      <4>2. reading[m].text = exch[m].text /\ exch[m].text = copy[m].text
        BY <4>1, <2>t, <2>b, <2>c, <1>a DEF ReadingHolds, TextsKnown
      <4>3. ~TurnsOn(m)
        BY <2>e, <2>g, <2>b, <1>a DEF ReadingHolds
      <4>4. copy[m] \in Remembrance /\ Fitting(copy[m])
        BY <1>a, MemoryOf DEF OofMemory
      <4>5. copy[m].render.form = "ours" /\ copy[m].text = Encoded(copy[m].render)
        BY <4>1, <4>2, <4>4, <2>t, TextsAreTexts DEF Fitting
      <4>6. Rendered(m) = copy[m].render
        BY <4>1, <4>2, <4>4, <4>5, <2>t, EncodedOnce DEF Remembrance
      <4> QED  BY <2>b, <4>2, <4>3, <4>6 DEF InPlace, Known
    <3>2. twice' \subseteq forgot'
      <4>1. CASE TurnsOn(m) /\ calendar = lastOn[m]
        <5>1. m \in forgot
          BY <4>1, <2>c, <2>g, <1>a DEF WindowsKnown
        <5> QED  BY <5>1, <2>f, <2>g, <1>a DEF OofGhostTypes
      <4>2. CASE ~(TurnsOn(m) /\ calendar = lastOn[m])
        BY <4>2, <2>f, <2>g, <1>a DEF OofGhostTypes
      <4> QED  BY <4>1, <4>2
    <3>3. lastOn' \in [OofMailbox -> 0..MaxWin]
      BY <2>g, <1>a DEF OofGhostTypes, OofNumbers
    <3>4. unnoted' \subseteq OofMailbox /\ forgot' \subseteq OofMailbox
      BY <2>f, <1>a DEF OofGhostTypes
    <3> QED  BY <3>1, <3>2, <3>3, <3>4 DEF OofGhostTypes
  <2>6. WindowsKnown'
    <3> SUFFICES ASSUME NEW n \in OofMailbox, n \notin forgot'
                 PROVE  Remembered(n)'.win = lastOn'[n]
      BY DEF WindowsKnown
    <3>0. Remembered(n)' = copy'[n] /\ Remembered(n) = copy[n]
      BY <2>b, <2>c DEF Remembered
    <3>1. CASE n # m
      BY <3>0, <3>1, <2>f, <2>g, <1>a DEF OofGhostTypes, WindowsKnown
    <3>2. CASE n = m
      <4>1. copy'[m] = [render |-> Rendered(m), text |-> Encoded(Rendered(m)), win |-> WinToKeep(m)] /\ m \notin forgot
        BY <3>2, <2>f
      <4>2. copy'[m].win = WinToKeep(m)
        BY <4>1
      <4>3. copy[m].win = lastOn[m]
        BY <4>1, <2>c, <1>a DEF WindowsKnown
      <4> QED  BY <3>0, <3>2, <4>2, <4>3, <2>g, <1>a DEF OofGhostTypes, WinToKeep
    <3> QED  BY <3>1, <3>2
  <2>7. TextsKnown'
    <3> SUFFICES ASSUME NEW n \in OofMailbox, n \notin unnoted', exch'[n].text.form = "exchange"
                 PROVE  exch'[n].text = Remembered(n)'.text
      BY DEF TextsKnown
    <3>0. Remembered(n)' = copy'[n] /\ Remembered(n) = copy[n]
      BY <2>b, <2>c DEF Remembered
    <3>1. CASE n # m
      BY <3>0, <3>1, <2>e, <2>f, <1>a DEF TextsKnown
    <3>2. CASE n = m
      <4>1. copy'[m] = [render |-> Rendered(m), text |-> Encoded(Rendered(m)), win |-> WinToKeep(m)]
        BY <3>2, <2>f
      <4>2. copy'[m].text = Encoded(Rendered(m))
        BY <4>1
      <4> QED  BY <3>0, <3>2, <4>2, <2>e
    <3> QED  BY <3>1, <3>2
  <2>8. ReadingHolds'
    <3>1. at'[m] = "done" /\ \A n \in OofMailbox \ {m} : at'[n] = at[n]
      BY <2>b, <1>a DEF OofPlaces
    <3>2. unnoted \subseteq unnoted' /\ \A n \in OofMailbox \ {m} : reading'[n] = reading[n]
      BY <2>b, <2>f, <1>a DEF OofBoxes
    <3> QED  BY <3>1, <3>2, <2>e, <1>a DEF ReadingHolds
  <2> QED  BY <2>1, <2>2, <2>3, <2>4, <2>5, <2>6, <2>7, <2>8 DEF OofInv
<1>10. ASSUME NEW m \in OofMailbox, GiveUpBox(m)
      PROVE  OofInv'
  <2>1. OofNumbers'
    BY <1>10, <1>a DEF GiveUpBox, Acts, Quiet, oofWorld, oofPoll, oofSaving, oofGhosts, OofNumbers
  <2>2. OofBoxes'
    BY <1>10, <1>a, NothingKept DEF GiveUpBox, BoxDone, oofWorld, oofPoll, oofSaving, oofGhosts, OofBoxes
  <2>3. OofMemory'
    BY <1>10, <1>a DEF GiveUpBox, Acts, oofWorld, oofPoll, oofSaving, oofGhosts, OofMemory, Fitting
  <2>4. OofPlaces'
    BY <1>10, <1>a DEF GiveUpBox, BoxDone, oofWorld, oofPoll, oofSaving, oofGhosts, OofPlaces
  <2>5. OofGhostTypes'
    BY <1>10, <1>a DEF GiveUpBox, Acts, oofWorld, oofPoll, oofSaving, oofGhosts, OofGhostTypes
  <2>6. WindowsKnown'
    BY <1>10, <1>a DEF GiveUpBox, Acts, oofWorld, oofPoll, oofSaving, oofGhosts, WindowsKnown, Remembered
  <2>7. TextsKnown'
    BY <1>10, <1>a DEF GiveUpBox, Acts, oofWorld, oofPoll, oofSaving, oofGhosts, TextsKnown, Remembered
  <2>8. ReadingHolds'
    <3>1. /\ at'[m] = "done" /\ \A n \in OofMailbox \ {m} : at'[n] = at[n] /\ reading'[n] = reading[n]
          /\ exch' = exch /\ unnoted' = unnoted
      BY <1>10, <1>a DEF GiveUpBox, BoxDone, oofGhosts, OofPlaces, OofBoxes
    <3> QED  BY <3>1, <1>a DEF ReadingHolds
  <2> QED  BY <2>1, <2>2, <2>3, <2>4, <2>5, <2>6, <2>7, <2>8 DEF OofInv
<1>11. CASE ChangeTemplate
  <2>1. OofNumbers'
    BY <1>11, <1>a DEF ChangeTemplate, Acts, Quiet, oofWorld, oofPoll, oofSaving, oofGhosts, OofNumbers
  <2>2. OofBoxes'
    BY <1>11, <1>a DEF ChangeTemplate, Acts, oofWorld, oofPoll, oofSaving, oofGhosts, OofBoxes
  <2>3. OofMemory'
    BY <1>11, <1>a DEF ChangeTemplate, Acts, oofWorld, oofPoll, oofSaving, oofGhosts, OofMemory, Fitting
  <2>4. OofPlaces'
    BY <1>11, <1>a DEF ChangeTemplate, Acts, oofWorld, oofPoll, oofSaving, oofGhosts, OofPlaces
  <2>5. OofGhostTypes'
    BY <1>11, <1>a DEF ChangeTemplate, Acts, oofWorld, oofPoll, oofSaving, oofGhosts, OofGhostTypes
  <2>6. WindowsKnown'
    BY <1>11, <1>a DEF ChangeTemplate, Acts, oofWorld, oofPoll, oofSaving, oofGhosts, WindowsKnown, Remembered
  <2>7. TextsKnown'
    BY <1>11, <1>a DEF ChangeTemplate, Acts, oofWorld, oofPoll, oofSaving, oofGhosts, TextsKnown, Remembered
  <2>8. ReadingHolds'
    BY <1>11, <1>a DEF ChangeTemplate, Acts, oofWorld, oofPoll, oofSaving, oofGhosts, ReadingHolds
  <2> QED  BY <2>1, <2>2, <2>3, <2>4, <2>5, <2>6, <2>7, <2>8 DEF OofInv
<1>12. CASE NewWindow
  <2>1. OofNumbers'
    BY <1>12, <1>a DEF NewWindow, Acts, Quiet, oofWorld, oofPoll, oofSaving, oofGhosts, OofNumbers
  <2>2. OofBoxes'
    BY <1>12, <1>a DEF NewWindow, Acts, oofWorld, oofPoll, oofSaving, oofGhosts, OofBoxes
  <2>3. OofMemory'
    BY <1>12, <1>a DEF NewWindow, oofPoll, oofSaving, OofMemory, Fitting
  <2>4. OofPlaces'
    BY <1>12, <1>a DEF NewWindow, Acts, oofWorld, oofPoll, oofSaving, oofGhosts, OofPlaces
  <2>5. OofGhostTypes'
    BY <1>12, <1>a DEF NewWindow, Acts, oofWorld, oofPoll, oofSaving, oofGhosts, OofGhostTypes
  <2>6. WindowsKnown'
    BY <1>12, <1>a DEF NewWindow, Acts, oofWorld, oofPoll, oofSaving, oofGhosts, WindowsKnown, Remembered
  <2>7. TextsKnown'
    BY <1>12, <1>a DEF NewWindow, Acts, oofWorld, oofPoll, oofSaving, oofGhosts, TextsKnown, Remembered
  <2>8. ReadingHolds'
    BY <1>12, <1>a DEF NewWindow, Acts, oofWorld, oofPoll, oofSaving, oofGhosts, ReadingHolds
  <2> QED  BY <2>1, <2>2, <2>3, <2>4, <2>5, <2>6, <2>7, <2>8 DEF OofInv
<1>13. CASE BeginPoll
  <2>1. OofNumbers'
    BY <1>13, <1>a DEF BeginPoll, Acts, Quiet, oofWorld, oofPoll, oofSaving, oofGhosts, OofNumbers
  <2>2. OofBoxes'
    BY <1>13, <1>a DEF BeginPoll, Acts, oofWorld, oofPoll, oofSaving, oofGhosts, OofBoxes
  <2>3. OofMemory'
    BY <1>13, <1>a DEF BeginPoll, Acts, oofWorld, oofPoll, oofSaving, oofGhosts, OofMemory, Fitting
  <2>4. OofPlaces'
    BY <1>13, <1>a DEF BeginPoll, Acts, oofWorld, oofPoll, oofSaving, oofGhosts, OofPlaces
  <2>5. OofGhostTypes'
    BY <1>13, <1>a DEF BeginPoll, Acts, oofWorld, oofPoll, oofSaving, oofGhosts, OofGhostTypes
  <2>6. WindowsKnown'
    BY <1>13, <1>a DEF BeginPoll, Acts, oofWorld, oofPoll, oofSaving, oofGhosts, WindowsKnown, Remembered
  <2>7. TextsKnown'
    BY <1>13, <1>a DEF BeginPoll, Acts, oofWorld, oofPoll, oofSaving, oofGhosts, TextsKnown, Remembered
  <2>8. ReadingHolds'
    BY <1>13, <1>a DEF BeginPoll, Acts, oofWorld, oofPoll, oofSaving, oofGhosts, ReadingHolds
  <2> QED  BY <2>1, <2>2, <2>3, <2>4, <2>5, <2>6, <2>7, <2>8 DEF OofInv
<1>14. CASE EndPoll
  <2>1. OofNumbers'
    BY <1>14, <1>a DEF EndPoll, Acts, Quiet, oofWorld, oofPoll, oofSaving, oofGhosts, OofNumbers
  <2>2. OofBoxes'
    <3>1. exch' = exch /\ reading' = NotRead
      BY <1>14 DEF EndPoll
    <3> QED  BY <3>1, <1>a, NothingKept DEF OofBoxes
  <2>3. OofMemory'
    <3>1. /\ kept' \in {kept, copy} /\ copy' = NoCopy /\ calendar' = calendar
          /\ savingCopy' = savingCopy \/ savingCopy' = [n \in OofMailbox |-> NoCopy]
      BY <1>14 DEF EndPoll, oofWorld, oofSaving
    <3>2. calendar \in Nat
      BY <1>a DEF OofNumbers
    <3>3. kept' \in Memory /\ copy' \in Memory /\ savingCopy' \in [OofMailbox -> Memory]
      BY <3>1, <1>a, NothingKept DEF OofMemory
    <3>4. \A k \in OofMailbox : /\ Fitting(kept'[k]) /\ Fitting(copy'[k])
                                /\ \A n \in OofMailbox : Fitting(savingCopy'[n][k])
      BY <3>1, <3>2, <1>a, NothingKept DEF OofMemory
    <3> QED  BY <3>1, <3>3, <3>4 DEF OofMemory, Fitting
  <2>4. OofPlaces'
    BY <1>14, <1>a DEF EndPoll, Acts, oofWorld, oofPoll, oofSaving, oofGhosts, OofPlaces
  <2>5. OofGhostTypes'
    BY <1>14, <1>a DEF EndPoll, Acts, oofWorld, oofPoll, oofSaving, oofGhosts, OofGhostTypes
  <2>6. WindowsKnown'
    BY <1>14, <1>a DEF EndPoll, Acts, oofWorld, oofPoll, oofSaving, oofGhosts, WindowsKnown, Remembered
  <2>7. TextsKnown'
    BY <1>14, <1>a DEF EndPoll, Acts, oofWorld, oofPoll, oofSaving, oofGhosts, TextsKnown, Remembered
  <2>8. ReadingHolds'
    BY <1>14, <1>a DEF EndPoll, Acts, oofWorld, oofPoll, oofSaving, oofGhosts, ReadingHolds
  <2> QED  BY <2>1, <2>2, <2>3, <2>4, <2>5, <2>6, <2>7, <2>8 DEF OofInv
<1>15. CASE OofCrash
  <2>1. OofNumbers'
    BY <1>15, <1>a DEF OofCrash, Acts, Quiet, oofWorld, oofPoll, oofSaving, oofGhosts, OofNumbers
  <2>2. OofBoxes'
    <3>1. exch' = exch /\ reading' = NotRead
      BY <1>15 DEF OofCrash
    <3> QED  BY <3>1, <1>a, NothingKept DEF OofBoxes
  <2>3. OofMemory'
    <3>1. /\ kept' \in {kept, copy} /\ copy' = NoCopy /\ calendar' = calendar
          /\ savingCopy' = savingCopy \/ savingCopy' = [n \in OofMailbox |-> NoCopy]
      BY <1>15 DEF OofCrash, oofWorld, oofSaving
    <3>2. calendar \in Nat
      BY <1>a DEF OofNumbers
    <3>3. kept' \in Memory /\ copy' \in Memory /\ savingCopy' \in [OofMailbox -> Memory]
      BY <3>1, <1>a, NothingKept DEF OofMemory
    <3>4. \A k \in OofMailbox : /\ Fitting(kept'[k]) /\ Fitting(copy'[k])
                                /\ \A n \in OofMailbox : Fitting(savingCopy'[n][k])
      BY <3>1, <3>2, <1>a, NothingKept DEF OofMemory
    <3> QED  BY <3>1, <3>3, <3>4 DEF OofMemory, Fitting
  <2>4. OofPlaces'
    BY <1>15, <1>a DEF OofCrash, Acts, oofWorld, oofPoll, oofSaving, oofGhosts, OofPlaces
  <2>5. OofGhostTypes'
    BY <1>15, <1>a DEF OofCrash, Acts, oofWorld, oofPoll, oofSaving, oofGhosts, OofGhostTypes
  <2>6. WindowsKnown'
    BY <1>15, <1>a DEF OofCrash, Acts, oofWorld, oofPoll, oofSaving, oofGhosts, WindowsKnown, Remembered
  <2>7. TextsKnown'
    BY <1>15, <1>a DEF OofCrash, Acts, oofWorld, oofPoll, oofSaving, oofGhosts, TextsKnown, Remembered
  <2>8. ReadingHolds'
    BY <1>15, <1>a DEF OofCrash, Acts, oofWorld, oofPoll, oofSaving, oofGhosts, ReadingHolds
  <2> QED  BY <2>1, <2>2, <2>3, <2>4, <2>5, <2>6, <2>7, <2>8 DEF OofInv
<1>16. CASE UNCHANGED oofVars
  <2>1. OofNumbers'
    BY <1>16, <1>a DEF oofVars, OofNumbers
  <2>2. OofBoxes'
    BY <1>16, <1>a DEF oofVars, OofBoxes
  <2>3. OofMemory'
    BY <1>16, <1>a DEF oofVars, OofMemory, Fitting
  <2>4. OofPlaces'
    BY <1>16, <1>a DEF oofVars, OofPlaces
  <2>5. OofGhostTypes'
    BY <1>16, <1>a DEF oofVars, OofGhostTypes
  <2>6. WindowsKnown'
    BY <1>16, <1>a DEF oofVars, WindowsKnown, Remembered
  <2>7. TextsKnown'
    BY <1>16, <1>a DEF oofVars, TextsKnown, Remembered
  <2>8. ReadingHolds'
    BY <1>16, <1>a DEF oofVars, ReadingHolds
  <2> QED  BY <2>1, <2>2, <2>3, <2>4, <2>5, <2>6, <2>7, <2>8 DEF OofInv
<1> QED  BY <1>1, <1>2, <1>3, <1>4, <1>5, <1>6, <1>7, <1>8, <1>9, <1>10, <1>11, <1>12, <1>13, <1>14, <1>15, <1>16 DEF OofNext, Polls

LEMMA OofCorrect == OofSpec => []OofInv
BY OofStarts, OofStep, PTL DEF OofSpec

LEMMA OofFromInv == OofInv => OofTypeOK /\ TurnedOnOnce /\ NoNeedlessPatch
<1> SUFFICES ASSUME OofInv PROVE OofTypeOK /\ TurnedOnOnce /\ NoNeedlessPatch
  OBVIOUS
<1>1. OofTypeOK
  <2>1. unnoted \cup forgot \cup twice \cup needless \subseteq OofMailbox
    BY DEF OofInv, OofGhostTypes
  <2> QED  BY <2>1 DEF OofInv, OofNumbers, OofBoxes, OofMemory, OofPlaces, OofGhostTypes, OofTypeOK
<1>2. TurnedOnOnce /\ NoNeedlessPatch
  BY DEF OofInv, OofGhostTypes, TurnedOnOnce, NoNeedlessPatch
<1> QED  BY <1>1, <1>2

HIDE OofAssumption

-----------------------------------------------------------------------------
(* AbsenceReplies                                                          *)

USE ReplyAssumption

(* Threads that have noted s for the fingerprint f and are about to answer. *)
Sending(f, s) ==
  {t \in ReplyThread : thread[t].at = "send" /\ thread[t].fp = f /\ thread[t].sender = s}

(* The answers f allows to s so far: one for each time it was noted.       *)
Turned(f, s) == turns[f] + (IF noted.fp = f /\ s \in noted.to THEN 1 ELSE 0)

(* An answer on its way counts like one that was given.                    *)
Bounded ==
  \A f \in Fingerprint, s \in ReplySender :
    answers[f][s] + Cardinality(Sending(f, s)) <= Turned(f, s)

ReplyInv == ReplyTypeOK /\ Bounded

-----------------------------------------------------------------------------
LEMMA SendingFinite ==
  ASSUME NEW f, NEW s
  PROVE  IsFiniteSet(Sending(f, s)) /\ Cardinality(Sending(f, s)) \in Nat
BY FS_Subset, FS_CardinalityType DEF Sending

LEMMA SendingFiniteNext ==
  ASSUME NEW f, NEW s
  PROVE  IsFiniteSet(Sending(f, s)') /\ Cardinality(Sending(f, s)') \in Nat
BY FS_Subset, FS_CardinalityType DEF Sending

LEMMA MarkType ==
  ASSUME ReplyTypeOK, NEW s \in ReplySender
  PROVE  Mark(absence, s) \in Fingerprint
BY DEF ReplyTypeOK, Mark, Fingerprint

LEMMA SilentType ==
  /\ Silent \in [at : {"none", "read", "send"}, sender : ReplySender, fp : Fingerprint]
  /\ Silent.at = "none"
<1>1. (CHOOSE s \in ReplySender : TRUE) \in ReplySender
  OBVIOUS
<1> QED  BY <1>1 DEF Silent, Nothing, Fingerprint

(* A step that notes nothing and answers nobody, and after which no further *)
(* thread is about to answer.                                              *)
LEMMA QuietKeeps ==
  ASSUME ReplyInv, ReplyTypeOK', UNCHANGED <<noted, answers, turns>>,
         \A t \in ReplyThread : thread'[t].at = "send" => thread'[t] = thread[t]
  PROVE  ReplyInv'
<1>1. ASSUME NEW f \in Fingerprint, NEW s \in ReplySender
      PROVE  answers'[f][s] + Cardinality(Sending(f, s)') <= Turned(f, s)'
  <2>1. Sending(f, s)' \in SUBSET Sending(f, s)
    BY DEF Sending
  <2>2. Cardinality(Sending(f, s)') <= Cardinality(Sending(f, s))
    BY <2>1, SendingFinite, FS_Subset
  <2>3. Turned(f, s)' = Turned(f, s) /\ answers' = answers
    BY DEF Turned
  <2>4. /\ answers[f][s] \in Nat /\ Turned(f, s) \in Nat
        /\ answers[f][s] + Cardinality(Sending(f, s)) <= Turned(f, s)
    BY DEF ReplyInv, ReplyTypeOK, Bounded, Turned
  <2>5. Cardinality(Sending(f, s)) \in Nat /\ Cardinality(Sending(f, s)') \in Nat
    BY SendingFinite, SendingFiniteNext
  <2> QED  BY <2>2, <2>3, <2>4, <2>5
<1> QED  BY <1>1 DEF ReplyInv, Bounded

(* A mail that is stored, or a thread that ends without an answer.         *)
LEMMA ThreadKeeps ==
  ASSUME ReplyInv, NEW t \in ReplyThread,
         NEW r \in [at : {"none", "read"}, sender : ReplySender, fp : Fingerprint],
         thread' = [thread EXCEPT ![t] = r],
         UNCHANGED <<sideOf, public, absence, noted, answers, turns, crossed>>
  PROVE  ReplyInv'
<1>1. ReplyTypeOK'
  BY DEF ReplyInv, ReplyTypeOK
<1>2. \A u \in ReplyThread : thread'[u].at = "send" => thread'[u] = thread[u]
  BY DEF ReplyInv, ReplyTypeOK
<1> QED  BY <1>1, <1>2, QuietKeeps

(* The look and the note are one step under the lock: either the           *)
(* fingerprint stays and s is new in it, or another one takes its place.   *)
LEMMA NoteKeeps ==
  ASSUME ReplyInv, NEW t \in ReplyThread, NoteSender(t)
  PROVE  ReplyInv'
<1> DEFINE f0 == thread[t].fp
           s0 == thread[t].sender
<1>1. /\ f0 \in Fingerprint /\ s0 \in ReplySender /\ thread[t].at = "read"
      /\ noted.fp \in Fingerprint /\ noted.to \in SUBSET ReplySender
  BY DEF ReplyInv, ReplyTypeOK, NoteSender
<1>2. /\ s0 \notin NotedFor(f0).to
      /\ noted' = [fp |-> f0, to |-> NotedFor(f0).to \cup {s0}]
      /\ UNCHANGED <<sideOf, public, absence, answers>>
      /\ thread' = [thread EXCEPT ![t].at = "send"]
      /\ turns[noted.fp] < MaxTurns
      /\ turns' = IF noted.fp = f0 THEN turns ELSE [turns EXCEPT ![noted.fp] = @ + 1]
      /\ crossed' = crossed \cup {g \in {noted.fp} : g.no # f0.no}
  <2>1. NotedFor(f0) = [fp |-> f0, to |-> NotedFor(f0).to]
    BY <1>1 DEF NotedFor, ReplyInv, ReplyTypeOK
  <2>2. /\ turns[noted.fp] < MaxTurns
        /\ turns' = IF noted.fp = f0 THEN turns ELSE [turns EXCEPT ![noted.fp] = @ + 1]
        /\ crossed' = crossed \cup {g \in {noted.fp} : g.no # f0.no}
    BY DEF NoteSender, NewTurn
  <2> QED  BY <2>1, <2>2 DEF NoteSender
<1>3. NotedFor(f0).to \in SUBSET ReplySender
  BY <1>1 DEF NotedFor
<1>4. thread' \in [ReplyThread -> [at : {"none", "read", "send"},
                                   sender : ReplySender, fp : Fingerprint]]
  BY <1>2 DEF ReplyInv, ReplyTypeOK
<1>5. turns' \in [Fingerprint -> 0..MaxTurns]
  BY <1>1, <1>2 DEF ReplyInv, ReplyTypeOK
<1>6. ReplyTypeOK'
  BY <1>1, <1>2, <1>3, <1>4, <1>5 DEF ReplyInv, ReplyTypeOK
<1>7. ASSUME NEW f \in Fingerprint, NEW s \in ReplySender
      PROVE  answers'[f][s] + Cardinality(Sending(f, s)') <= Turned(f, s)'
  <2>1. /\ answers[f][s] \in Nat /\ turns[f] \in Nat /\ turns'[f] \in Nat
        /\ answers[f][s] + Cardinality(Sending(f, s)) <= Turned(f, s)
        /\ Cardinality(Sending(f, s)) \in Nat /\ Cardinality(Sending(f, s)') \in Nat
        /\ answers' = answers
    BY <1>2, <1>5, SendingFinite, SendingFiniteNext DEF ReplyInv, ReplyTypeOK, Bounded
  <2>2. /\ thread'[t].at = "send" /\ thread'[t].fp = f0 /\ thread'[t].sender = s0
        /\ \A u \in ReplyThread \ {t} : thread'[u] = thread[u]
    BY <1>2 DEF ReplyInv, ReplyTypeOK
  <2>3. CASE f = f0 /\ s = s0
    <3>1. Sending(f, s)' = Sending(f, s) \cup {t} /\ t \notin Sending(f, s)
      BY <1>1, <2>2, <2>3 DEF Sending
    <3>2. Cardinality(Sending(f, s)') = Cardinality(Sending(f, s)) + 1
      BY <3>1, SendingFinite, FS_AddElement
    <3>3. Turned(f, s)' = turns'[f] + 1 /\ turns'[f] = turns[f]
      <4>1. noted'.fp = f /\ s \in noted'.to
        BY <1>2, <2>3
      <4>2. turns'[f] = turns[f]
        BY <1>1, <1>2, <2>3 DEF ReplyInv, ReplyTypeOK
      <4> QED  BY <4>1, <4>2 DEF Turned
    <3>4. Turned(f, s) = turns[f]
      BY <1>2, <2>1, <2>3 DEF NotedFor, Turned
    <3> QED  BY <2>1, <3>2, <3>3, <3>4
  <2>4. CASE ~(f = f0 /\ s = s0)
    <3>1. Sending(f, s)' = Sending(f, s)
      BY <1>1, <2>2, <2>4 DEF Sending
    <3>2. Turned(f, s) <= Turned(f, s)'
      <4>1. noted'.fp = f0 /\ noted'.to = NotedFor(f0).to \cup {s0}
        BY <1>2
      <4>2. CASE noted.fp = f0
        BY <1>2, <2>1, <2>4, <4>1, <4>2 DEF Turned, NotedFor
      <4>3. CASE noted.fp # f0 /\ noted.fp = f
        <5>1. turns'[f] = turns[f] + 1
          BY <1>1, <1>2, <4>3 DEF ReplyInv, ReplyTypeOK
        <5> QED  BY <2>1, <4>1, <4>3, <5>1 DEF Turned
      <4>4. CASE noted.fp # f0 /\ noted.fp # f
        <5>1. turns'[f] = turns[f]
          BY <1>1, <1>2, <4>4 DEF ReplyInv, ReplyTypeOK
        <5> QED  BY <2>1, <4>1, <4>4, <5>1 DEF Turned
      <4> QED  BY <4>2, <4>3, <4>4
    <3>3. Turned(f, s) \in Nat /\ Turned(f, s)' \in Nat
      BY <2>1 DEF Turned
    <3> QED  BY <2>1, <3>1, <3>2, <3>3
  <2> QED  BY <2>3, <2>4
<1> QED  BY <1>6, <1>7 DEF ReplyInv, Bounded

(* The answer is given; the thread is on its way no longer.                *)
LEMMA SendKeeps ==
  ASSUME ReplyInv, NEW t \in ReplyThread, SendReply(t)
  PROVE  ReplyInv'
<1> DEFINE f0 == thread[t].fp
           s0 == thread[t].sender
<1>1. /\ f0 \in Fingerprint /\ s0 \in ReplySender /\ thread[t].at = "send"
      /\ answers[f0][s0] < MaxReplies
      /\ answers' = [answers EXCEPT ![f0][s0] = @ + 1]
      /\ thread' = [thread EXCEPT ![t] = Silent]
      /\ UNCHANGED <<sideOf, public, absence, noted, turns, crossed>>
  BY DEF ReplyInv, ReplyTypeOK, SendReply, Ends
<1>2. answers' \in [Fingerprint -> [ReplySender -> 0..MaxReplies]]
  BY <1>1 DEF ReplyInv, ReplyTypeOK
<1>3. thread' \in [ReplyThread -> [at : {"none", "read", "send"},
                                   sender : ReplySender, fp : Fingerprint]]
  BY <1>1, SilentType DEF ReplyInv, ReplyTypeOK
<1>4. ReplyTypeOK'
  BY <1>1, <1>2, <1>3 DEF ReplyInv, ReplyTypeOK
<1>5. ASSUME NEW f \in Fingerprint, NEW s \in ReplySender
      PROVE  answers'[f][s] + Cardinality(Sending(f, s)') <= Turned(f, s)'
  <2>1. /\ answers[f][s] \in Nat /\ Turned(f, s) \in Nat /\ Turned(f, s)' = Turned(f, s)
        /\ answers[f][s] + Cardinality(Sending(f, s)) <= Turned(f, s)
        /\ Cardinality(Sending(f, s)) \in Nat /\ Cardinality(Sending(f, s)') \in Nat
    BY <1>1, SendingFinite, SendingFiniteNext DEF ReplyInv, ReplyTypeOK, Bounded, Turned
  <2>2. /\ thread'[t].at = "none"
        /\ \A u \in ReplyThread \ {t} : thread'[u] = thread[u]
    BY <1>1, SilentType DEF ReplyInv, ReplyTypeOK
  <2>3. CASE f = f0 /\ s = s0
    <3>1. Sending(f, s)' = Sending(f, s) \ {t} /\ t \in Sending(f, s)
      BY <1>1, <2>2, <2>3 DEF Sending
    <3>2. Cardinality(Sending(f, s)') = Cardinality(Sending(f, s)) - 1
      BY <3>1, SendingFinite, FS_RemoveElement
    <3>3. answers'[f][s] = answers[f][s] + 1
      BY <1>1, <2>3 DEF ReplyInv, ReplyTypeOK
    <3> QED  BY <2>1, <3>2, <3>3
  <2>4. CASE ~(f = f0 /\ s = s0)
    <3>1. Sending(f, s)' = Sending(f, s)
      BY <1>1, <2>2, <2>4 DEF Sending
    <3>2. answers'[f][s] = answers[f][s]
      BY <1>1, <2>4 DEF ReplyInv, ReplyTypeOK
    <3> QED  BY <2>1, <3>1, <3>2
  <2> QED  BY <2>3, <2>4
<1> QED  BY <1>4, <1>5 DEF ReplyInv, Bounded

LEMMA ReplyStep ==
  ASSUME ReplyInv, [ReplyNext]_replyVars
  PROVE  ReplyInv'
<1>1. CASE ChangeAbsence
  <2>1. /\ UNCHANGED <<sideOf, public, noted, thread, answers, turns, crossed>>
        /\ absence.no < MaxAbsence
        /\ \E on, apart \in BOOLEAN :
             absence' = [no |-> absence.no + 1, on |-> on, apart |-> apart]
    BY <1>1 DEF ChangeAbsence
  <2>2. absence' \in [no : 0..MaxAbsence, on : BOOLEAN, apart : BOOLEAN]
    BY <2>1 DEF ReplyInv, ReplyTypeOK
  <2>3. ReplyTypeOK'
    BY <2>1, <2>2 DEF ReplyInv, ReplyTypeOK
  <2> QED  BY <2>1, <2>3, QuietKeeps
<1>2. ASSUME NEW t \in ReplyThread, NEW s \in ReplySender, MailStored(t, s)
      PROVE  ReplyInv'
  <2>1. [at |-> "read", sender |-> s, fp |-> Mark(absence, s)]
          \in [at : {"none", "read"}, sender : ReplySender, fp : Fingerprint]
    BY MarkType DEF ReplyInv
  <2> QED  BY <1>2, <2>1, ThreadKeeps DEF MailStored
<1>3. ASSUME NEW t \in ReplyThread, ReplyFails(t) \/ AlreadyAnswered(t)
      PROVE  ReplyInv'
  <2>1. Silent \in [at : {"none", "read"}, sender : ReplySender, fp : Fingerprint]
    BY SilentType
  <2> QED  BY <1>3, <2>1, ThreadKeeps DEF ReplyFails, AlreadyAnswered, Ends
<1>4. ASSUME NEW t \in ReplyThread, NoteSender(t) PROVE ReplyInv'
  BY <1>4, NoteKeeps
<1>5. ASSUME NEW t \in ReplyThread, SendReply(t) PROVE ReplyInv'
  BY <1>5, SendKeeps
<1>6. CASE UNCHANGED replyVars
  <2>1. UNCHANGED <<sideOf, public, absence, noted, thread, answers, turns, crossed>>
    BY <1>6 DEF replyVars
  <2>2. ReplyTypeOK'
    BY <2>1 DEF ReplyInv, ReplyTypeOK
  <2> QED  BY <2>1, <2>2, QuietKeeps
<1> QED  BY <1>1, <1>2, <1>3, <1>4, <1>5, <1>6 DEF ReplyNext

(* Fingerprints that are noted or on a thread's mind, and the one a mail   *)
(* would get now, of an absence with two texts the one of the inside.      *)
Seen == {noted.fp} \cup {thread[t].fp : t \in {u \in ReplyThread : thread[u].at # "none"}}
Now == [no |-> absence.no, text |-> IF absence.apart THEN "inside" ELSE "both"]

(* An absence has one text or two as long as anybody knows of it, so only  *)
(* one of another absence takes the place of its only fingerprint.         *)
AlikeIn(g, h) == g.no = h.no => (g.text = "both" <=> h.text = "both")

Kinds ==
  /\ \A g \in Seen : g.no <= absence.no /\ AlikeIn(g, Now)
  /\ \A g, h \in Seen : AlikeIn(g, h)

Causes == \A f \in Fingerprint : turns[f] > 0 => f.text # "both" \/ f \in crossed

(* What is seen afterwards was seen before, or is the present absence.     *)
LEMMA SeenKeeps ==
  ASSUME Kinds, UNCHANGED absence, absence.no \in Nat,
         \A g \in Seen' : g \in Seen \/ (g.no = Now.no /\ AlikeIn(g, Now) /\ Now.no = absence.no)
  PROVE  Kinds'
<1>1. Now' = Now /\ absence' = absence
  BY DEF Now
<1>2. ASSUME NEW g \in Seen'
      PROVE  g.no <= absence'.no /\ AlikeIn(g, Now')
  <2>1. Now.no = absence.no
    BY DEF Now
  <2>2. CASE g \in Seen
    BY <1>1, <2>2 DEF Kinds
  <2>3. CASE g \notin Seen
    BY <1>1, <2>3 DEF AlikeIn
  <2> QED  BY <2>2, <2>3
<1>3. ASSUME NEW g \in Seen', NEW h \in Seen'
      PROVE  AlikeIn(g, h)
  BY DEF Kinds, AlikeIn
<1>4. (\A g \in Seen : g.no <= absence.no /\ AlikeIn(g, Now))'
  BY <1>2 DEF AlikeIn
<1>5. (\A g, h \in Seen : AlikeIn(g, h))'
  BY <1>3 DEF AlikeIn
<1> QED  BY <1>4, <1>5 DEF Kinds

LEMMA KindsStep ==
  ASSUME ReplyInv, Kinds, Causes, [ReplyNext]_replyVars
  PROVE  Kinds' /\ Causes'
<1>0. /\ noted.fp \in Fingerprint /\ absence.no \in Nat /\ absence.apart \in BOOLEAN
      /\ \A t \in ReplyThread : thread[t].fp \in Fingerprint
  BY DEF ReplyInv, ReplyTypeOK
<1>1. CASE ChangeAbsence
  <2>1. Seen' = Seen /\ Causes'
    BY <1>1 DEF ChangeAbsence, Seen, Causes
  <2>2. absence'.no = absence.no + 1
    BY <1>1 DEF ChangeAbsence
  <2>3. \A g \in Seen : g.no \in Nat
    BY <1>0 DEF Seen, Fingerprint
  <2>4. Now'.no = absence.no + 1
    BY <2>2 DEF Now
  <2>5. \A g \in Seen : g.no <= absence'.no /\ AlikeIn(g, Now')
    BY <1>0, <2>2, <2>3, <2>4 DEF Kinds, AlikeIn
  <2>6. (\A g \in Seen : g.no <= absence.no /\ AlikeIn(g, Now))'
    BY <2>1, <2>5 DEF AlikeIn
  <2>7. (\A g, h \in Seen : AlikeIn(g, h))'
    BY <2>1 DEF Kinds, AlikeIn
  <2> QED  BY <2>1, <2>6, <2>7 DEF Kinds
<1>2. ASSUME NEW t \in ReplyThread, NEW s \in ReplySender, MailStored(t, s)
      PROVE  Kinds' /\ Causes'
  <2>1. /\ thread' = [thread EXCEPT ![t] = [at |-> "read", sender |-> s, fp |-> Mark(absence, s)]]
        /\ UNCHANGED <<absence, noted, turns, crossed>>
    BY <1>2 DEF MailStored
  <2>2. Seen' \subseteq Seen \cup {Mark(absence, s)}
    BY <2>1 DEF Seen, ReplyInv, ReplyTypeOK
  <2>3. sideOf[s] # "both"
    BY DEF ReplyInv, ReplyTypeOK, Side
  <2>4. /\ Mark(absence, s).no = Now.no /\ Now.no = absence.no
        /\ AlikeIn(Mark(absence, s), Now)
    BY <1>0, <2>3 DEF Mark, Now, AlikeIn
  <2>5. Kinds'
    BY <1>0, <2>1, <2>2, <2>4, SeenKeeps
  <2> QED  BY <2>1, <2>5 DEF Causes
<1>3. ASSUME NEW t \in ReplyThread, ReplyFails(t) \/ AlreadyAnswered(t) \/ SendReply(t)
      PROVE  Kinds' /\ Causes'
  <2>1. /\ thread' = [thread EXCEPT ![t] = Silent]
        /\ UNCHANGED <<absence, noted, turns, crossed>>
    BY <1>3 DEF ReplyFails, AlreadyAnswered, SendReply, Ends
  <2>2. Seen' \subseteq Seen
    BY <2>1, SilentType DEF Seen, ReplyInv, ReplyTypeOK
  <2>3. Kinds'
    BY <1>0, <2>1, <2>2, SeenKeeps
  <2> QED  BY <2>1, <2>3 DEF Causes
<1>4. ASSUME NEW t \in ReplyThread, NoteSender(t)
      PROVE  Kinds' /\ Causes'
  <2> DEFINE f0 == thread[t].fp
  <2>1. /\ noted'.fp = f0 /\ thread[t].at = "read"
        /\ thread' = [thread EXCEPT ![t].at = "send"]
        /\ UNCHANGED absence
        /\ turns' = IF noted.fp = f0 THEN turns ELSE [turns EXCEPT ![noted.fp] = @ + 1]
        /\ crossed' = crossed \cup {g \in {noted.fp} : g.no # f0.no}
    <3>1. NotedFor(f0).fp = f0
      BY DEF NotedFor
    <3>2. noted'.fp = f0
      BY <3>1, <1>4 DEF NoteSender, NotedFor, ReplyInv, ReplyTypeOK
    <3>3. /\ turns' = IF noted.fp = f0 THEN turns ELSE [turns EXCEPT ![noted.fp] = @ + 1]
          /\ crossed' = crossed \cup {g \in {noted.fp} : g.no # f0.no}
      BY <1>4 DEF NoteSender, NewTurn
    <3> QED  BY <3>2, <3>3, <1>4 DEF NoteSender
  <2>2. f0 \in Seen /\ noted.fp \in Seen
    BY <2>1 DEF Seen
  <2>3. \A u \in ReplyThread :
          thread'[u].at # "none" => thread[u].at # "none" /\ thread'[u].fp = thread[u].fp
    BY <2>1 DEF ReplyInv, ReplyTypeOK
  <2>4. Seen' \subseteq Seen
    BY <2>1, <2>2, <2>3 DEF Seen
  <2>5. Kinds'
    BY <1>0, <2>1, <2>4, SeenKeeps
  <2>6. ASSUME NEW f \in Fingerprint, turns'[f] > 0
        PROVE  f.text # "both" \/ f \in crossed'
    <3>1. CASE f # noted.fp \/ noted.fp = f0
      <4>1. turns'[f] = turns[f]
        BY <2>1, <3>1 DEF ReplyInv, ReplyTypeOK
      <4> QED  BY <2>1, <2>6, <4>1 DEF Causes
    <3>2. CASE f = noted.fp /\ noted.fp # f0
      <4>1. CASE f.no # f0.no
        BY <2>1, <3>2, <4>1
      <4>2. CASE f.no = f0.no
        <5>1. f.text # f0.text
          BY <1>0, <3>2, <4>2 DEF Fingerprint
        <5>2. AlikeIn(f, f0)
          BY <2>2, <3>2 DEF Kinds
        <5> QED  BY <4>2, <5>1, <5>2 DEF AlikeIn
      <4> QED  BY <4>1, <4>2
    <3> QED  BY <3>1, <3>2
  <2> QED  BY <2>5, <2>6 DEF Causes
<1>5. CASE UNCHANGED replyVars
  <2>1. UNCHANGED <<absence, noted, thread, turns, crossed>>
    BY <1>5 DEF replyVars
  <2>2. Seen' = Seen
    BY <2>1 DEF Seen
  <2> QED  BY <1>0, <2>1, <2>2, SeenKeeps DEF Causes
<1> QED  BY <1>1, <1>2, <1>3, <1>4, <1>5 DEF ReplyNext

LEMMA ReplyStarts ==
  ASSUME ReplyInit
  PROVE  ReplyInv /\ Kinds /\ Causes
<1>1. Nothing \in Fingerprint
  BY DEF Nothing, Fingerprint
<1>2. ReplyTypeOK
  BY <1>1, SilentType DEF ReplyInit, ReplyTypeOK
<1>3. ASSUME NEW f \in Fingerprint, NEW s \in ReplySender
      PROVE  answers[f][s] + Cardinality(Sending(f, s)) <= Turned(f, s)
  <2>1. Sending(f, s) = {}
    BY SilentType DEF ReplyInit, Sending
  <2>2. Cardinality(Sending(f, s)) = 0
    BY <2>1, FS_EmptySet
  <2>3. answers[f][s] = 0 /\ turns[f] = 0 /\ noted.to = {}
    BY DEF ReplyInit
  <2> QED  BY <2>2, <2>3 DEF Turned
<1>4. Seen = {Nothing} /\ Now = Nothing
  BY SilentType DEF ReplyInit, Seen, Now, Nothing
<1>5. Kinds
  BY <1>4 DEF Kinds, AlikeIn, ReplyInit, Nothing
<1>6. Causes
  BY DEF Causes, ReplyInit
<1> QED  BY <1>2, <1>3, <1>5, <1>6 DEF ReplyInv, Bounded

-----------------------------------------------------------------------------
(* Every answer after the first for one fingerprint costs that another one *)
(* took its place in the file, and the only text of an absence gives way   *)
(* to one of another absence alone: there a sender is answered once.       *)
ReplyAll == ReplyInv /\ Kinds /\ Causes

THEOREM AnsweredOnceATurn == ReplySpec => []AnswersAreBounded
<1>1. ReplyInit => ReplyAll
  BY ReplyStarts DEF ReplyAll
<1>2. ReplyAll /\ [ReplyNext]_replyVars => ReplyAll'
  BY ReplyStep, KindsStep DEF ReplyAll
<1>3. ASSUME ReplyAll PROVE AnswersAreBounded
  <2>1. ASSUME NEW f \in Fingerprint, NEW s \in ReplySender
        PROVE  answers[f][s] <= turns[f] + 1
    <3>1. answers[f][s] + Cardinality(Sending(f, s)) <= Turned(f, s)
      BY <1>3 DEF ReplyAll, ReplyInv, Bounded
    <3>2. answers[f][s] \in Nat /\ turns[f] \in Nat /\ Cardinality(Sending(f, s)) \in Nat
      BY <1>3, SendingFinite DEF ReplyAll, ReplyInv, ReplyTypeOK
    <3>3. Turned(f, s) = turns[f] \/ Turned(f, s) = turns[f] + 1
      BY <3>2 DEF Turned
    <3> QED  BY <3>1, <3>2, <3>3
  <2> QED  BY <1>3, <2>1 DEF AnswersAreBounded, ReplyAll, Causes
<1> QED  BY <1>1, <1>2, <1>3, PTL DEF ReplySpec

HIDE ReplyAssumption

-----------------------------------------------------------------------------
(* SettingsStore                                                           *)

USE SettingsAssumption

SaveAt == {"none", "tmp", "moved"}
RestoreAt == {"none", "others", "merged", "written"}

StoreTypes ==
  /\ mem \in Conf \cup {None} /\ file \in Conf \cup {None, Torn}
  /\ bak \in Conf \cup {None, Torn} /\ tmp \in Conf \cup {None}
  /\ acked \in Conf /\ save \in SaveAt

RestoreTypes ==
  restore \in [RestoreNo -> RestoreAt] /\ merged \in [RestoreNo -> Conf \cup {None}]

StoreNumbers ==
  /\ changes \in 0..MaxChange /\ restores \in 0..MaxRestore /\ storeCrashes \in 0..MaxStoreCrash

StoreSets ==
  /\ want \in [RestoreNo -> BOOLEAN] /\ unflushed \in BOOLEAN
  /\ whole \subseteq RestoreNo /\ raced \subseteq RestoreNo
  /\ undone \subseteq raced
  /\ lost \subseteq {"power", "between renames"}

(* A save has the settings of the memory in its hand.                      *)
SaveInHand == save # "none" => mem \in Conf /\ tmp = mem

(* What a restore has in its hand are the settings of its backup.          *)
RestoreInHand ==
  \A r \in RestoreNo :
    /\ restore[r] # "none" => mem \in Conf
    /\ restore[r] = "merged" => merged[r] \in Conf /\ merged[r].set = Restored(r) /\ r \in whole

(* Wherever the settings of a backup are, its other files are written.     *)
OnlyWhole ==
  \A c \in {mem, file, bak, tmp}, r \in RestoreNo : c.set = Restored(r) => r \in whole

(* Between the renames aside, the next start reads what counts.            *)
NextReads ==
  save # "moved" /\ file # Torn => Loaded(file, bak).set = acked.set

(* What a restore has written stays, until it is read or saved over.       *)
WrittenStays ==
  \A r \in RestoreNo :
    restore[r] = "written" /\ want[r] /\ save # "moved" /\ r \notin raced
      => file \in Conf /\ file.set = Restored(r)

SettingsInv ==
  /\ StoreTypes /\ StoreNumbers /\ StoreSets /\ SaveInHand /\ RestoreInHand
  /\ OnlyWhole /\ NextReads /\ WrittenStays /\ RestoreTypes

(* The two values of a file that are no settings.                          *)
LEMMA NoConf ==
  /\ None \notin Conf /\ Torn \notin Conf /\ None # Torn
  /\ None.set = 0 /\ Torn.set = 0 /\ Defaults \in Conf
<1>1. "none" \in DOMAIN None /\ "none" \in DOMAIN Torn
  BY DEF None, Torn
<1>2. \A c \in Conf : "none" \notin DOMAIN c
  BY DEF Conf
<1>3. None.none # Torn.none
  BY DEF None, Torn
<1> QED  BY <1>1, <1>2, <1>3 DEF None, Torn, Defaults, Conf

LEMMA LoadedConf ==
  ASSUME StoreTypes
  PROVE  /\ Loaded(file, bak) \in Conf
         /\ Loaded(file, bak).set \in {0, file.set, bak.set}
BY NoConf DEF StoreTypes, Loaded, Defaults, Conf

LEMMA LoadedConfNext ==
  ASSUME file' \in Conf \cup {None, Torn}, bak' \in Conf \cup {None, Torn}
  PROVE  Loaded(file', bak') \in Conf
BY NoConf DEF Loaded, Defaults, Conf

LEMMA Migrated ==
  ASSUME NEW c \in Conf
  PROVE  /\ [c EXCEPT !.schema = TRUE] \in Conf
         /\ [c EXCEPT !.schema = TRUE].set = c.set
BY DEF Conf

LEMMA NoneRestored ==
  ASSUME NEW n \in 0..MaxChange, NEW r \in RestoreNo
  PROVE  n # Restored(r) /\ Restored(r) \in 0..(MaxChange + MaxRestore)
BY DEF Restored, RestoreNo

(* A change is a setting of the administrator or an address found.         *)
LEMMA UpdateDoes ==
  ASSUME StoreTypes, StoreNumbers, OnlyWhole, Update
  PROVE  /\ mem' \in Conf /\ changes' \in 0..MaxChange
         /\ \A r \in RestoreNo : mem'.set = Restored(r) => r \in whole
<1>1. CASE changes < MaxChange /\ changes' = changes + 1
           /\ mem' = [mem EXCEPT !.set = changes + 1]
  <2>1. changes + 1 \in 0..(MaxChange + MaxRestore) /\ changes + 1 \in 0..MaxChange
    BY <1>1 DEF StoreNumbers
  <2>2. mem' \in Conf /\ mem'.set = changes + 1
    BY <1>1, <2>1 DEF Update, Up, Conf
  <2> QED  BY <1>1, <2>1, <2>2, NoneRestored
<1>2. CASE mem' = [mem EXCEPT !.bookings = TRUE] /\ UNCHANGED changes
  <2>1. mem' \in Conf /\ mem'.set = mem.set
    BY <1>2 DEF Update, Up, Conf
  <2> QED  BY <1>2, <2>1 DEF StoreNumbers, OnlyWhole
<1> QED  BY <1>1, <1>2 DEF Update

(* Reading the settings takes those of a file, brought up to date.         *)
LEMMA LoadDoes ==
  ASSUME StoreTypes, OnlyWhole, Load, save = "none"
  PROVE  /\ mem' \in Conf /\ mem'.set = Loaded(file, bak).set
         /\ tmp' = tmp \/ tmp' = mem'
         /\ save' \in {"none", "tmp"} /\ (save' = "tmp" => tmp' = mem')
         /\ \A r \in RestoreNo : mem'.set = Restored(r) => r \in whole
<1> DEFINE c == Loaded(file, bak)
<1>1. c \in Conf /\ c.set \in {0, file.set, bak.set}
  BY LoadedConf
<1>2. mem' = [c EXCEPT !.schema = TRUE]
  BY DEF Load
<1>3. mem' \in Conf /\ mem'.set = c.set
  BY <1>1, <1>2, Migrated
<1>4. \A r \in RestoreNo : mem'.set = Restored(r) => r \in whole
  BY <1>1, <1>3, NoneRestored DEF OnlyWhole
<1>5. /\ tmp' = tmp \/ tmp' = mem'
      /\ save' \in {"none", "tmp"} /\ (save' = "tmp" => tmp' = mem')
  BY DEF Load
<1> QED  BY <1>3, <1>4, <1>5

LEMMA BackupDoes ==
  ASSUME RestoreTypes, NEW r \in RestoreNo, FromBackup(r)
  PROVE  /\ merged' \in [RestoreNo -> Conf \cup {None}]
         /\ merged'[r] \in Conf /\ merged'[r].set = Restored(r)
         /\ \A q \in RestoreNo \ {r} : merged'[q] = merged[q]
<1>1. PICK b, s \in BOOLEAN :
        merged' = [merged EXCEPT ![r] = [set |-> Restored(r), schema |-> s,
                                         bookings |-> b \/ (file \in Conf /\ file.bookings)]]
  BY DEF FromBackup
<1>2. Restored(r) \in 0..(MaxChange + MaxRestore)
  BY DEF Restored, RestoreNo
<1>3. (b \/ (file \in Conf /\ file.bookings)) \in BOOLEAN
  BY DEF Conf
<1> DEFINE c == [set |-> Restored(r), schema |-> s, bookings |-> b \/ (file \in Conf /\ file.bookings)]
<1>4. c \in Conf /\ c.set = Restored(r)
  BY <1>2, <1>3 DEF Conf
<1>5. merged' = [merged EXCEPT ![r] = c]
  BY <1>1
<1> HIDE DEF c
<1> QED  BY <1>4, <1>5 DEF RestoreTypes

(* A crash loses something only after a power cut or between the renames.  *)
LEMMA CrashDoes ==
  ASSUME SettingsInv, StoreCrash
  PROVE  /\ file' = file \/ file' = Torn
         /\ bak' = bak /\ mem' = None /\ tmp' = None /\ save' = "none" /\ unflushed' = FALSE
         /\ restore' = [r \in RestoreNo |-> "none"] /\ merged' = [r \in RestoreNo |-> None]
         /\ acked' = Loaded(file', bak') /\ acked' \in Conf
         /\ lost' \subseteq {"power", "between renames"}
         /\ storeCrashes' \in 0..MaxStoreCrash
<1> USE DEF SettingsInv
<1>1. file' = file \/ file' = Torn
  BY DEF StoreCrash
<1>2. /\ bak' = bak /\ mem' = None /\ tmp' = None /\ save' = "none"
      /\ restore' = [r \in RestoreNo |-> "none"] /\ merged' = [r \in RestoreNo |-> None]
      /\ unflushed' = FALSE /\ acked' = Loaded(file', bak')
  BY DEF StoreCrash
<1>3. acked' \in Conf
  BY <1>1, <1>2, LoadedConfNext DEF StoreTypes
<1>4. lost' \subseteq {"power", "between renames"}
  <2>1. CASE file' # Torn /\ save # "moved"
    <3>1. file' = file /\ file # Torn
      BY <1>1, <2>1
    <3>2. Loaded(file', bak').set = acked.set
      BY <3>1, <1>2, <2>1 DEF NextReads
    <3>3. lost' = lost
      BY <3>2 DEF StoreCrash
    <3> QED  BY <3>3 DEF StoreSets
  <2>2. CASE file' = Torn \/ save = "moved"
    <3>1. lost' = lost \/ lost' = lost \cup {"power"} \/ lost' = lost \cup {"between renames"}
      BY <2>2 DEF StoreCrash
    <3> QED  BY <3>1 DEF StoreSets
  <2> QED  BY <2>1, <2>2
<1>5. storeCrashes' \in 0..MaxStoreCrash
  <2>1. storeCrashes < MaxStoreCrash /\ storeCrashes' = storeCrashes + 1
    BY DEF StoreCrash
  <2> QED  BY <2>1 DEF StoreNumbers
<1> QED  BY <1>1, <1>2, <1>3, <1>4, <1>5

LEMMA SettingsStarts == SettingsInit => SettingsInv
<1> SUFFICES ASSUME SettingsInit PROVE SettingsInv
  OBVIOUS
<1>0. mem = [Defaults EXCEPT !.schema = TRUE]
  BY DEF SettingsInit
<1>1. mem \in Conf /\ mem.set = 0 /\ file = mem /\ acked = mem /\ bak = None /\ tmp = None
      /\ merged = [r \in RestoreNo |-> None] /\ save = "none"
      /\ restore = [r \in RestoreNo |-> "none"]
  <2>1. mem \in Conf /\ mem.set = 0
    <3>1. Defaults \in Conf /\ Defaults.set = 0
      BY NoConf DEF Defaults
    <3> QED  BY <1>0, <3>1, Migrated
  <2> QED  BY <2>1, Zenon DEF SettingsInit
<1>2. StoreTypes
  BY <1>1 DEF StoreTypes, SaveAt, RestoreAt
<1>3. StoreNumbers
  <2>1. changes = 0 /\ restores = 0 /\ storeCrashes = 0
    BY DEF SettingsInit
  <2> QED  BY <2>1 DEF StoreNumbers
<1>4. StoreSets
  BY DEF SettingsInit, StoreSets
<1>5. SaveInHand /\ RestoreInHand /\ WrittenStays
  BY <1>1 DEF SaveInHand, RestoreInHand, WrittenStays
<1>8. RestoreTypes
  BY <1>1 DEF RestoreTypes, RestoreAt
<1>6. OnlyWhole
  BY <1>1, NoConf, NoneRestored DEF OnlyWhole
<1>7. NextReads
  BY <1>1 DEF NextReads, Loaded
<1> QED  BY <1>2, <1>3, <1>4, <1>5, <1>6, <1>7, <1>8 DEF SettingsInv

LEMMA SettingsStep == SettingsInv /\ [SettingsNext]_settingsVars => SettingsInv'
<1> SUFFICES ASSUME SettingsInv, [SettingsNext]_settingsVars PROVE SettingsInv'
  OBVIOUS
<1>a. StoreTypes /\ StoreNumbers /\ StoreSets /\ SaveInHand /\ RestoreInHand /\ OnlyWhole /\ NextReads /\ WrittenStays /\ RestoreTypes
  BY DEF SettingsInv
<1>1. CASE Update
  <2>1. StoreTypes'
    BY <1>1, <1>a, UpdateDoes DEF Update, restoring, storeGhosts, StoreTypes, SaveAt, RestoreAt
  <2>2. StoreNumbers'
    BY <1>1, <1>a, UpdateDoes DEF Update, restoring, storeGhosts, StoreNumbers
  <2>3. StoreSets'
    BY <1>1, <1>a, UpdateDoes DEF Update, restoring, storeGhosts, StoreSets
  <2>4. SaveInHand'
    BY <1>1, <1>a, UpdateDoes DEF Update, restoring, storeGhosts, SaveInHand
  <2>5. RestoreInHand'
    BY <1>1, <1>a, UpdateDoes DEF Update, restoring, storeGhosts, RestoreInHand
  <2>6. OnlyWhole'
    BY <1>1, <1>a, UpdateDoes DEF Update, restoring, storeGhosts, OnlyWhole
  <2>7. NextReads'
    BY <1>1, <1>a, UpdateDoes DEF Update, restoring, storeGhosts, NextReads
  <2>8. WrittenStays'
    BY <1>1, <1>a, UpdateDoes DEF Update, restoring, storeGhosts, WrittenStays
  <2>9. RestoreTypes'
    BY <1>1, <1>a, UpdateDoes DEF Update, restoring, storeGhosts, RestoreTypes
  <2> QED  BY <2>1, <2>2, <2>3, <2>4, <2>5, <2>6, <2>7, <2>8, <2>9 DEF SettingsInv
<1>2. CASE MoveToBak
  <2>0. (file' = None /\ bak' = file) \/ (file' = file /\ bak' = bak)
    BY <1>2 DEF MoveToBak
  <2>1. StoreTypes'
    BY <1>2, <1>a, NoConf DEF MoveToBak, restoring, storeGhosts, StoreTypes, SaveAt, RestoreAt
  <2>2. StoreNumbers'
    BY <1>2, <1>a, NoConf DEF MoveToBak, restoring, storeGhosts, StoreNumbers
  <2>3. StoreSets'
    BY <1>2, <1>a, NoConf DEF MoveToBak, restoring, storeGhosts, StoreSets
  <2>4. SaveInHand'
    BY <1>2, <1>a, NoConf DEF MoveToBak, restoring, storeGhosts, SaveInHand
  <2>5. RestoreInHand'
    BY <1>2, <1>a, NoConf DEF MoveToBak, restoring, storeGhosts, RestoreInHand
  <2>6. OnlyWhole'
    <3>1. mem' = mem /\ tmp' = tmp /\ whole' = whole
      BY <1>2 DEF MoveToBak, storeGhosts
    <3> QED  BY <2>0, <3>1, <1>a, NoConf, NoneRestored DEF OnlyWhole
  <2>7. NextReads'
    BY <1>2, <1>a, NoConf DEF MoveToBak, restoring, storeGhosts, NextReads
  <2>8. WrittenStays'
    BY <1>2, <1>a, NoConf DEF MoveToBak, restoring, storeGhosts, WrittenStays
  <2>9. RestoreTypes'
    BY <1>2, <1>a, NoConf DEF MoveToBak, restoring, storeGhosts, RestoreTypes
  <2> QED  BY <2>1, <2>2, <2>3, <2>4, <2>5, <2>6, <2>7, <2>8, <2>9 DEF SettingsInv
<1>3. CASE MoveToFile
  <2>0. /\ mem \in Conf /\ tmp = mem /\ file' = mem /\ acked' = mem /\ tmp' = None /\ save' = "none"
        /\ mem' = mem /\ bak' = bak /\ merged' = merged /\ restore' = restore
        /\ whole' = whole /\ want' = want
    BY <1>3, <1>a, Zenon DEF MoveToFile, restoring, SaveInHand
  <2>1. StoreTypes'
    BY <2>0, <1>a DEF StoreTypes, SaveAt, RestoreAt
  <2>2. StoreNumbers'
    BY <1>3, <1>a DEF MoveToFile, restoring, storeGhosts, StoreNumbers
  <2>3. StoreSets'
    <3>1. raced' = raced \cup {r \in RestoreNo : restore[r] = "written"}
      BY <1>3 DEF MoveToFile
    <3>3. undone' = undone /\ lost' = lost /\ unflushed' = TRUE
      BY <1>3, Zenon DEF MoveToFile
    <3> QED  BY <2>0, <3>1, <3>3, <1>a DEF StoreSets
  <2>4. SaveInHand'
    BY <1>3, <1>a DEF MoveToFile, restoring, storeGhosts, SaveInHand
  <2>5. RestoreInHand'
    BY <1>3, <1>a DEF MoveToFile, restoring, storeGhosts, RestoreInHand
  <2>6. OnlyWhole'
    BY <2>0, <1>a, NoConf, NoneRestored DEF OnlyWhole
  <2>7. NextReads'
    BY <2>0, NoConf DEF NextReads, Loaded
  <2>8. WrittenStays'
    BY <1>3, <1>a DEF MoveToFile, restoring, storeGhosts, WrittenStays
  <2>9. RestoreTypes'
    BY <1>3, <1>a DEF MoveToFile, restoring, storeGhosts, RestoreTypes
  <2> QED  BY <2>1, <2>2, <2>3, <2>4, <2>5, <2>6, <2>7, <2>8, <2>9 DEF SettingsInv
<1>4. CASE Flush
  <2>1. StoreTypes'
    BY <1>4, <1>a DEF Flush, restoring, storeGhosts, StoreTypes, SaveAt, RestoreAt
  <2>2. StoreNumbers'
    BY <1>4, <1>a DEF Flush, restoring, storeGhosts, StoreNumbers
  <2>3. StoreSets'
    BY <1>4, <1>a DEF Flush, restoring, storeGhosts, StoreSets
  <2>4. SaveInHand'
    BY <1>4, <1>a DEF Flush, restoring, storeGhosts, SaveInHand
  <2>5. RestoreInHand'
    BY <1>4, <1>a DEF Flush, restoring, storeGhosts, RestoreInHand
  <2>6. OnlyWhole'
    BY <1>4, <1>a DEF Flush, restoring, storeGhosts, OnlyWhole
  <2>7. NextReads'
    BY <1>4, <1>a DEF Flush, restoring, storeGhosts, NextReads
  <2>8. WrittenStays'
    BY <1>4, <1>a DEF Flush, restoring, storeGhosts, WrittenStays
  <2>9. RestoreTypes'
    BY <1>4, <1>a DEF Flush, restoring, storeGhosts, RestoreTypes
  <2> QED  BY <2>1, <2>2, <2>3, <2>4, <2>5, <2>6, <2>7, <2>8, <2>9 DEF SettingsInv
<1>5. CASE StartUp
  <2>0. /\ mem \notin Conf /\ save = "none" /\ \A r \in RestoreNo : restore[r] = "none"
        /\ UNCHANGED <<file, bak, unflushed, changes, restores, restore, merged, want, storeCrashes>>
        /\ UNCHANGED <<acked, lost, whole, undone, raced>>
    BY <1>5, <1>a, Zenon DEF StartUp, Up, SaveInHand, RestoreInHand, restoring, storeGhosts
  <2>l. Load
    BY <1>5 DEF StartUp
  <2>d. /\ mem' \in Conf /\ mem'.set = Loaded(file, bak).set
        /\ tmp' = tmp \/ tmp' = mem'
        /\ save' \in {"none", "tmp"} /\ (save' = "tmp" => tmp' = mem')
        /\ \A r \in RestoreNo : mem'.set = Restored(r) => r \in whole
    BY <2>0, <2>l, <1>a, LoadDoes
  <2>1. StoreTypes'
    BY <2>0, <2>d, <1>a DEF StoreTypes, SaveAt, RestoreAt
  <2>2. StoreNumbers'
    BY <2>0, <2>d, <1>a DEF StoreNumbers
  <2>3. StoreSets'
    BY <2>0, <2>d, <1>a DEF StoreSets
  <2>4. SaveInHand'
    BY <2>0, <2>d, <1>a DEF SaveInHand
  <2>5. RestoreInHand'
    BY <2>0, <2>d, <1>a DEF RestoreInHand
  <2>6. OnlyWhole'
    BY <2>0, <2>d, <1>a DEF OnlyWhole
  <2>7. NextReads'
    BY <2>0, <2>d, <1>a DEF NextReads, Loaded
  <2>8. WrittenStays'
    BY <2>0, <2>d, <1>a DEF WrittenStays
  <2>9. RestoreTypes'
    BY <2>0, <2>d, <1>a DEF RestoreTypes
  <2> QED  BY <2>1, <2>2, <2>3, <2>4, <2>5, <2>6, <2>7, <2>8, <2>9 DEF SettingsInv
<1>6. CASE StoreCrash
  <2>1. StoreTypes'
    BY <1>6, <1>a, CrashDoes, NoConf, NoneRestored DEF StoreCrash, restoring, storeGhosts, StoreTypes, SaveAt, RestoreAt
  <2>2. StoreNumbers'
    BY <1>6, <1>a, CrashDoes, NoConf, NoneRestored DEF StoreCrash, restoring, storeGhosts, StoreNumbers
  <2>3. StoreSets'
    BY <1>6, <1>a, CrashDoes, NoConf, NoneRestored DEF StoreCrash, restoring, storeGhosts, StoreSets
  <2>4. SaveInHand'
    BY <1>6, <1>a, CrashDoes, NoConf, NoneRestored DEF StoreCrash, restoring, storeGhosts, SaveInHand
  <2>5. RestoreInHand'
    BY <1>6, <1>a, CrashDoes, NoConf, NoneRestored DEF StoreCrash, restoring, storeGhosts, RestoreInHand
  <2>6. OnlyWhole'
    <3>1. whole' = whole
      BY <1>6 DEF StoreCrash
    <3>2. file' = file \/ file' = Torn
      BY <1>6, <1>a, CrashDoes DEF SettingsInv
    <3>3. bak' = bak /\ mem' = None /\ tmp' = None
      BY <1>6, <1>a, CrashDoes DEF SettingsInv
    <3>4. \A n \in RestoreNo : 0 # Restored(n)
      BY NoneRestored
    <3> QED  BY <3>1, <3>2, <3>3, <3>4, <1>a, NoConf DEF OnlyWhole
  <2>7. NextReads'
    BY <1>6, <1>a, CrashDoes, NoConf, NoneRestored DEF StoreCrash, restoring, storeGhosts, NextReads
  <2>8. WrittenStays'
    BY <1>6, <1>a, CrashDoes, NoConf, NoneRestored DEF StoreCrash, restoring, storeGhosts, WrittenStays
  <2>9. RestoreTypes'
    BY <1>6, <1>a, CrashDoes, NoConf, NoneRestored DEF StoreCrash, restoring, storeGhosts, RestoreTypes, RestoreAt
  <2> QED  BY <2>1, <2>2, <2>3, <2>4, <2>5, <2>6, <2>7, <2>8, <2>9 DEF SettingsInv
<1>7. CASE RestoreBegins
  <2>d. /\ restores + 1 \in RestoreNo /\ restores' = restores + 1
        /\ restore' = [restore EXCEPT ![restores + 1] = "others"] /\ mem \in Conf
        /\ want' \in [RestoreNo -> BOOLEAN]
        /\ \A r \in RestoreNo \ {restores + 1} : want'[r] = want[r]
        /\ UNCHANGED <<mem, file, save, merged, whole, raced>>
    <3>1. restores + 1 \in RestoreNo
      BY <1>7, <1>a DEF RestoreBegins, StoreNumbers, RestoreNo
    <3>2. PICK w \in BOOLEAN : want' = [want EXCEPT ![restores + 1] = w]
      BY <1>7 DEF RestoreBegins
    <3> QED  BY <3>1, <3>2, <1>7, <1>a DEF RestoreBegins, Up, StoreSets, storeGhosts
  <2>e. /\ restore'[restores + 1] = "others"
        /\ \A r \in RestoreNo \ {restores + 1} : restore'[r] = restore[r]
    BY <2>d, <1>a DEF RestoreTypes
  <2>1. StoreTypes'
    BY <1>7, <2>d, <1>a DEF RestoreBegins, restoring, storeGhosts, StoreTypes, SaveAt
  <2>2. StoreNumbers'
    BY <1>7, <2>d, <1>a DEF RestoreBegins, StoreNumbers, RestoreNo
  <2>3. StoreSets'
    BY <1>7, <2>d, <1>a DEF RestoreBegins, restoring, storeGhosts, StoreSets
  <2>4. SaveInHand'
    BY <1>7, <2>d, <1>a DEF RestoreBegins, restoring, storeGhosts, SaveInHand
  <2>6. OnlyWhole'
    BY <1>7, <2>d, <1>a DEF RestoreBegins, restoring, storeGhosts, OnlyWhole
  <2>7. NextReads'
    BY <1>7, <2>d, <1>a DEF RestoreBegins, restoring, storeGhosts, NextReads
  <2>5. RestoreInHand'
    BY <2>d, <2>e, <1>a DEF RestoreInHand
  <2>8. WrittenStays'
    BY <2>d, <2>e, <1>a DEF WrittenStays
  <2>9. RestoreTypes'
    BY <2>d, <2>e, <1>a DEF RestoreTypes, RestoreAt
  <2> QED  BY <2>1, <2>2, <2>3, <2>4, <2>5, <2>6, <2>7, <2>8, <2>9 DEF SettingsInv
<1>8. ASSUME NEW r \in RestoreNo, RestoreFails(r)
      PROVE  SettingsInv'
  <2>d. /\ restore' = [restore EXCEPT ![r] = "none"] /\ merged' = [merged EXCEPT ![r] = None]
        /\ UNCHANGED <<mem, file, save, want, whole, raced>>
    BY <1>8 DEF RestoreFails, Continues, storeGhosts
  <2>e. /\ restore'[r] = "none"
        /\ \A q \in RestoreNo \ {r} : restore'[q] = restore[q] /\ merged'[q] = merged[q]
    BY <2>d, <1>a DEF RestoreTypes
  <2>1. StoreTypes'
    BY <1>8, <1>a DEF RestoreFails, restoring, storeGhosts, StoreTypes, SaveAt
  <2>2. StoreNumbers'
    BY <1>8, <1>a DEF RestoreFails, restoring, storeGhosts, StoreNumbers
  <2>3. StoreSets'
    BY <1>8, <1>a DEF RestoreFails, restoring, storeGhosts, StoreSets
  <2>4. SaveInHand'
    BY <1>8, <1>a DEF RestoreFails, restoring, storeGhosts, SaveInHand
  <2>6. OnlyWhole'
    BY <1>8, <1>a DEF RestoreFails, restoring, storeGhosts, OnlyWhole
  <2>7. NextReads'
    BY <1>8, <1>a DEF RestoreFails, restoring, storeGhosts, NextReads
  <2>5. RestoreInHand'
    BY <2>d, <2>e, <1>a DEF RestoreInHand
  <2>8. WrittenStays'
    BY <2>d, <2>e, <1>a DEF WrittenStays
  <2>9. RestoreTypes'
    BY <2>d, <2>e, <1>a DEF RestoreTypes, RestoreAt
  <2> QED  BY <2>1, <2>2, <2>3, <2>4, <2>5, <2>6, <2>7, <2>8, <2>9 DEF SettingsInv
<1>9. ASSUME NEW r \in RestoreNo, MergeSettings(r)
      PROVE  SettingsInv'
  <2>0. /\ restore[r] = "others" /\ restore' = [restore EXCEPT ![r] = "merged"]
        /\ whole' = whole \cup {r}
        /\ UNCHANGED <<mem, file, bak, tmp, unflushed, save, changes, restores, want, storeCrashes>>
        /\ UNCHANGED <<acked, lost, undone, raced>>
    BY <1>9 DEF MergeSettings, Continues
  <2>b. FromBackup(r)
    BY <1>9 DEF MergeSettings
  <2>d. /\ merged' \in [RestoreNo -> Conf \cup {None}]
        /\ merged'[r] \in Conf /\ merged'[r].set = Restored(r)
        /\ \A q \in RestoreNo \ {r} : merged'[q] = merged[q]
    BY <2>b, <1>a, BackupDoes
  <2>e. restore'[r] = "merged" /\ \A q \in RestoreNo \ {r} : restore'[q] = restore[q]
    BY <2>0, <1>a DEF RestoreTypes
  <2>1. StoreTypes'
    BY <2>0, <1>a DEF MergeSettings, restoring, storeGhosts, StoreTypes, SaveAt
  <2>2. StoreNumbers'
    BY <2>0, <1>a DEF MergeSettings, restoring, storeGhosts, StoreNumbers
  <2>3. StoreSets'
    BY <2>0, <1>a DEF MergeSettings, restoring, storeGhosts, StoreSets
  <2>4. SaveInHand'
    BY <2>0, <1>a DEF MergeSettings, restoring, storeGhosts, SaveInHand
  <2>6. OnlyWhole'
    BY <2>0, <1>a DEF MergeSettings, restoring, storeGhosts, OnlyWhole
  <2>7. NextReads'
    BY <2>0, <1>a DEF MergeSettings, restoring, storeGhosts, NextReads
  <2>5. RestoreInHand'
    BY <2>0, <2>d, <2>e, <1>a DEF RestoreInHand
  <2>8. WrittenStays'
    BY <2>0, <2>d, <2>e, <1>a DEF WrittenStays
  <2>9. RestoreTypes'
    BY <2>0, <2>d, <2>e, <1>a DEF RestoreTypes, RestoreAt
  <2> QED  BY <2>1, <2>2, <2>3, <2>4, <2>5, <2>6, <2>7, <2>8, <2>9 DEF SettingsInv
<1>10. ASSUME NEW r \in RestoreNo, WriteRestored(r)
       PROVE  SettingsInv'
  <2>0. /\ restore[r] = "merged" /\ restore' = [restore EXCEPT ![r] = "written"]
        /\ file' = merged[r] /\ acked' = merged[r] /\ unflushed' = TRUE
        /\ raced' = raced \cup {q \in RestoreNo : restore[q] = "written"}
        /\ UNCHANGED <<mem, bak, tmp, save, changes, restores, merged, want, storeCrashes>>
        /\ UNCHANGED <<lost, whole, undone>>
    BY <1>10 DEF WriteRestored, Continues
  <2>d. merged[r] \in Conf /\ merged[r].set = Restored(r) /\ r \in whole /\ mem \in Conf
    BY <2>0, <1>a DEF RestoreInHand
  <2>e. restore'[r] = "written" /\ \A q \in RestoreNo \ {r} : restore'[q] = restore[q]
    BY <2>0, <1>a DEF RestoreTypes
  <2>1. StoreTypes'
    BY <2>0, <2>d, <1>a DEF WriteRestored, restoring, storeGhosts, StoreTypes, SaveAt
  <2>2. StoreNumbers'
    BY <2>0, <2>d, <1>a DEF WriteRestored, restoring, storeGhosts, StoreNumbers
  <2>3. StoreSets'
    BY <2>0, <2>d, <1>a DEF WriteRestored, restoring, storeGhosts, StoreSets
  <2>4. SaveInHand'
    BY <2>0, <2>d, <1>a DEF WriteRestored, restoring, storeGhosts, SaveInHand
  <2>6. OnlyWhole'
    <3>1. \A q \in RestoreNo : Restored(r) = Restored(q) => q = r
      BY DEF Restored, RestoreNo
    <3> QED  BY <2>0, <2>d, <3>1, <1>a DEF OnlyWhole
  <2>7. NextReads'
    BY <2>0, <2>d, <1>a DEF WriteRestored, restoring, storeGhosts, NextReads, Loaded
  <2>5. RestoreInHand'
    BY <2>0, <2>d, <2>e, <1>a DEF RestoreInHand
  <2>8. WrittenStays'
    BY <2>0, <2>d, <2>e, <1>a DEF WrittenStays
  <2>9. RestoreTypes'
    BY <2>0, <2>d, <2>e, <1>a DEF RestoreTypes, RestoreAt
  <2> QED  BY <2>1, <2>2, <2>3, <2>4, <2>5, <2>6, <2>7, <2>8, <2>9 DEF SettingsInv
<1>11. ASSUME NEW r \in RestoreNo, SkipSettings(r)
       PROVE  SettingsInv'
  <2>d. /\ restore[r] = "others" /\ ~want[r] /\ restore' = [restore EXCEPT ![r] = "written"]
        /\ UNCHANGED <<mem, file, save, merged, want, whole, raced>>
    BY <1>11 DEF SkipSettings, Continues, storeGhosts
  <2>e. /\ restore'[r] = "written"
        /\ \A q \in RestoreNo \ {r} : restore'[q] = restore[q]
    BY <2>d, <1>a DEF RestoreTypes
  <2>1. StoreTypes'
    BY <1>11, <1>a DEF SkipSettings, restoring, storeGhosts, StoreTypes, SaveAt
  <2>2. StoreNumbers'
    BY <1>11, <1>a DEF SkipSettings, restoring, storeGhosts, StoreNumbers
  <2>3. StoreSets'
    BY <1>11, <1>a DEF SkipSettings, restoring, storeGhosts, StoreSets
  <2>4. SaveInHand'
    BY <1>11, <1>a DEF SkipSettings, restoring, storeGhosts, SaveInHand
  <2>6. OnlyWhole'
    BY <1>11, <1>a DEF SkipSettings, restoring, storeGhosts, OnlyWhole
  <2>7. NextReads'
    BY <1>11, <1>a DEF SkipSettings, restoring, storeGhosts, NextReads
  <2>5. RestoreInHand'
    BY <2>d, <2>e, <1>a DEF RestoreInHand
  <2>8. WrittenStays'
    BY <2>d, <2>e, <1>a DEF WrittenStays
  <2>9. RestoreTypes'
    BY <2>d, <2>e, <1>a DEF RestoreTypes, RestoreAt
  <2> QED  BY <2>1, <2>2, <2>3, <2>4, <2>5, <2>6, <2>7, <2>8, <2>9 DEF SettingsInv
<1>12. ASSUME NEW r \in RestoreNo, ReadAnew(r)
       PROVE  SettingsInv'
  <2>0. /\ restore[r] = "written" /\ save = "none" /\ restore' = [restore EXCEPT ![r] = "none"]
        /\ merged' = [merged EXCEPT ![r] = None]
        /\ UNCHANGED <<file, bak, unflushed, changes, restores, want, storeCrashes, lost, whole, raced>>
        /\ acked' = mem'
    BY <1>12 DEF ReadAnew, Continues
  <2>l. Load
    BY <1>12 DEF ReadAnew
  <2>d. /\ mem' \in Conf /\ mem'.set = Loaded(file, bak).set
        /\ tmp' = tmp \/ tmp' = mem'
        /\ save' \in {"none", "tmp"} /\ (save' = "tmp" => tmp' = mem')
        /\ \A q \in RestoreNo : mem'.set = Restored(q) => q \in whole
    BY <2>0, <2>l, <1>a, LoadDoes
  <2>e. /\ restore'[r] = "none"
        /\ \A q \in RestoreNo \ {r} : restore'[q] = restore[q] /\ merged'[q] = merged[q]
    BY <2>0, <1>a DEF RestoreTypes
  <2>1. StoreTypes'
    BY <2>0, <2>d, <1>a DEF ReadAnew, restoring, storeGhosts, StoreTypes, SaveAt
  <2>2. StoreNumbers'
    BY <2>0, <2>d, <1>a DEF ReadAnew, restoring, storeGhosts, StoreNumbers
  <2>3. StoreSets'
    <3>1. CASE want[r] /\ r \notin raced
      <4>1. file \in Conf /\ file.set = Restored(r)
        BY <3>1, <2>0, <1>a DEF WrittenStays
      <4>2. mem'.set = Restored(r)
        BY <4>1, <2>d, NoConf DEF Loaded
      <4>3. undone' = undone
        BY <4>2, <1>12 DEF ReadAnew
      <4> QED  BY <4>3, <2>0, <1>a DEF StoreSets
    <3>2. CASE ~(want[r] /\ r \notin raced)
      <4>1. undone' = undone \/ (want[r] /\ undone' = undone \cup {r})
        BY <1>12 DEF ReadAnew
      <4> QED  BY <3>2, <4>1, <2>0, <1>a DEF StoreSets
    <3> QED  BY <3>1, <3>2
  <2>4. SaveInHand'
    BY <2>0, <2>d, <1>a DEF ReadAnew, restoring, storeGhosts, SaveInHand
  <2>6. OnlyWhole'
    BY <2>0, <2>d, <1>a DEF ReadAnew, restoring, storeGhosts, OnlyWhole
  <2>7. NextReads'
    BY <2>0, <2>d, <1>a DEF ReadAnew, restoring, storeGhosts, NextReads, Loaded
  <2>5. RestoreInHand'
    BY <2>0, <2>d, <2>e, <1>a DEF RestoreInHand
  <2>8. WrittenStays'
    BY <2>0, <2>d, <2>e, <1>a DEF WrittenStays
  <2>9. RestoreTypes'
    BY <2>0, <2>d, <2>e, <1>a DEF RestoreTypes, RestoreAt
  <2> QED  BY <2>1, <2>2, <2>3, <2>4, <2>5, <2>6, <2>7, <2>8, <2>9 DEF SettingsInv
<1>13. CASE UNCHANGED settingsVars
  <2>1. StoreTypes'
    BY <1>13, <1>a DEF settingsVars, StoreTypes, SaveAt, RestoreAt
  <2>2. StoreNumbers'
    BY <1>13, <1>a DEF settingsVars, StoreNumbers
  <2>3. StoreSets'
    BY <1>13, <1>a DEF settingsVars, StoreSets
  <2>4. SaveInHand'
    BY <1>13, <1>a DEF settingsVars, SaveInHand
  <2>5. RestoreInHand'
    BY <1>13, <1>a DEF settingsVars, RestoreInHand
  <2>6. OnlyWhole'
    BY <1>13, <1>a DEF settingsVars, OnlyWhole
  <2>7. NextReads'
    BY <1>13, <1>a DEF settingsVars, NextReads
  <2>8. WrittenStays'
    BY <1>13, <1>a DEF settingsVars, WrittenStays
  <2>9. RestoreTypes'
    BY <1>13, <1>a DEF settingsVars, RestoreTypes
  <2> QED  BY <2>1, <2>2, <2>3, <2>4, <2>5, <2>6, <2>7, <2>8, <2>9 DEF SettingsInv
<1> QED  BY <1>1, <1>2, <1>3, <1>4, <1>5, <1>6, <1>7, <1>8, <1>9, <1>10, <1>11, <1>12, <1>13 DEF SettingsNext

(* What an acknowledged change, or a restore, leaves is what the next start *)
(* reads.                                                                  *)
LEMMA SettingsCorrect == SettingsSpec => []SettingsInv
BY SettingsStarts, SettingsStep, PTL DEF SettingsSpec

LEMMA SettingsFromInv ==
  SettingsInv => SettingsTypeOK /\ SettingsKept /\ RestoreIsWhole
<1> SUFFICES ASSUME SettingsInv PROVE SettingsTypeOK /\ SettingsKept /\ RestoreIsWhole
  OBVIOUS
<1>1. SettingsTypeOK
  <2>1. whole \cup undone \cup raced \subseteq RestoreNo
    BY DEF SettingsInv, StoreSets
  <2>2. lost \subseteq {"power", "between renames", "unexplained"}
    BY DEF SettingsInv, StoreSets
  <2>3. unflushed \in BOOLEAN /\ want \in [RestoreNo -> BOOLEAN]
    BY DEF SettingsInv, StoreSets
  <2>4. StoreTypes /\ StoreNumbers /\ RestoreTypes
    BY DEF SettingsInv
  <2> QED  BY <2>1, <2>2, <2>3, <2>4 DEF SettingsTypeOK, StoreTypes, StoreNumbers, SaveAt, RestoreTypes, RestoreAt
<1>2. SettingsKept
  BY DEF SettingsInv, StoreSets, SettingsKept
<1>3. RestoreIsWhole
  BY DEF SettingsInv, StoreSets, OnlyWhole, RestoreIsWhole
<1> QED  BY <1>1, <1>2, <1>3

HIDE SettingsAssumption

-----------------------------------------------------------------------------
(* TlsCert                                                                 *)

USE TlsAssumption

JobRecord == [at : {"idle", "copy", "key"}, pair : PairNo, target : Target, alone : BOOLEAN]

(* What a file of a pair has in it.                                        *)
Content == PairNo \cup {CutShort}

Clock ==
  /\ day \in 0..MaxDay /\ made \in 1..MaxPair /\ ends \in [PairNo -> 0..(MaxDay + 2)]
  /\ imports \in 0..MaxImport /\ tlsCrashes \in 0..MaxTlsCrash

Files ==
  /\ cert \in [Target -> Content] /\ key \in [Target -> Content]
  /\ live \in PairNo /\ pendingOrder \in PairNo /\ listener \in PairNo /\ web \in 0..Down

TlsFlags ==
  restartDue \in BOOLEAN /\ byDaily \in BOOLEAN /\ broken \subseteq Target

(* The daily run and the manual order write the common pair, and while the *)
(* web interface is down only the daily run is between its two files.      *)
Jobs ==
  /\ job \in [Writer -> JobRecord]
  /\ job["daily"].target = "common" /\ job["dns"].target = "common"
  /\ web = Down => job["web"].at # "key" /\ job["dns"].at # "key"

(* A writer that has had its pair to itself finds its own certificate, or  *)
(* none since the pair was removed.                                        *)
AloneOwns ==
  \A w \in Writer : job[w].at = "key" /\ job[w].alone => cert[job[w].target] \in {0, job[w].pair}

Explained ==
  \A t \in Target :
     There(t) /\ ~Fits(t) => t \in broken \/ \E w \in Writer : job[w].at = "key" /\ job[w].target = t

DownForReason == web = Down => "common" \in broken \/ restartDue

TlsInv == Clock /\ Files /\ TlsFlags /\ Jobs /\ AloneOwns /\ Explained /\ DownForReason

LEMMA FileContent == PairNo \subseteq Content /\ CutShort \in Content /\ CutShort \in Nat
                     /\ CutShort \notin PairNo
BY DEF Content, CutShort, PairNo, MaxPair

LEMMA PairNumbers == MaxPair \in Nat /\ Down \in Nat /\ 0 \in PairNo /\ 1 \in PairNo
                     /\ \A p \in PairNo : p # Down /\ p \in 0..Down
BY DEF MaxPair, Down, PairNo

LEMMA NoJobIsRecord == NoJob \in JobRecord /\ NoJob.at = "idle" /\ NoJob.target = "common"
BY PairNumbers DEF NoJob, JobRecord, Target

(* A new pair gets the next number and is due in one period or two.        *)
LEMMA NewPairDoes ==
  ASSUME Clock, NewPair
  PROVE  /\ made' = made + 1 /\ made' \in 1..MaxPair /\ made + 1 \in PairNo
         /\ ends' \in [PairNo -> 0..(MaxDay + 2)]
<1>1. PICK n \in {1, 2} : ends' = [ends EXCEPT ![made + 1] = day + n]
  BY DEF NewPair
<1>2. day + n \in 0..(MaxDay + 2)
  BY DEF Clock
<1>3. made < MaxPair /\ made' = made + 1
  BY DEF NewPair
<1> QED  BY <1>1, <1>2, <1>3, PairNumbers DEF Clock, PairNo

(* Writing a certificate makes its writer the one between two files; those *)
(* that were there already no longer have the pair to themselves.          *)
LEMMA CertWritten ==
  ASSUME Files, TlsFlags, Jobs, AloneOwns, Explained, NEW w \in Writer, NEW p \in PairNo, NEW t \in Target,
         WriteCert(w, p, t), job[w].at # "key", UNCHANGED <<key, broken>>
  PROVE  /\ cert' \in [Target -> Content]
         /\ job' \in [Writer -> JobRecord]
         /\ job'[w].target = t /\ job'[w].at = "key"
         /\ \A v \in Writer \ {w} : job'[v].target = job[v].target /\ job'[v].at = job[v].at
         /\ AloneOwns' /\ Explained'
<1> DEFINE between == {v \in Writer \ {w} : job[v].at = "key" /\ job[v].target = t}
           first == Disturbed(w, t) = job
<1>1. cert' = [cert EXCEPT ![t] = p]
  BY DEF WriteCert
<1>2. job' = [Disturbed(w, t) EXCEPT ![w] = [at |-> "key", pair |-> p, target |-> t, alone |-> first]]
  BY DEF WriteCert
<1>3. cert' \in [Target -> Content] /\ cert'[t] = p /\ \A u \in Target \ {t} : cert'[u] = cert[u]
  BY <1>1, FileContent DEF Files
<1>4. job'[w] = [at |-> "key", pair |-> p, target |-> t, alone |-> first]
  BY <1>2 DEF Disturbed
<1>5. \A v \in between : job'[v] = [job[v] EXCEPT !.alone = FALSE]
  BY <1>2 DEF Disturbed
<1>6. \A v \in Writer \ ({w} \cup between) : job'[v] = job[v]
  BY <1>2 DEF Disturbed
<1> HIDE DEF first
<1>7. job'[w] \in JobRecord /\ job'[w].target = t /\ job'[w].at = "key" /\ job'[w].pair = p
  <2>1. first \in BOOLEAN
    BY DEF first
  <2> QED  BY <1>4, <2>1 DEF JobRecord
<1>8. \A v \in between : /\ job'[v] \in JobRecord /\ job'[v].target = job[v].target
                         /\ job'[v].at = job[v].at /\ job'[v].alone = FALSE
  BY <1>5 DEF Jobs, JobRecord
<1>9. job' \in [Writer -> JobRecord]
  <2>1. DOMAIN job' = Writer /\ job' = [v \in Writer |-> job'[v]]
    BY <1>2 DEF Disturbed
  <2>2. \A v \in Writer : job'[v] \in JobRecord
    BY <1>6, <1>7, <1>8 DEF Jobs
  <2> HIDE DEF between
  <2> QED  BY <2>1, <2>2
<1>10. \A v \in Writer \ {w} : job'[v].target = job[v].target /\ job'[v].at = job[v].at
  BY <1>6, <1>8
<1> HIDE DEF between
<1>11. \A v \in Writer \ {w} : job[v].at = "key" /\ job[v].target = t => v \in between
  BY DEF between
<1>12. AloneOwns'
  <2> SUFFICES ASSUME NEW v \in Writer, job'[v].at = "key", job'[v].alone
               PROVE  cert'[job'[v].target] \in {0, job'[v].pair}
    BY DEF AloneOwns
  <2>1. CASE v = w
    BY <2>1, <1>3, <1>7
  <2>2. CASE v # w
    <3>1. v \notin between
      BY <2>2, <1>8
    <3>2. job'[v] = job[v] /\ job[v].target # t /\ job[v].target \in Target
      BY <2>2, <3>1, <1>6, <1>10, <1>11 DEF Jobs, JobRecord
    <3> QED  BY <3>2, <1>3 DEF AloneOwns
  <2> QED  BY <2>1, <2>2
<1>13. Explained'
  <2> SUFFICES ASSUME NEW u \in Target, There(u)', ~Fits(u)'
               PROVE  u \in broken \/ \E v \in Writer : job'[v].at = "key" /\ job'[v].target = u
    BY DEF Explained
  <2>1. CASE u = t
    BY <2>1, <1>7
  <2>2. CASE u # t
    <3>1. There(u) /\ ~Fits(u)
      BY <2>2, <1>3 DEF There, Fits
    <3>2. u \in broken \/ \E v \in Writer : job[v].at = "key" /\ job[v].target = u
      BY <3>1 DEF Explained
    <3> QED  BY <3>2, <1>10
  <2> QED  BY <2>1, <2>2
<1> QED  BY <1>3, <1>7, <1>9, <1>10, <1>12, <1>13

(* While the event loop is free, the order's writer is not between files.  *)
LEMMA LoopFreeDns == Jobs /\ LoopFree => job["dns"].at # "key"
BY DEF Jobs, LoopFree

LEMMA TlsStarts == TlsInit => TlsInv
<1> SUFFICES ASSUME TlsInit PROVE TlsInv
  OBVIOUS
<1>1. Clock
  <2>1. day = 0 /\ made = 1 /\ ends = [p \in PairNo |-> 1] /\ imports = 0 /\ tlsCrashes = 0
    BY DEF TlsInit
  <2> QED  BY <2>1 DEF Clock, MaxPair
<1>2. cert = [t \in Target |-> IF t = "common" THEN 1 ELSE 0] /\ key = cert
  BY DEF TlsInit
<1>3. Files
  <2>1. cert \in [Target -> Content] /\ key = cert
    BY <1>2, PairNumbers, FileContent
  <2>2. live = 1 /\ pendingOrder = 0 /\ listener = 1 /\ web = 1
    BY DEF TlsInit
  <2> QED  BY <2>1, <2>2, PairNumbers DEF Files
<1>4. TlsFlags
  BY DEF TlsInit, TlsFlags
<1>5. job = [w \in Writer |-> NoJob] /\ web = 1
  BY DEF TlsInit
<1>6. Jobs
  BY <1>5, NoJobIsRecord, PairNumbers DEF Jobs, Writer
<1>7. AloneOwns
  BY <1>5, NoJobIsRecord DEF AloneOwns
<1>8. Explained
  BY <1>2, PairNumbers, FileContent DEF Explained, There, Fits
<1>9. DownForReason
  BY <1>5, PairNumbers DEF DownForReason
<1> QED  BY <1>1, <1>3, <1>4, <1>6, <1>7, <1>8, <1>9 DEF TlsInv

(* A start finds the files as they are, and nobody is between two of them  *)
(* any more.                                                               *)
LEMMA StartsSafely ==
  ASSUME TlsInv, Started, tlsCrashes' \in 0..MaxTlsCrash
  PROVE  TlsInv'
<1>a. Clock /\ Files /\ TlsFlags /\ Jobs /\ AloneOwns /\ Explained /\ DownForReason
  BY DEF TlsInv
<1>d. /\ listener' = Chosen
      /\ broken' = broken \cup {job[w].target : w \in {v \in Writer : job[v].at = "key"}}
      /\ job' = [w \in Writer |-> NoJob]
      /\ restartDue' = FALSE
      /\ UNCHANGED <<day, made, ends, cert, key, live, pendingOrder, imports, byDaily>>
  BY DEF Started
<1>e. \A t \in Target : There(t) /\ ~Fits(t) => t \in broken'
  BY <1>d, <1>a DEF Explained
<1>f. \A t \in Target : Fits(t) => cert[t] \in PairNo
  BY <1>a DEF Fits, Files, Content
<1>w. \/ web' = cert["common"] /\ Fits("common")
      \/ web' = Down /\ There("common") /\ ~Fits("common")
      \/ web' = 0
  BY DEF Started
<1>1. Clock'
  BY <1>d, <1>a DEF Clock
<1>2. Files'
  <2>1. listener' \in PairNo
    BY <1>d, <1>f, PairNumbers DEF Chosen, Target
  <2>2. web' \in 0..Down
    BY <1>w, <1>f, PairNumbers DEF Target
  <2> QED  BY <1>d, <2>1, <2>2, <1>a DEF Files
<1>3. TlsFlags'
  <2>1. \A v \in Writer : job[v].target \in Target
    BY <1>a DEF Jobs, JobRecord
  <2> QED  BY <1>d, <2>1, <1>a DEF TlsFlags
<1>4. Jobs'
  BY <1>d, NoJobIsRecord DEF Jobs, Writer
<1>5. AloneOwns'
  BY <1>d, NoJobIsRecord DEF AloneOwns
<1>6. Explained'
  BY <1>d, <1>e DEF Explained, There, Fits
<1>7. DownForReason'
  <2>1. web' = Down => There("common") /\ ~Fits("common")
    BY <1>w, <1>f, PairNumbers DEF Target
  <2> QED  BY <2>1, <1>e DEF DownForReason, Target
<1> QED  BY <1>1, <1>2, <1>3, <1>4, <1>5, <1>6, <1>7 DEF TlsInv

LEMMA TlsStep == TlsInv /\ [TlsNext]_tlsVars => TlsInv'
<1> SUFFICES ASSUME TlsInv, [TlsNext]_tlsVars PROVE TlsInv'
  OBVIOUS
<1>a. Clock /\ Files /\ TlsFlags /\ Jobs /\ AloneOwns /\ Explained /\ DownForReason
  BY DEF TlsInv
<1>1. CASE DayPasses
  <2>1. Clock'
    BY <1>1, <1>a DEF DayPasses, running, Clock
  <2>2. Files'
    BY <1>1, <1>a DEF DayPasses, running, Files
  <2>3. TlsFlags'
    BY <1>1, <1>a DEF DayPasses, running, TlsFlags
  <2>4. Jobs'
    BY <1>1, <1>a DEF DayPasses, running, Jobs
  <2>5. AloneOwns'
    BY <1>1, <1>a DEF DayPasses, running, AloneOwns
  <2>6. Explained'
    BY <1>1, <1>a DEF DayPasses, running, Explained, There, Fits
  <2>7. DownForReason'
    BY <1>1, <1>a DEF DayPasses, running, DownForReason
  <2> QED  BY <2>1, <2>2, <2>3, <2>4, <2>5, <2>6, <2>7 DEF TlsInv
<1>2. CASE DailyRun
  <2>j. job["daily"].at = "idle" /\ job["daily"].target = "common"
    BY <1>2, <1>a DEF DailyRun, Jobs
  <2>d. /\ made' \in 1..MaxPair /\ ends' \in [PairNo -> 0..(MaxDay + 2)] /\ live' \in PairNo
        /\ \E a \in {"idle", "copy"} : job' = [job EXCEPT !["daily"].at = a]
    <3>1. PICK renewed \in BOOLEAN :
             /\ IF renewed THEN Due(live) /\ NewPair /\ live' = made + 1
                           ELSE UNCHANGED <<made, ends, live>>
             /\ job' = [job EXCEPT !["daily"].at = IF TakesOver(renewed) THEN "copy" ELSE "idle"]
      BY <1>2 DEF DailyRun
    <3>2. made' \in 1..MaxPair /\ ends' \in [PairNo -> 0..(MaxDay + 2)] /\ live' \in PairNo
      BY <3>1, <1>a, NewPairDoes DEF Clock, Files
    <3> QED  BY <3>1, <3>2
  <2>e. PICK a \in {"idle", "copy"} : job' = [job EXCEPT !["daily"].at = a]
    BY <2>d
  <2>f. /\ job' \in [Writer -> JobRecord] /\ job'["daily"].at # "key" /\ job'["daily"].target = "common"
        /\ \A v \in Writer \ {"daily"} : job'[v] = job[v]
    BY <2>e, <2>j, <1>a DEF Jobs, JobRecord, Writer
  <2>g. cert' = cert /\ key' = key /\ broken' = broken /\ web' = web /\ restartDue' = restartDue
    BY <1>2 DEF DailyRun, running
  <2>1. Clock'
    BY <1>2, <1>a, <2>d DEF DailyRun, running, Clock
  <2>2. Files'
    BY <1>2, <1>a, <2>d DEF DailyRun, running, Files
  <2>3. TlsFlags'
    BY <1>2, <1>a, <2>d DEF DailyRun, running, TlsFlags
  <2>4. Jobs'
    BY <2>f, <2>g, <1>a DEF Jobs, Writer
  <2>5. AloneOwns'
    BY <2>f, <2>g, <1>a DEF AloneOwns
  <2>6. Explained'
    BY <2>f, <2>g, <2>j, <1>a DEF Explained, There, Fits
  <2>7. DownForReason'
    BY <1>2, <1>a, <2>d DEF DailyRun, running, DownForReason
  <2> QED  BY <2>1, <2>2, <2>3, <2>4, <2>5, <2>6, <2>7 DEF TlsInv
<1>3. CASE CopyCert
  <2>d. /\ cert' \in [Target -> Content] /\ job' \in [Writer -> JobRecord]
        /\ job'["daily"].target = "common" /\ job'["daily"].at = "key"
        /\ \A v \in Writer \ {"daily"} : job'[v].target = job[v].target /\ job'[v].at = job[v].at
        /\ AloneOwns' /\ Explained'
    <3>1. /\ "daily" \in Writer /\ live \in PairNo /\ "common" \in Target
          /\ WriteCert("daily", live, "common") /\ job["daily"].at # "key" /\ UNCHANGED <<key, broken>>
      BY <1>3, <1>a DEF CopyCert, Files, Writer, Target
    <3> QED  BY <3>1, <1>a, CertWritten, Zenon
  <2>1. Clock'
    BY <1>3, <1>a, <2>d DEF CopyCert, running, Clock
  <2>2. Files'
    BY <1>3, <1>a, <2>d DEF CopyCert, running, Files
  <2>3. TlsFlags'
    BY <1>3, <1>a, <2>d DEF CopyCert, running, TlsFlags
  <2>4. Jobs'
    BY <1>3, <2>d, <1>a DEF Jobs, Writer, CopyCert, running, WebUp
  <2>5. AloneOwns'
    BY <2>d
  <2>6. Explained'
    BY <2>d
  <2>7. DownForReason'
    BY <1>3, <1>a, <2>d DEF CopyCert, running, DownForReason
  <2> QED  BY <2>1, <2>2, <2>3, <2>4, <2>5, <2>6, <2>7 DEF TlsInv
<1>4. ASSUME NEW w \in Writer, WriteKey(w)
      PROVE  TlsInv'
  <2>j. job[w] \in JobRecord /\ job[w].at = "key"
    BY <1>4, <1>a DEF WriteKey, Jobs
  <2>d. /\ key' = [key EXCEPT ![job[w].target] = job[w].pair] /\ job' = [job EXCEPT ![w] = NoJob]
        /\ broken' = IF job[w].alone THEN broken \ {job[w].target} ELSE broken \cup {job[w].target}
        /\ UNCHANGED <<day, made, ends, cert, live, listener, web, imports, tlsCrashes>>
    BY <1>4 DEF WriteKey
  <2>e. /\ job' \in [Writer -> JobRecord] /\ job'[w] = NoJob
        /\ \A v \in Writer \ {w} : job'[v] = job[v]
    BY <2>d, <1>a, NoJobIsRecord DEF Jobs
  <2>k. /\ key' \in [Target -> Content] /\ key'[job[w].target] = job[w].pair
        /\ \A u \in Target \ {job[w].target} : key'[u] = key[u]
    BY <2>d, <2>j, <1>a, PairNumbers, FileContent DEF Files, JobRecord
  <2>1. Clock'
    BY <2>d, <1>a DEF Clock
  <2>2. Files'
    <3>1. pendingOrder' \in PairNo
      BY <1>4, <1>a, PairNumbers DEF WriteKey, Files
    <3> QED  BY <2>d, <2>k, <3>1, <1>a DEF Files
  <2>3. TlsFlags'
    <3>1. restartDue' \in BOOLEAN
      BY <1>4, <1>a, Zenon DEF WriteKey, TlsFlags
    <3>2. byDaily' = (w = "daily") \/ byDaily' = byDaily
      BY <1>4, Zenon DEF WriteKey
    <3>3. byDaily' \in BOOLEAN
      BY <3>2, <1>a, Zenon DEF TlsFlags
    <3> QED  BY <2>d, <2>j, <3>1, <3>3, <1>a DEF TlsFlags, JobRecord
  <2>4. Jobs'
    BY <2>d, <2>e, <1>a, NoJobIsRecord DEF Jobs, Writer
  <2>5. AloneOwns'
    BY <2>d, <2>e, <1>a, NoJobIsRecord DEF AloneOwns
  <2>6. Explained'
    <3> SUFFICES ASSUME NEW u \in Target, There(u)', ~Fits(u)'
                 PROVE  u \in broken' \/ \E v \in Writer : job'[v].at = "key" /\ job'[v].target = u
      BY DEF Explained
    <3>1. CASE u = job[w].target
      <4>1. ~job[w].alone
        BY <3>1, <2>d, <2>j, <2>k, <1>a, PairNumbers, FileContent DEF AloneOwns, There, Fits, JobRecord
      <4> QED  BY <3>1, <4>1, <2>d
    <3>2. CASE u # job[w].target
      <4>1. There(u) /\ ~Fits(u)
        BY <3>2, <2>d, <2>k DEF There, Fits
      <4>2. u \in broken \/ \E v \in Writer : job[v].at = "key" /\ job[v].target = u
        BY <4>1, <1>a DEF Explained
      <4> QED  BY <4>2, <3>2, <2>d, <2>e
    <3> QED  BY <3>1, <3>2
  <2>7. DownForReason'
    <3> SUFFICES ASSUME web' = Down PROVE "common" \in broken' \/ restartDue'
      BY DEF DownForReason
    <3>1. w = "daily"
      BY <2>d, <2>j, <1>a DEF Jobs, Writer
    <3> QED  BY <3>1, <1>4 DEF WriteKey
  <2> QED  BY <2>1, <2>2, <2>3, <2>4, <2>5, <2>6, <2>7 DEF TlsInv
<1>5. ASSUME NEW t \in Target, Import(t)
      PROVE  TlsInv'
  <2>d. /\ cert' \in [Target -> Content] /\ job' \in [Writer -> JobRecord]
        /\ job'["web"].target = t /\ job'["web"].at = "key"
        /\ \A v \in Writer \ {"web"} : job'[v].target = job[v].target /\ job'[v].at = job[v].at
        /\ AloneOwns' /\ Explained'
    <3>1. /\ "web" \in Writer /\ (made + 1) \in PairNo /\ t \in Target
          /\ WriteCert("web", (made + 1), t) /\ job["web"].at # "key" /\ UNCHANGED <<key, broken>>
      BY <1>5, <1>a, NewPairDoes DEF Import, Writer
    <3> QED  BY <3>1, <1>a, CertWritten, Zenon
  <2>1. Clock'
    <3>1. imports' \in 0..MaxImport
      BY <1>5, <1>a DEF Import, Clock
    <3>2. NewPair
      BY <1>5 DEF Import
    <3>3. UNCHANGED <<day, tlsCrashes>>
      BY <1>5 DEF Import
    <3> QED  BY <3>1, <3>2, <3>3, <1>a, NewPairDoes DEF Clock
  <2>2. Files'
    BY <1>5, <1>a, <2>d DEF Import, running, Files
  <2>3. TlsFlags'
    BY <1>5, <1>a, <2>d DEF Import, running, TlsFlags
  <2>4. Jobs'
    BY <1>5, <2>d, <1>a DEF Jobs, Writer, Import, running, WebUp
  <2>5. AloneOwns'
    BY <2>d
  <2>6. Explained'
    BY <2>d
  <2>7. DownForReason'
    BY <1>5, <1>a, <2>d DEF Import, running, DownForReason
  <2> QED  BY <2>1, <2>2, <2>3, <2>4, <2>5, <2>6, <2>7 DEF TlsInv
<1>6. CASE RemoveSeparate
  <2>d. /\ cert' \in [Target -> Content] /\ key' \in [Target -> Content]
        /\ cert'["separate"] = 0 /\ key'["separate"] = 0
        /\ cert'["common"] = cert["common"] /\ key'["common"] = key["common"]
        /\ UNCHANGED job /\ UNCHANGED broken
    BY <1>6, <1>a, PairNumbers, FileContent DEF RemoveSeparate, Files, Target
  <2>1. Clock'
    BY <1>6, <1>a, <2>d DEF RemoveSeparate, running, Clock
  <2>2. Files'
    BY <1>6, <1>a, <2>d DEF RemoveSeparate, running, Files
  <2>3. TlsFlags'
    BY <1>6, <1>a, <2>d DEF RemoveSeparate, running, TlsFlags
  <2>4. Jobs'
    BY <1>6, <1>a, <2>d DEF RemoveSeparate, running, Jobs
  <2>5. AloneOwns'
    BY <2>d, <1>a DEF AloneOwns, Jobs, JobRecord, Target
  <2>6. Explained'
    BY <2>d, <1>a DEF Explained, There, Fits, Target
  <2>7. DownForReason'
    BY <1>6, <1>a, <2>d DEF RemoveSeparate, running, DownForReason
  <2> QED  BY <2>1, <2>2, <2>3, <2>4, <2>5, <2>6, <2>7 DEF TlsInv
<1>7. CASE DnsStart
  <2>1. Clock'
    <3>1. imports' \in 0..MaxImport
      BY <1>7, <1>a DEF DnsStart, Clock
    <3>2. NewPair
      BY <1>7 DEF DnsStart
    <3>3. UNCHANGED <<day, tlsCrashes>>
      BY <1>7 DEF DnsStart
    <3> QED  BY <3>1, <3>2, <3>3, <1>a, NewPairDoes DEF Clock
  <2>2. Files'
    <3>1. NewPair /\ pendingOrder' = made + 1
      BY <1>7 DEF DnsStart
    <3>2. UNCHANGED <<cert, key, live, listener, web>>
      BY <1>7 DEF DnsStart, running
    <3> QED  BY <3>1, <3>2, <1>a, NewPairDoes DEF Files
  <2>3. TlsFlags'
    BY <1>7, <1>a, NewPairDoes DEF DnsStart, running, TlsFlags
  <2>4. Jobs'
    BY <1>7, <1>a, NewPairDoes DEF DnsStart, running, Jobs
  <2>5. AloneOwns'
    BY <1>7, <1>a, NewPairDoes DEF DnsStart, running, AloneOwns
  <2>6. Explained'
    BY <1>7, <1>a, NewPairDoes DEF DnsStart, running, Explained, There, Fits
  <2>7. DownForReason'
    BY <1>7, <1>a, NewPairDoes DEF DnsStart, running, DownForReason
  <2> QED  BY <2>1, <2>2, <2>3, <2>4, <2>5, <2>6, <2>7 DEF TlsInv
<1>8. CASE DnsFinish
  <2>d. /\ cert' \in [Target -> Content] /\ job' \in [Writer -> JobRecord]
        /\ job'["dns"].target = "common" /\ job'["dns"].at = "key"
        /\ \A v \in Writer \ {"dns"} : job'[v].target = job[v].target /\ job'[v].at = job[v].at
        /\ AloneOwns' /\ Explained'
    <3>1. /\ "dns" \in Writer /\ pendingOrder \in PairNo /\ "common" \in Target
          /\ WriteCert("dns", pendingOrder, "common") /\ job["dns"].at # "key" /\ UNCHANGED <<key, broken>>
      BY <1>8, <1>a, LoopFreeDns DEF DnsFinish, Files, Writer, Target
    <3> QED  BY <3>1, <1>a, CertWritten, Zenon
  <2>1. Clock'
    BY <1>8, <1>a, <2>d DEF DnsFinish, running, Clock
  <2>2. Files'
    BY <1>8, <1>a, <2>d DEF DnsFinish, running, Files
  <2>3. TlsFlags'
    BY <1>8, <1>a, <2>d DEF DnsFinish, running, TlsFlags
  <2>4. Jobs'
    BY <1>8, <2>d, <1>a DEF Jobs, Writer, DnsFinish, running, WebUp
  <2>5. AloneOwns'
    BY <2>d
  <2>6. Explained'
    BY <2>d
  <2>7. DownForReason'
    BY <1>8, <1>a, <2>d DEF DnsFinish, running, DownForReason
  <2> QED  BY <2>1, <2>2, <2>3, <2>4, <2>5, <2>6, <2>7 DEF TlsInv
<1>9. CASE SelfRestart
  <2> tlsCrashes' \in 0..MaxTlsCrash
    BY <1>9, <1>a DEF SelfRestart, Clock
  <2> QED  BY <1>9, <1>a, StartsSafely DEF SelfRestart
<1>10. CASE TlsCrash
  <2> tlsCrashes' \in 0..MaxTlsCrash
    BY <1>10, <1>a DEF TlsCrash, Failing, Clock
  <2> QED  BY <1>10, <1>a, StartsSafely DEF TlsCrash
<1>12. ASSUME NEW w \in Writer, KeyFails(w)
       PROVE  TlsInv'
  <2>j. job[w] \in JobRecord /\ job[w].at = "key"
    BY <1>12, <1>a DEF KeyFails, Jobs
  <2>k. PICK k \in IF w = "daily" THEN {key[job[w].target], CutShort, job[w].pair}
                                  ELSE {key[job[w].target]} :
           key' = [key EXCEPT ![job[w].target] = k]
    BY <1>12 DEF KeyFails
  <2>l. k \in Content
    BY <2>j, <1>a, FileContent DEF Files, JobRecord
  <2>d. /\ job' = [job EXCEPT ![w] = NoJob] /\ broken' = broken \cup {job[w].target}
        /\ tlsCrashes' \in 0..MaxTlsCrash
        /\ UNCHANGED <<day, made, ends, cert, live, pendingOrder, restartDue, listener, web, imports, byDaily>>
    BY <1>12, <1>a DEF KeyFails, Failing, running, Clock
  <2>e. /\ job' \in [Writer -> JobRecord] /\ job'[w] = NoJob
        /\ \A v \in Writer \ {w} : job'[v] = job[v]
    BY <2>d, <1>a, NoJobIsRecord DEF Jobs
  <2>m. /\ key' \in [Target -> Content]
        /\ \A u \in Target \ {job[w].target} : key'[u] = key[u]
    BY <2>k, <2>l, <2>j, <1>a DEF Files, JobRecord
  <2>1. Clock'
    BY <2>d, <1>a DEF Clock
  <2>2. Files'
    BY <2>d, <2>m, <1>a DEF Files
  <2>3. TlsFlags'
    BY <2>d, <2>j, <1>a DEF TlsFlags, JobRecord
  <2>4. Jobs'
    BY <2>d, <2>e, <1>a, NoJobIsRecord DEF Jobs, Writer
  <2>5. AloneOwns'
    BY <2>d, <2>e, <1>a, NoJobIsRecord DEF AloneOwns
  <2>6. Explained'
    <3> SUFFICES ASSUME NEW u \in Target, There(u)', ~Fits(u)', u # job[w].target
                 PROVE  u \in broken' \/ \E v \in Writer : job'[v].at = "key" /\ job'[v].target = u
      BY <2>d DEF Explained
    <3>1. There(u) /\ ~Fits(u)
      BY <2>d, <2>m DEF There, Fits
    <3>2. u \in broken \/ \E v \in Writer : job[v].at = "key" /\ job[v].target = u
      BY <3>1, <1>a DEF Explained
    <3> QED  BY <3>2, <2>d, <2>e
  <2>7. DownForReason'
    BY <2>d, <1>a DEF DownForReason
  <2> QED  BY <2>1, <2>2, <2>3, <2>4, <2>5, <2>6, <2>7 DEF TlsInv
<1>13. CASE CopyFails
  <2>1. PICK c \in {cert["common"], CutShort, live} :
           /\ cert' = [cert EXCEPT !["common"] = c]
           /\ broken' = IF c = cert["common"] THEN broken ELSE broken \cup {"common"}
    BY <1>13 DEF CopyFails
  <2>2. c \in Content
    BY <1>a, FileContent DEF Files, Target
  <2>d. /\ job' = [Disturbed("daily", "common") EXCEPT !["daily"] = NoJob]
        /\ tlsCrashes' \in 0..MaxTlsCrash
        /\ UNCHANGED <<day, made, ends, key, live, pendingOrder, restartDue, listener, web, imports, byDaily>>
    BY <1>13, <1>a DEF CopyFails, Failing, running, Clock
  <2>c. /\ cert' \in [Target -> Content]
        /\ cert'["separate"] = cert["separate"]
    BY <2>1, <2>2, <1>a DEF Files, Target
  <2>e. /\ job' \in [Writer -> JobRecord] /\ job'["daily"] = NoJob
        /\ \A v \in Writer \ {"daily"} :
             /\ job'[v].at = job[v].at /\ job'[v].target = job[v].target /\ job'[v].pair = job[v].pair
             /\ job[v].at = "key" /\ job[v].target = "common" => job'[v].alone = FALSE
             /\ job[v].target # "common" => job'[v] = job[v]
    <3>1. \A v \in Writer \ {"daily"} :
            job'[v] = IF job[v].at = "key" /\ job[v].target = "common"
                        THEN [job[v] EXCEPT !.alone = FALSE] ELSE job[v]
      BY <2>d DEF Disturbed
    <3>2. job'["daily"] = NoJob /\ DOMAIN job' = Writer /\ job' = [v \in Writer |-> job'[v]]
      BY <2>d DEF Disturbed, Writer
    <3>3. \A v \in Writer \ {"daily"} : job'[v] \in JobRecord
      BY <3>1, <1>a DEF Jobs, JobRecord
    <3>4. job' \in [Writer -> JobRecord]
      BY <3>2, <3>3, NoJobIsRecord
    <3> QED  BY <3>1, <3>2, <3>4, <1>a DEF Jobs, JobRecord
  <2>f. job["daily"].at # "key" /\ NoJob.at = "idle" /\ NoJob.target = "common"
    BY <1>13, NoJobIsRecord DEF CopyFails
  <2>g. Clock'
    BY <2>d, <1>a DEF Clock
  <2>h. Files'
    BY <2>d, <2>c, <1>a DEF Files
  <2>3. TlsFlags'
    BY <2>1, <2>d, <1>a DEF TlsFlags, Target
  <2>4. Jobs'
    BY <2>d, <2>e, <2>f, <1>a DEF Jobs, Writer
  <2>5. AloneOwns'
    <3> SUFFICES ASSUME NEW v \in Writer, job'[v].at = "key", job'[v].alone
                 PROVE  cert'[job'[v].target] \in {0, job'[v].pair}
      BY DEF AloneOwns
    <3>1. v # "daily" /\ job[v].target # "common" /\ job'[v] = job[v]
      BY <2>e, <2>f
    <3>2. job[v].target = "separate"
      BY <3>1, <1>a DEF Jobs, JobRecord, Target
    <3> QED  BY <3>1, <3>2, <2>c, <1>a DEF AloneOwns
  <2>6. Explained'
    <3> SUFFICES ASSUME NEW u \in Target, There(u)', ~Fits(u)'
                 PROVE  u \in broken' \/ \E v \in Writer : job'[v].at = "key" /\ job'[v].target = u
      BY DEF Explained
    <3>1. CASE c # cert["common"] /\ u = "common"
      BY <2>1, <3>1
    <3>2. CASE c = cert["common"] \/ u = "separate"
      <4>1. cert'[u] = cert[u]
        BY <3>2, <2>1, <2>c, <1>a DEF Files, Target
      <4>2. There(u) /\ ~Fits(u)
        BY <4>1, <2>d DEF There, Fits
      <4>3. u \in broken \/ \E v \in Writer : job[v].at = "key" /\ job[v].target = u
        BY <4>2, <1>a DEF Explained
      <4> QED  BY <4>3, <2>1, <2>e, <2>f
    <3> QED  BY <3>1, <3>2 DEF Target
  <2>7. DownForReason'
    BY <2>1, <2>d, <1>a DEF DownForReason
  <2> QED  BY <2>g, <2>h, <2>3, <2>4, <2>5, <2>6, <2>7 DEF TlsInv
<1>11. CASE UNCHANGED tlsVars
  <2>1. Clock'
    BY <1>11, <1>a DEF tlsVars, Clock
  <2>2. Files'
    BY <1>11, <1>a DEF tlsVars, Files
  <2>3. TlsFlags'
    BY <1>11, <1>a DEF tlsVars, TlsFlags
  <2>4. Jobs'
    BY <1>11, <1>a DEF tlsVars, Jobs
  <2>5. AloneOwns'
    BY <1>11, <1>a DEF tlsVars, AloneOwns
  <2>6. Explained'
    BY <1>11, <1>a DEF tlsVars, Explained, There, Fits
  <2>7. DownForReason'
    BY <1>11, <1>a DEF tlsVars, DownForReason
  <2> QED  BY <2>1, <2>2, <2>3, <2>4, <2>5, <2>6, <2>7 DEF TlsInv
<1> QED  BY <1>1, <1>2, <1>3, <1>4, <1>5, <1>6, <1>7, <1>8, <1>9, <1>10, <1>11, <1>12, <1>13 DEF TlsNext

LEMMA TlsCorrect == TlsSpec => []TlsInv
BY TlsStarts, TlsStep, PTL DEF TlsSpec

LEMMA TlsFromInv == TlsInv => TlsTypeOK /\ PairsFit
<1> SUFFICES ASSUME TlsInv PROVE TlsTypeOK /\ PairsFit
  OBVIOUS
<1>1. TlsTypeOK
  BY DEF TlsInv, Clock, Files, TlsFlags, Jobs, JobRecord, Content, TlsTypeOK
<1>2. PairsFit
  BY DEF TlsInv, Explained, DownForReason, PairsFit
<1> QED  BY <1>1, <1>2

HIDE TlsAssumption

-----------------------------------------------------------------------------
(* Watchdog                                                                *)

USE WatchAssumption

WatchRecord == [at : {"rest", "judged", "read", "tell"}, healthy : BOOLEAN,
                saw : RuleState, tells : BOOLEAN]

LEMMA RestingIsRecord == Resting \in WatchRecord
BY DEF Resting, WatchRecord, RuleState

(* A watcher's record changes to another record, and nothing else does.    *)
LEMMA WatchMoves ==
  ASSUME WatchTypeOK, NEW w, NEW r \in WatchRecord
  PROVE  [watch EXCEPT ![w] = r] \in [Watcher -> WatchRecord]
BY DEF WatchTypeOK, WatchRecord

LEMMA WatchTypes == WatchTypeOK /\ [WatchNext]_watchVars => WatchTypeOK'
<1> SUFFICES ASSUME WatchTypeOK, [WatchNext]_watchVars PROVE WatchTypeOK'
  OBVIOUS
<1> USE DEF WatchTypeOK
<1>0. watch \in [Watcher -> WatchRecord]
  BY DEF WatchRecord
<1>1. CASE GatewayFails \/ GatewayBack
  <2>1. outages' \in 0..MaxOutage
    BY <1>1, SMT DEF GatewayFails, GatewayBack, watchBounds
  <2>2. reachable' \in BOOLEAN
    BY <1>1, Zenon DEF GatewayFails, GatewayBack
  <2> QED  BY <1>1, <2>1, <2>2, Zenon DEF GatewayFails, GatewayBack, watchGateway, watchBounds
<1>2. ASSUME NEW w \in Watcher, WatcherDies(w) PROVE WatchTypeOK'
  <2>1. watch' \in [Watcher -> WatchRecord]
    BY <1>2, RestingIsRecord, WatchMoves DEF WatcherDies
  <2> QED  BY <1>2, <2>1 DEF WatcherDies, watchGateway, WatchRecord
<1>3. ASSUME NEW w \in Watcher, RemoveWatcher(w) PROVE WatchTypeOK'
  <2>1. watch' \in [Watcher -> WatchRecord]
    BY <1>0, <1>3, RestingIsRecord, WatchMoves DEF RemoveWatcher
  <2> QED  BY <1>3, <2>1 DEF RemoveWatcher, watchBounds, WatchRecord
<1>4. ASSUME NEW w \in Watcher, Judge(w) PROVE WatchTypeOK'
  <2>1. watch' \in [Watcher -> WatchRecord]
    <3>1. [Resting EXCEPT !.at = "judged", !.healthy = reachable] \in WatchRecord
      BY DEF Resting, WatchRecord, RuleState
    <3> QED  BY <1>4, <3>1, WatchMoves DEF Judge
  <2> QED  BY <1>4, <2>1 DEF Judge, watchBounds, watchGateway, WatchRecord
<1>5. ASSUME NEW w \in Watcher, ReadRule(w) PROVE WatchTypeOK'
  <2>1. [watch[w] EXCEPT !.at = "read", !.saw = rule] \in WatchRecord
    BY <1>0 DEF WatchRecord, RuleState
  <2>2. watch' \in [Watcher -> WatchRecord]
    BY <1>5, <2>1, <1>0, WatchMoves DEF ReadRule
  <2> QED  BY <1>5, <2>2 DEF ReadRule, watchBounds, watchGateway, WatchRecord
<1>6. ASSUME NEW w \in Watcher, ExchangeFails(w) PROVE WatchTypeOK'
  <2>1. [watch[w] EXCEPT !.at = "tell", !.tells = FALSE] \in WatchRecord
    BY <1>0 DEF WatchRecord
  <2>2. watch' \in [Watcher -> WatchRecord]
    BY <1>6, <2>1, <1>0, WatchMoves DEF ExchangeFails
  <2> QED  BY <1>6, <2>2 DEF ExchangeFails, watchBounds, watchGateway, WatchRecord
<1>7. ASSUME NEW w \in Watcher, Act(w) PROVE WatchTypeOK'
  <2>1. [watch[w] EXCEPT !.at = "tell", !.tells = ~watch[w].healthy] \in WatchRecord
    BY <1>0 DEF WatchRecord
  <2>2. watch' \in [Watcher -> WatchRecord]
    BY <1>7, <2>1, <1>0, WatchMoves DEF Act
  <2>3. rule' \in {"Enabled", "Disabled"}
    BY <1>7 DEF Act, Switched
  <2> QED  BY <1>7, <2>2, <2>3 DEF Act, watchBounds, watchGateway, WatchRecord
<1>8. ASSUME NEW w \in Watcher, Heartbeat(w) PROVE WatchTypeOK'
  <2>1. watch' \in [Watcher -> WatchRecord]
    BY <1>8, RestingIsRecord, WatchMoves DEF Heartbeat
  <2>2. bypass' \subseteq register
    BY <1>8 DEF Heartbeat
  <2> QED  BY <1>8, <2>1, <2>2 DEF Heartbeat, watchBounds, WatchRecord
<1>9. CASE SetupSwitches \/ SetupForgets \/ CheckReads \/ CheckNotes \/ SwitchArmed
  <2> USE DEF SetupSwitches, SetupForgets, CheckReads, CheckNotes, SwitchArmed, watchBounds
  <2>1. setups' \in 0..MaxSetup
    <3>1. setups' = setups \/ (setups < MaxSetup /\ setups' = setups + 1)
      BY <1>9, Zenon
    <3>2. setups \in 0..MaxSetup
      OBVIOUS
    <3> QED  BY ONLY <3>1, <3>2, WatchAssumption
  <2>2. /\ mailboxes' \in BOOLEAN /\ setup' \in BOOLEAN /\ armed' \in BOOLEAN
        /\ reachable' \in BOOLEAN
    BY <1>9
  <2>3. rule' \in {"Enabled", "Disabled"} /\ looked' \in RuleState /\ ruleState' \in RuleState
    BY <1>9 DEF RuleState
  <2>4. UNCHANGED <<register, bypass, alive, watch, outages, deaths>>
    BY <1>9
  <2> QED  BY <2>1, <2>2, <2>3, <2>4
<1>10. CASE UNCHANGED watchVars
  BY <1>10 DEF watchVars
<1> QED  BY <1>1, <1>2, <1>3, <1>4, <1>5, <1>6, <1>7, <1>8, <1>9, <1>10 DEF WatchNext

LEMMA WatchTypesHold == WatchSpec => []WatchTypeOK
<1>1. WatchInit => WatchTypeOK
  <2> SUFFICES ASSUME WatchInit PROVE WatchTypeOK
    OBVIOUS
  <2>1. watch \in [Watcher -> WatchRecord]
    BY RestingIsRecord DEF WatchInit
  <2>2. outages \in 0..MaxOutage /\ setups \in 0..MaxSetup /\ deaths \in 0..MaxDeath
    <3>1. outages = 0 /\ setups = 0 /\ deaths = 0
      BY DEF WatchInit
    <3> QED  BY ONLY <3>1, WatchAssumption
  <2>3. reachable \in BOOLEAN /\ mailboxes \in BOOLEAN /\ setup \in BOOLEAN /\ armed \in BOOLEAN
    BY DEF WatchInit
  <2> QED  BY <2>1, <2>2, <2>3 DEF WatchInit, WatchTypeOK, WatchRecord, RuleState
<1> QED  BY <1>1, WatchTypes, PTL DEF WatchSpec

HIDE WatchAssumption

-----------------------------------------------------------------------------
(* The whole                                                               *)

(* Each part runs as if it were alone: the step of one leaves the variables *)
(* of the others as they are.                                              *)
LEMMA PartsOfUpkeep ==
  Spec => OofSpec /\ ReplySpec /\ SettingsSpec /\ TlsSpec /\ WatchSpec
<1>1. Init => OofInit /\ ReplyInit /\ SettingsInit /\ TlsInit /\ WatchInit
  BY DEF Init
<1>2. [Next]_mcVars =>
        /\ [OofNext]_oofVars /\ [ReplyNext]_replyVars /\ [SettingsNext]_settingsVars
        /\ [TlsNext]_tlsVars /\ [WatchNext]_watchVars
  BY DEF Next, mcVars
<1> QED  BY <1>1, <1>2, PTL DEF Spec, OofSpec, ReplySpec, SettingsSpec, TlsSpec, WatchSpec

(* Type correctness of all five parts.                                     *)
THEOREM UpkeepTypes == Spec => []TypesOK
<1>1. ReplyInv => ReplyTypeOK
  BY DEF ReplyInv
<1>2. ReplyInit => ReplyInv
  BY ReplyStarts
<1> QED  BY <1>1, <1>2, ReplyStep, OofFromInv, SettingsFromInv, TlsFromInv, PartsOfUpkeep,
            OofCorrect, SettingsCorrect, TlsCorrect, WatchTypesHold, PTL DEF TypesOK, ReplySpec

(* However many mails of one sender arrive at once: an answer after the     *)
(* first costs that another fingerprint took the place in the file, and the *)
(* only text of an absence gives way to another absence alone               *)
(* (oof_ablage.py, _schon_beantwortet).                                     *)
THEOREM AnswersBounded == Spec => []AnswersAreBounded
BY AnsweredOnceATurn, PartsOfUpkeep, PTL

(* A calendar window turns an absence on once, and no PATCH is sent without *)
(* need, but where the store was made to forget: for every number of       *)
(* mailboxes, saves and polls that interleave (abwesenheit.py).            *)
THEOREM AbsencesRespected == Spec => [](TurnedOnOnce /\ NoNeedlessPatch)
BY OofFromInv, OofCorrect, PartsOfUpkeep, PTL

(* A confirmed setting is what the next start reads, a restore is whole,   *)
(* and the files of certificate and key fit, but for the named exceptions, *)
(* wherever a crash, a power cut or another writer comes between           *)
(* (settings_store.py, backup_manager.py, le_certbot.py, tls_cert.py).     *)
THEOREM StoredIsWhole == Spec => []StoredWhole
BY SettingsFromInv, SettingsCorrect, TlsFromInv, TlsCorrect, PartsOfUpkeep, PTL DEF StoredWhole
===============================================================================
