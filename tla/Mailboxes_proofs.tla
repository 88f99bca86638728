--------------------------- MODULE Mailboxes_proofs ---------------------------
(***************************************************************************)
(* The mailboxes and the rules of the mail flow: what a save promises, for *)
(* every number of mailboxes, addresses, administrators and faults.        *)
(***************************************************************************)
EXTENDS Mailboxes, SequenceTheorems, FiniteSetTheorems, TLAPS

(* Shapes *)
Mode == {"none", "sig", "smime"}
MailEntry == [kind : Mode, primary : 0..MaxName, own : BOOLEAN]
EntryMap == [Place -> MailEntry]
Scripted == {<<>>, <<"sig", "smime", "scope">>, <<"smime", "scope">>,
             <<"sig", "scope">>, <<"scope">>}
SaveRecord ==
  [at : {"idle", "list", "order", "add", "remove"}, rows : [Address -> Mode],
   before : EntryMap, todo : Scripted, want : [Group -> SUBSET Address], cur : SUBSET Address]

MailTables == config \in EntryMap /\ save \in [Saver -> SaveRecord]
MailNames ==
  /\ name \in [Mailbox -> 1..MaxName] /\ listed \in [Mailbox -> 0..MaxName]
  /\ \A m \in Mailbox : listed[m] <= name[m]
  /\ sameAs \in [Address -> 1..MaxName] /\ \A a \in Address : sameAs[a] <= a[2]
MailCounts == turns \in [Mailbox -> Nat] /\ orders \in [Address -> Nat]
MailSets ==
  /\ group \in [Group -> SUBSET Mailbox] /\ ruleOn \subseteq {"sig", "smime"}
  /\ why \subseteq {"crossed", "fault", "stale"}
  /\ ever \subseteq {"crossed", "unlisted", "meanwhile"}
  /\ chose \subseteq Mailbox
MailSwitches == split \in BOOLEAN /\ laidOut \in BOOLEAN

(* What a map, and the rows of a page, may know: addresses up to the one    *)
(* the mailbox has now.                                                     *)
Known(c) == \A p \in Place :
  /\ c[p].kind # "none" => p[2] <= name[p[1]]
  /\ c[p].primary <= name[p[1]]
  /\ c[p].kind = "none" => c[p].primary = 0
KnownRows(r) == \A a \in Address : r[a] # "none" => a[2] <= name[a[1]]
MailKnown == Known(config) /\ \A s \in Saver : Known(save[s].before) /\ KnownRows(save[s].rows)
MailTodo == \A s \in Saver : save[s].at \in {"add", "remove"} => save[s].todo # <<>>

Alone == "crossed" \notin why \cap ever => \A s, o \in Saver : Busy(s) /\ Busy(o) => s = o

(* By Exchange's list, every entry is under the Guid of its mailbox.        *)
Plain(c) == \A p \in Place : c[p].kind # "none" => p[2] = 0 /\ c[p].primary # 0
PlainMaps ==
  "unlisted" \notin ever =>
    /\ Plain(config) /\ \A s \in Saver : Plain(save[s].before)
    /\ \A m \in Mailbox : listed[m] = 0 \/ config[<<m, 0>>].primary <= listed[m]

StillThere ==
  ever \cap {"unlisted", "crossed"} = {} =>
    \A s \in Saver : save[s].at = "list" =>
      \A p \in Place : /\ save[s].before[p].kind = config[p].kind
                       /\ save[s].before[p].primary = config[p].primary

(* The last name of m that a save can have known, and how often m had come  *)
(* back to the address a by a name.                                         *)
LastSeen(m) == IF config[<<m, 0>>].kind = "smime" THEN config[<<m, 0>>].primary
           ELSE IF listed[m] = 0 THEN name[m] ELSE listed[m]
Again(a, x) == {n \in (a[2] + 1)..x : AddressOf(a[1], n) = a}

OrdersFit ==
  ever \cap {"unlisted", "crossed"} = {} =>
    \A a \in Address :
      /\ orders[a] <= turns[a[1]] + Cardinality(Again(a, LastSeen(a[1])))
      /\ config[<<a[1], 0>>].kind = "smime" /\ a[2] > config[<<a[1], 0>>].primary
           => orders[a] < turns[a[1]]

ChoicesFit ==
  ever \cap {"unlisted", "meanwhile", "crossed"} = {} =>
    /\ \A s \in Saver : save[s].at = "list" => save[s].before = config
    /\ \A m \in chose : config[<<m, 0>>].own

(* Routes *)
Signing == {m \in Mailbox : config[<<m, 0>>].kind # "none"}
Ciphering == {m \in Mailbox : config[<<m, 0>>].kind = "smime"}
Target(g) == IF g = "sig" THEN IF laidOut THEN Signing \ Ciphering ELSE Signing
             ELSE IF laidOut THEN Ciphering ELSE {}
Addressed(set) == {Now(m) : m \in set}
Done(g) == group[g] = Target(g) /\ (g \in ruleOn <=> Target(g) # {})
ByGuid == \A p \in Place : config[p].kind # "none" => p[2] = 0
ByName == \A p \in Place : config[p].kind # "none" => p[2] = 0 /\ config[p].primary = name[p[1]]
ToCome(g, todo) == \E i \in 1..Len(todo) : todo[i] = g

LaidOut ==
  /\ laidOut => split
  /\ ~laidOut => /\ group["smime"] = {} /\ "smime" \notin ruleOn
                 /\ \A s \in Saver : save[s].todo \in {<<>>, <<"sig", "scope">>, <<"scope">>}

Comes(s) ==
  LET r == save[s]
  IN  /\ r.at = "order" => ByName /\ r.want["sig"] = Addressed(Signing)
      /\ r.at \in {"add", "remove"} =>
           /\ ByName /\ r.want["sig"] = Addressed(Target("sig"))
           /\ laidOut => r.want["smime"] = Addressed(Ciphering)
           /\ \A g \in {"sig", "smime"} : ToCome(g, r.todo) \/ Done(g)
      /\ r.at = "remove" /\ Head(r.todo) # "scope" =>
           /\ \A a \in r.cur : a = Now(a[1])
           /\ group[Head(r.todo)] = {a[1] : a \in r.cur} \cup Target(Head(r.todo))

Routes ==
  why = {} =>
    /\ \A s \in Saver : Comes(s)
    /\ (\A s \in Saver : ~Busy(s)) => ByGuid /\ Done("sig") /\ Done("smime")

MailShape == MailTables /\ MailNames /\ MailCounts /\ MailSets /\ MailSwitches

LEMMA PlaceParts ==
  /\ \A p \in Place : p[1] \in Mailbox /\ p[2] \in 0..MaxName /\ p = <<p[1], p[2]>>
  /\ \A a \in Address : a[1] \in Mailbox /\ a[2] \in 1..MaxName /\ a = <<a[1], a[2]>> /\ a \in Place
  /\ \A m \in Mailbox : <<m, 0>> \in Place /\ \A n \in 1..MaxName : <<m, n>> \in Address
BY MailboxAssumption DEF Place, Address

(* An address is a name the mailbox had no later.                           *)
LEMMA AddrParts ==
  ASSUME MailNames, NEW m \in Mailbox, NEW n \in 1..MaxName
  PROVE  AddressOf(m, n) \in Address /\ AddressOf(m, n)[1] = m /\ AddressOf(m, n)[2] \in 1..MaxName /\ AddressOf(m, n)[2] <= n
<1>1. <<m, n>> \in Address /\ <<m, n>>[2] = n
  BY PlaceParts
<1>2. sameAs[<<m, n>>] \in 1..MaxName /\ sameAs[<<m, n>>] <= n
  BY <1>1 DEF MailNames
<1> QED  BY <1>2, PlaceParts DEF AddressOf

LEMMA NowParts ==
  ASSUME MailNames, NEW m \in Mailbox
  PROVE  Now(m) \in Address /\ Now(m)[1] = m /\ Now(m)[2] <= name[m]
<1>1. name[m] \in 1..MaxName
  BY DEF MailNames
<1> QED  BY <1>1, AddrParts DEF Now

LEMMA NoSaveShape == NoSave \in SaveRecord /\ NoEntry \in MailEntry
<1>1. NoEntry \in MailEntry
  BY MailboxAssumption DEF NoEntry, MailEntry, Mode
<1>2. [p \in Place |-> NoEntry] \in EntryMap
  BY <1>1 DEF EntryMap
<1>3. [a \in Address |-> "none"] \in [Address -> Mode] /\ [g \in Group |-> {}] \in [Group -> SUBSET Address]
  BY DEF Mode
<1> QED  BY <1>1, <1>2, <1>3 DEF NoSave, SaveRecord, Scripted

LEMMA RebuiltShape ==
  ASSUME NEW list \in [Mailbox -> 0..MaxName], NEW rows \in [Address -> Mode], NEW before \in EntryMap
  PROVE  Rebuilt(list, rows, before) \in EntryMap
<1> DEFINE here(p) == {a \in Chosen(rows) : PlaceOf(list, a) = p}
           new(p) == IF here(p) = {} THEN NoEntry
            ELSE [kind |-> IF \E a \in here(p) : rows[a] = "smime" THEN "smime" ELSE "sig",
                  primary |-> IF p[2] = 0 THEN list[p[1]] ELSE 0, own |-> before[p].own]
<1>1. ASSUME NEW p \in Place PROVE new(p) \in MailEntry
  <2>1. list[p[1]] \in 0..MaxName /\ 0 \in 0..MaxName
    BY PlaceParts, MailboxAssumption
  <2>2. before[p].own \in BOOLEAN
    BY DEF EntryMap, MailEntry
  <2>3. (IF p[2] = 0 THEN list[p[1]] ELSE 0) \in 0..MaxName
    BY <2>1
  <2> QED  BY <2>2, <2>3, NoSaveShape DEF MailEntry, Mode
<1>2. Rebuilt(list, rows, before) = [p \in Place |-> new(p)]
  BY DEF Rebuilt
<1> QED  BY <1>1, <1>2 DEF EntryMap

(* How often an address comes back grows with the names.                    *)
LEMMA CountsGrow ==
  ASSUME NEW i \in Nat, NEW j \in Nat, NEW T \in SUBSET (i..j), NEW S \in SUBSET T
  PROVE  /\ Cardinality(S) \in Nat /\ Cardinality(T) \in Nat /\ Cardinality(S) <= Cardinality(T)
         /\ S # T => Cardinality(S) < Cardinality(T)
<1>1. IsFiniteSet(i..j)
  BY FS_Interval
<1>2. IsFiniteSet(T) /\ IsFiniteSet(S)
  BY <1>1, FS_Subset
<1>3. Cardinality(S) \in Nat /\ Cardinality(T) \in Nat
  BY <1>2, FS_CardinalityType
<1>4. Cardinality(S) <= Cardinality(T) /\ (Cardinality(S) = Cardinality(T) => T = S)
  BY <1>2, FS_Subset
<1> QED  BY <1>3, <1>4

LEMMA AgainGrows ==
  ASSUME NEW a \in Address, NEW x \in Nat, NEW y \in Nat, x <= y
  PROVE  /\ Cardinality(Again(a, x)) \in Nat /\ Cardinality(Again(a, y)) \in Nat
         /\ Cardinality(Again(a, x)) <= Cardinality(Again(a, y))
         /\ x < y /\ a[2] < y /\ AddressOf(a[1], y) = a => Cardinality(Again(a, x)) < Cardinality(Again(a, y))
         /\ x <= a[2] => Cardinality(Again(a, x)) = 0
<1>1. a[2] + 1 \in Nat /\ a[2] \in Nat
  BY PlaceParts
<1>2. Again(a, y) \subseteq (a[2] + 1)..y /\ Again(a, x) \subseteq Again(a, y)
  BY <1>1 DEF Again
<1>3. x < y /\ a[2] < y /\ AddressOf(a[1], y) = a => y \in Again(a, y) \ Again(a, x)
  BY <1>1 DEF Again
<1>4. ASSUME x <= a[2] PROVE Cardinality(Again(a, x)) = 0
  <2>1. Again(a, x) = {}
    BY <1>1, <1>4 DEF Again
  <2> QED  BY <2>1, FS_EmptySet
<1> QED  BY <1>1, <1>2, <1>3, <1>4, CountsGrow

LEMMA MailStarts ==
  MailboxInit => MailShape /\ MailKnown /\ MailTodo /\ Alone /\ PlainMaps /\ StillThere
                 /\ OrdersFit /\ ChoicesFit /\ LaidOut /\ Routes
<1> SUFFICES ASSUME MailboxInit
             PROVE  MailShape /\ MailKnown /\ MailTodo /\ Alone /\ PlainMaps /\ StillThere
                    /\ OrdersFit /\ ChoicesFit /\ LaidOut /\ Routes
  OBVIOUS
<1>0. config = [p \in Place |-> NoEntry] /\ \A p \in Place : config[p].kind = "none" /\ config[p].primary = 0
  BY DEF MailboxInit, NoEntry
<1>s. \A s \in Saver : save[s] = NoSave
  BY DEF MailboxInit
<1>n. /\ NoSave.at = "idle" /\ NoSave.todo = <<>> /\ \A p \in Place : NoSave.before[p] = NoEntry
      /\ \A a \in Address : NoSave.rows[a] = "none"
  BY DEF NoSave
<1>e. NoEntry.kind = "none" /\ NoEntry.primary = 0
  BY DEF NoEntry
<1>w. why = {} /\ ever = {} /\ chose = {} /\ ruleOn = {} /\ split = FALSE /\ laidOut = FALSE
  BY DEF MailboxInit
<1>1. MailTables
  BY <1>0, NoSaveShape DEF MailboxInit, MailTables, EntryMap
<1>2. MailNames
  <2>1. \A a \in Address : a[2] \in 1..MaxName /\ sameAs[a] = a[2]
    BY PlaceParts DEF MailboxInit
  <2>2. sameAs \in [Address -> 1..MaxName] /\ \A a \in Address : sameAs[a] <= a[2]
    BY <2>1 DEF MailboxInit
  <2> QED  BY <2>2, MailboxAssumption DEF MailboxInit, MailNames
<1>3. MailCounts
  BY DEF MailboxInit, MailCounts
<1>4. MailSets
  BY DEF MailboxInit, MailSets
<1>5. MailSwitches
  BY DEF MailboxInit, MailSwitches
<1>6. MailKnown
  BY <1>0, <1>s, <1>n, <1>e, <1>2, PlaceParts DEF MailKnown, Known, KnownRows, MailNames
<1>7. MailTodo /\ Alone /\ StillThere
  BY <1>s, <1>n DEF MailTodo, Alone, StillThere, Busy
<1>8. PlainMaps
  BY <1>0, <1>s, <1>n, <1>e DEF PlainMaps, Plain, MailboxInit
<1>9. OrdersFit
  <2>1. \A a \in Address : orders[a] = 0 /\ turns[a[1]] = 0 /\ config[<<a[1], 0>>].kind = "none"
    BY <1>0, PlaceParts DEF MailboxInit
  <2> SUFFICES ASSUME NEW a \in Address
               PROVE  /\ orders[a] <= turns[a[1]] + Cardinality(Again(a, LastSeen(a[1])))
                      /\ config[<<a[1], 0>>].kind = "smime" /\ a[2] > config[<<a[1], 0>>].primary
                           => orders[a] < turns[a[1]]
    BY DEF OrdersFit
  <2>2. LastSeen(a[1]) = name[a[1]] /\ name[a[1]] \in Nat /\ listed[a[1]] = 0
    BY <2>1, <1>2, PlaceParts DEF LastSeen, MailNames, MailboxInit
  <2>3. Cardinality(Again(a, LastSeen(a[1]))) \in Nat
    BY <2>2, AgainGrows
  <2> QED  BY <2>1, <2>3
<1>10. ChoicesFit
  BY <1>s, <1>n, <1>w DEF ChoicesFit
<1>11. LaidOut
  <2>1. group["smime"] = {}
    BY DEF MailboxInit, Group
  <2> QED  BY <1>s, <1>n, <1>w, <2>1 DEF LaidOut
<1>12. Routes
  <2>1. group["sig"] = {} /\ group["smime"] = {}
    BY DEF MailboxInit, Group
  <2>2. Signing = {}
    BY <1>0, PlaceParts DEF Signing
  <2>3. Done("sig") /\ Done("smime") /\ ByGuid
    BY <1>0, <1>w, <2>1, <2>2 DEF Done, Target, ByGuid
  <2> QED  BY <1>s, <1>n, <2>3 DEF Routes, Comes
<1> QED  BY <1>1, <1>2, <1>3, <1>4, <1>5, <1>6, <1>7, <1>8, <1>9, <1>10, <1>11, <1>12 DEF MailShape

(* What each step makes of the request it is about; the others stay.        *)
OthersStay(s) == save' \in [Saver -> SaveRecord] /\ \A o \in Saver \ {s} : save'[o] = save[o]

LEMMA OneSaveMoves ==
  ASSUME MailTables, NEW s \in Saver, NEW r \in SaveRecord, save' = [save EXCEPT ![s] = r]
  PROVE  OthersStay(s) /\ save'[s] = r
BY DEF MailTables, OthersStay

LEMMA BeginSaveDoes ==
  ASSUME MailShape, NEW s \in Saver, BeginSave(s)
  PROVE  /\ OthersStay(s) /\ save'[s].at = "list" /\ save'[s].before = config
         /\ save'[s].rows \in Rows /\ save'[s].todo = <<>>
<1>a. MailTables
  BY DEF MailShape
<1>1. PICK rows \in Rows :
        save' = [save EXCEPT ![s] = [NoSave EXCEPT !.at = "list", !.rows = rows, !.before = config]]
  BY DEF BeginSave
<1>2. PICK r : r = [NoSave EXCEPT !.at = "list", !.rows = rows, !.before = config]
  OBVIOUS
<1>3. rows \in [Address -> Mode]
  BY <1>1 DEF Rows, Mode
<1>4. r \in SaveRecord
  BY <1>2, <1>3, <1>a, NoSaveShape DEF SaveRecord, MailTables
<1>5. r.at = "list" /\ r.before = config /\ r.rows = rows /\ r.todo = <<>>
  BY <1>2 DEF NoSave
<1> QED  BY <1>1, <1>2, <1>4, <1>5, <1>a, OneSaveMoves

LEMMA ListsFetched ==
  ASSUME MailNames, FetchList
  PROVE  /\ listed' \in [Mailbox -> 0..MaxName]
         /\ \A m \in Mailbox : listed'[m] <= name[m] /\ (listed'[m] = listed[m] \/ listed'[m] = name[m])
<1>1. CASE listed' = listed
  BY <1>1 DEF MailNames
<1>2. CASE listed' = name
  <2>1. \A m \in Mailbox : name[m] \in 0..MaxName /\ name[m] <= name[m]
    BY MailboxAssumption DEF MailNames
  <2> QED  BY <1>2, <2>1 DEF MailNames
<1> QED  BY <1>1, <1>2 DEF FetchList

LEMMA WriteConfigDoes ==
  ASSUME MailShape, NEW s \in Saver, WriteConfig(s)
  PROVE  /\ OthersStay(s) /\ save'[s].at = "order" /\ save'[s].before = NoSave.before
         /\ save'[s].rows = NoSave.rows /\ save'[s].todo = <<>>
         /\ save'[s].want["sig"] = {Member(listed', a) : a \in Chosen(save[s].rows)}
         /\ save[s].at = "list" /\ config' = Rebuilt(listed', save[s].rows, save[s].before)
         /\ save[s].rows \in [Address -> Mode] /\ save[s].before \in EntryMap /\ config' \in EntryMap
<1>a. MailTables /\ MailNames
  BY DEF MailShape
<1>1. PICK wanted : wanted = {Member(listed', a) : a \in Chosen(save[s].rows)}
  OBVIOUS
<1>2. save' = [save EXCEPT ![s] = [NoSave EXCEPT !.at = "order", !.want["sig"] = wanted]]
  BY <1>1 DEF WriteConfig
<1>3. PICK r : r = [NoSave EXCEPT !.at = "order", !.want["sig"] = wanted]
  OBVIOUS
<1>4. wanted \subseteq Address
  <2>1. listed' \in [Mailbox -> 0..MaxName]
    BY <1>a, ListsFetched DEF WriteConfig
  <2>2. ASSUME NEW a \in Address PROVE Member(listed', a) \in Address
    <3>1. CASE a[2] <= listed'[a[1]]
      <4>1. a[1] \in Mailbox /\ a[2] \in 1..MaxName /\ listed'[a[1]] \in 0..MaxName
        BY <2>1, PlaceParts
      <4>2. listed'[a[1]] \in 1..MaxName
        BY <4>1, <3>1, MailboxAssumption
      <4> QED  BY <3>1, <4>1, <4>2, <1>a, AddrParts DEF Member, Anchored
    <3>2. CASE ~(a[2] <= listed'[a[1]])
      BY <3>2 DEF Member, Anchored
    <3> QED  BY <3>1, <3>2
  <2> QED  BY <1>1, <2>2 DEF Chosen
<1>5. r.want \in [Group -> SUBSET Address] /\ r.want["sig"] = wanted
  BY <1>3, <1>4 DEF NoSave, Group
<1>6. r \in SaveRecord
  BY <1>3, <1>5, NoSaveShape DEF SaveRecord
<1>7. r.at = "order" /\ r.before = NoSave.before /\ r.rows = NoSave.rows /\ r.todo = <<>>
  BY <1>3 DEF NoSave
<1>8. save[s] \in SaveRecord
  BY <1>a DEF MailTables
<1>9. save[s].rows \in [Address -> Mode] /\ save[s].before \in EntryMap
  BY <1>8 DEF SaveRecord
<1>10. config' = Rebuilt(listed', save[s].rows, save[s].before) /\ save[s].at = "list"
  BY DEF WriteConfig
<1>11. config' \in EntryMap
  BY <1>9, <1>10, <1>a, ListsFetched, RebuiltShape DEF WriteConfig
<1> QED  BY <1>1, <1>2, <1>3, <1>5, <1>6, <1>7, <1>9, <1>10, <1>11, <1>a, OneSaveMoves

LEMMA OfKindShape ==
  ASSUME MailTables, MailNames, NEW k PROVE OfKind(k) \subseteq Address
<1>1. \A q \in Place : config[q].primary \in 0..MaxName
  BY DEF MailTables, EntryMap, MailEntry
<1>2. ASSUME NEW x \in OfKind(k) PROVE x \in Address
  <2>1. PICK p \in Place : x = AddressOf(p[1], config[p].primary) /\ config[p].primary # 0
    BY DEF OfKind
  <2>2. config[p].primary \in 1..MaxName /\ p[1] \in Mailbox
    BY <1>1, <2>1, PlaceParts, MailboxAssumption
  <2> QED  BY <2>1, <2>2, AddrParts
<1> QED  BY <1>2

LEMMA BeginUpdateDoes ==
  ASSUME MailShape, NEW s \in Saver, BeginUpdate(s)
  PROVE  /\ OthersStay(s) /\ save[s].at = "order" /\ save'[s].at = "add"
         /\ save'[s].before = save[s].before /\ save'[s].rows = save[s].rows
         /\ save'[s].todo = Scripts /\ save'[s].want = Planned(save[s].want)
         /\ save[s].want \in [Group -> SUBSET Address] /\ Scripts # <<>>
<1>a. MailTables /\ MailNames /\ MailSwitches
  BY DEF MailShape
<1>1. PICK w : w = Planned(save[s].want)
  OBVIOUS
<1>2. PICK t : t = Scripts
  OBVIOUS
<1>0. save' = [save EXCEPT ![s] = [save[s] EXCEPT !.at = "add", !.todo = Scripts,
                                                  !.want = Planned(save[s].want)]]
  BY DEF BeginUpdate
<1>3. save' = [save EXCEPT ![s] = [save[s] EXCEPT !.at = "add", !.todo = t, !.want = w]]
  BY <1>0, <1>1, <1>2
<1>4. save[s] \in SaveRecord
  BY <1>a DEF MailTables
<1>5. save[s].want \in [Group -> SUBSET Address]
  BY <1>4 DEF SaveRecord
<1>6. w \in [Group -> SUBSET Address]
  BY <1>1, <1>5, <1>a, OfKindShape DEF Planned
<1>7. t \in Scripted /\ t # <<>>
  BY <1>2 DEF Scripts, Scripted
<1>8. PICK r : r = [save[s] EXCEPT !.at = "add", !.todo = t, !.want = w]
  OBVIOUS
<1>9. r \in SaveRecord
  BY <1>4, <1>6, <1>7, <1>8 DEF SaveRecord
<1>10. r.at = "add" /\ r.before = save[s].before /\ r.rows = save[s].rows /\ r.todo = t /\ r.want = w
  BY <1>4, <1>8 DEF SaveRecord
<1> QED  BY <1>1, <1>2, <1>3, <1>5, <1>7, <1>8, <1>9, <1>10, <1>a, OneSaveMoves DEF BeginUpdate

LEMMA AddsDoes ==
  ASSUME MailShape, NEW s \in Saver, NEW g \in Group, NEW answered \in BOOLEAN, Adds(s, g, answered)
  PROVE  /\ OthersStay(s) /\ save[s].at = "add" /\ save'[s].at = "remove"
         /\ save'[s].before = save[s].before /\ save'[s].rows = save[s].rows
         /\ save'[s].todo = save[s].todo /\ Head(save[s].todo) = g
         /\ save'[s].cur = {Now(m) : m \in group[g]}
         /\ \A h \in Group \ {g, "scope"} : save'[s].want[h] = save[s].want[h]
         /\ g # "scope" => save'[s].want = save[s].want
         /\ save'[s].want \in [Group -> SUBSET Address]
<1>a. MailTables /\ MailNames /\ MailSets
  BY DEF MailShape
<1>1. PICK cur : cur = {Now(m) : m \in group[g]}
  OBVIOUS
<1>2. PICK want : want = IF g = "scope" THEN AppScope ELSE save[s].want[g]
  OBVIOUS
<1>3. save' = [save EXCEPT ![s] = [save[s] EXCEPT !.at = "remove", !.cur = cur,
                                                  !.want = [save[s].want EXCEPT ![g] = want]]]
  <2>1. save' = [save EXCEPT ![s] = [save[s] EXCEPT !.at = "remove",
                   !.cur = {Now(m) : m \in group[g]},
                   !.want = [save[s].want EXCEPT ![g] =
                               IF g = "scope" THEN AppScope ELSE save[s].want[g]]]]
    BY DEF Adds
  <2> QED  BY <1>1, <1>2, <2>1
<1>4. save[s] \in SaveRecord
  BY <1>a DEF MailTables
<1>5. save[s].want \in [Group -> SUBSET Address]
  BY <1>4 DEF SaveRecord
<1>6. cur \subseteq Address
  <2>1. \A m \in group[g] : m \in Mailbox
    BY <1>a DEF MailSets
  <2> QED  BY <1>1, <2>1, <1>a, NowParts
<1>7. want \subseteq Address
  <2>1. \A q \in Place : config[q].primary \in 0..MaxName
    BY <1>a DEF MailTables, EntryMap, MailEntry
  <2>2. ASSUME NEW x \in AppScope PROVE x \in Address
    <3>1. PICK p \in Place : x = AddressOf(p[1], config[p].primary) /\ config[p].primary # 0
      BY DEF AppScope
    <3>2. config[p].primary \in 1..MaxName /\ p[1] \in Mailbox
      BY <2>1, <3>1, PlaceParts, MailboxAssumption
    <3> QED  BY <3>1, <3>2, <1>a, AddrParts
  <2> QED  BY <1>2, <1>5, <2>2
<1>8. PICK w : w = [save[s].want EXCEPT ![g] = want]
  OBVIOUS
<1>9. w \in [Group -> SUBSET Address] /\ (\A h \in Group \ {g} : w[h] = save[s].want[h])
      /\ (g # "scope" => w = save[s].want)
  BY <1>2, <1>5, <1>7, <1>8
<1>10. PICK r : r = [save[s] EXCEPT !.at = "remove", !.cur = cur, !.want = w]
  OBVIOUS
<1>11. r \in SaveRecord
  BY <1>4, <1>6, <1>9, <1>10 DEF SaveRecord
<1>12. /\ r.at = "remove" /\ r.before = save[s].before /\ r.rows = save[s].rows
       /\ r.todo = save[s].todo /\ r.want = w /\ r.cur = cur
  BY <1>4, <1>10 DEF SaveRecord
<1>13. save' = [save EXCEPT ![s] = r]
  BY <1>3, <1>8, <1>10
<1>14. OthersStay(s) /\ save'[s] = r
  BY <1>11, <1>13, <1>a, OneSaveMoves
<1> QED  BY <1>1, <1>9, <1>12, <1>14 DEF Adds, AtGroup

(* The order of the groups, written out.                                    *)
LEMMA TodoParts ==
  ASSUME NEW todo \in Scripted, todo # <<>>
  PROVE  /\ Head(todo) \in Group /\ (Len(todo) = 1 <=> todo = <<"scope">>)
         /\ Len(todo) # 1 => Tail(todo) \in Scripted \ {<<>>}
         /\ Head(todo) = "scope" <=> todo = <<"scope">>
         /\ todo = <<"sig", "smime", "scope">> => Tail(todo) = <<"smime", "scope">>
         /\ todo = <<"smime", "scope">> => Tail(todo) = <<"scope">>
         /\ todo = <<"sig", "scope">> => Tail(todo) = <<"scope">>
         /\ Head(todo) = "smime" <=> todo = <<"smime", "scope">>
         /\ Head(todo) = "sig" <=> todo \in {<<"sig", "scope">>, <<"sig", "smime", "scope">>}
<1>1. CASE todo = <<"sig", "smime", "scope">>
  <2>1. Head(todo) = "sig" /\ Len(todo) = 3 /\ Tail(todo) = <<"smime", "scope">>
    BY <1>1
  <2>2. todo # <<"scope">> /\ todo # <<"smime", "scope">> /\ todo # <<"sig", "scope">>
    BY <1>1
  <2> QED  BY <1>1, <2>1, <2>2 DEF Scripted, Group
<1>2. CASE todo = <<"smime", "scope">>
  <2>1. Head(todo) = "smime" /\ Len(todo) = 2 /\ Tail(todo) = <<"scope">>
    BY <1>2
  <2>2. todo # <<"scope">> /\ todo # <<"sig", "smime", "scope">> /\ todo # <<"sig", "scope">>
    BY <1>2
  <2> QED  BY <1>2, <2>1, <2>2 DEF Scripted, Group
<1>3. CASE todo = <<"sig", "scope">>
  <2>1. Head(todo) = "sig" /\ Len(todo) = 2 /\ Tail(todo) = <<"scope">>
    BY <1>3
  <2>2. todo # <<"scope">> /\ todo # <<"sig", "smime", "scope">> /\ todo # <<"smime", "scope">>
    BY <1>3
  <2> QED  BY <1>3, <2>1, <2>2 DEF Scripted, Group
<1>4. CASE todo = <<"scope">>
  <2>1. Head(todo) = "scope" /\ Len(todo) = 1
    BY <1>4
  <2>2. todo # <<"sig", "scope">> /\ todo # <<"sig", "smime", "scope">> /\ todo # <<"smime", "scope">>
    BY <1>4
  <2> QED  BY <1>4, <2>1, <2>2 DEF Scripted, Group
<1> QED  BY <1>1, <1>2, <1>3, <1>4 DEF Scripted

LEMMA NextGroupDoes ==
  ASSUME NEW r \in SaveRecord, r.todo # <<>>
  PROVE  /\ NextGroup(r) \in SaveRecord
         /\ r.todo = <<"scope">> => NextGroup(r) = NoSave
         /\ r.todo # <<"scope">> =>
              /\ NextGroup(r).at = "add" /\ NextGroup(r).todo = Tail(r.todo)
              /\ Tail(r.todo) # <<>>
              /\ NextGroup(r).want = r.want
              /\ NextGroup(r).before = r.before /\ NextGroup(r).rows = r.rows
<1>1. r.todo \in Scripted
  BY DEF SaveRecord
<1>2. CASE r.todo = <<"scope">>
  BY <1>1, <1>2, TodoParts, NoSaveShape DEF NextGroup
<1>3. CASE r.todo # <<"scope">>
  <2>1. Len(r.todo) # 1 /\ Tail(r.todo) \in Scripted \ {<<>>}
    BY <1>1, <1>3, TodoParts
  <2>2. NextGroup(r) = [r EXCEPT !.at = "add", !.todo = Tail(r.todo)]
    BY <2>1 DEF NextGroup
  <2>3. PICK t : t = Tail(r.todo)
    OBVIOUS
  <2>4. NextGroup(r) \in SaveRecord /\ NextGroup(r).at = "add" /\ NextGroup(r).todo = t
        /\ NextGroup(r).want = r.want
        /\ NextGroup(r).before = r.before /\ NextGroup(r).rows = r.rows
    BY <2>1, <2>2, <2>3 DEF SaveRecord
  <2> QED  BY <1>3, <2>1, <2>3, <2>4
<1> QED  BY <1>2, <1>3

LEMMA RemovesDoes ==
  ASSUME MailShape, MailTodo, NEW s \in Saver, NEW g \in Group, Removes(s, g)
  PROVE  /\ OthersStay(s) /\ save[s].at = "remove" /\ Head(save[s].todo) = g
         /\ save[s].todo \in Scripted \ {<<>>}
         /\ save[s].todo = <<"scope">> => save'[s] = NoSave
         /\ save[s].todo # <<"scope">> =>
              /\ save'[s].at = "add" /\ save'[s].todo = Tail(save[s].todo)
              /\ save'[s].todo # <<>> /\ save'[s].want = save[s].want
              /\ save'[s].before = save[s].before /\ save'[s].rows = save[s].rows
<1>1. MailTables
  BY DEF MailShape
<1>2. save[s] \in SaveRecord /\ save[s].at = "remove" /\ Head(save[s].todo) = g
  BY <1>1 DEF MailTables, Removes, AtGroup
<1>3. save[s].todo # <<>> /\ save[s].todo \in Scripted
  BY <1>2 DEF MailTodo, SaveRecord
<1>4. PICK r : r = NextGroup(save[s])
  OBVIOUS
<1>5. save' = [save EXCEPT ![s] = r] /\ r \in SaveRecord
  BY <1>2, <1>3, <1>4, NextGroupDoes DEF Removes
<1>6. OthersStay(s) /\ save'[s] = r
  BY <1>1, <1>5, OneSaveMoves
<1>7. CASE save[s].todo = <<"scope">>
  BY <1>2, <1>3, <1>4, <1>6, <1>7, NextGroupDoes
<1>8. CASE save[s].todo # <<"scope">>
  <2>1. /\ NextGroup(save[s]).at = "add" /\ NextGroup(save[s]).todo = Tail(save[s].todo)
        /\ Tail(save[s].todo) # <<>> /\ NextGroup(save[s]).want = save[s].want
        /\ NextGroup(save[s]).before = save[s].before /\ NextGroup(save[s]).rows = save[s].rows
    BY <1>2, <1>3, <1>8, NextGroupDoes
  <2> QED  BY <1>2, <1>3, <1>4, <1>6, <1>8, <2>1
<1> QED  BY <1>7, <1>8

LEMMA ScriptAbortsDoes ==
  ASSUME MailShape, MailTodo, NEW s \in Saver, ScriptAborts(s)
  PROVE  /\ OthersStay(s) /\ save[s].at \in {"add", "remove"}
         /\ \/ save'[s] = NoSave
            \/ /\ save'[s].at = "add" /\ save'[s].todo = <<"scope">>
               /\ save'[s].before = save[s].before /\ save'[s].rows = save[s].rows
<1>1. MailTables
  BY DEF MailShape
<1>2. save[s] \in SaveRecord /\ save[s].at \in {"add", "remove"}
  BY <1>1 DEF MailTables, ScriptAborts
<1>3. PICK r : r = IF Head(save[s].todo) = "scope" THEN NoSave
                   ELSE [save[s] EXCEPT !.at = "add", !.todo = <<"scope">>]
  OBVIOUS
<1>4. save' = [save EXCEPT ![s] = r]
  BY <1>3 DEF ScriptAborts
<1>5. r \in SaveRecord
  BY <1>2, <1>3, NoSaveShape DEF SaveRecord, Scripted
<1>6. \/ r = NoSave
      \/ r.at = "add" /\ r.todo = <<"scope">> /\ r.before = save[s].before /\ r.rows = save[s].rows
  BY <1>2, <1>3 DEF SaveRecord
<1> QED  BY <1>1, <1>2, <1>4, <1>5, <1>6, OneSaveMoves

LEMMA MailRestartDoes ==
  ASSUME MailboxRestart
  PROVE  /\ save' \in [Saver -> SaveRecord] /\ \A s \in Saver : save'[s] = NoSave
         /\ listed' \in [Mailbox -> 0..MaxName] /\ \A m \in Mailbox : listed'[m] = 0
BY NoSaveShape, MailboxAssumption DEF MailboxRestart

LEMMA SelfServiceDoes ==
  ASSUME MailTables, NEW m \in Mailbox, SelfService(m)
  PROVE  /\ config' \in EntryMap
         /\ \A p \in Place : config'[p].kind = config[p].kind /\ config'[p].primary = config[p].primary
         /\ \A p \in Place : config[p].own => config'[p].own
         /\ \E p \in Place : p[1] = m /\ config[p].kind # "none" /\ config'[p].own
<1>1. PICK p \in Place : /\ p[1] = m /\ config[p].kind # "none"
                         /\ config' = [config EXCEPT ![p].own = TRUE]
  BY DEF SelfService
<1>2. \A q \in Place : config[q] \in MailEntry
  BY DEF MailTables, EntryMap
<1>3. PICK e : e = [config[p] EXCEPT !.own = TRUE]
  OBVIOUS
<1>4. e \in MailEntry /\ e.kind = config[p].kind /\ e.primary = config[p].primary /\ e.own
  BY <1>2, <1>3 DEF MailEntry
<1>5. config' = [config EXCEPT ![p] = e]
  BY <1>1, <1>3
<1>6. config' \in EntryMap /\ \A q \in Place : config'[q] = IF q = p THEN e ELSE config[q]
  BY <1>4, <1>5 DEF MailTables, EntryMap
<1> QED  BY <1>1, <1>4, <1>6

LEMMA MigrateDoes ==
  ASSUME MailShape, Migrate
  PROVE  /\ config' \in EntryMap
         /\ \E p \in Place : p[2] # 0 /\ config[p].kind # "none"
         /\ \A p \in Place :
              \/ config'[p] = NoEntry
              \/ config'[p] = config[p]
              \/ p[2] = 0 /\ config'[p].primary = listed'[p[1]] /\ config'[p].kind # "none"
<1>a. MailTables /\ MailNames
  BY DEF MailShape
<1> DEFINE from(m) == {p \in Place : p[1] = m /\ config[p].kind # "none"
                                        /\ (p[2] = 0 \/ Anchored(listed', p))}
           merged(m, first) ==
               [kind |-> IF \E p \in from(m) : config[p].kind = "smime" THEN "smime" ELSE "sig",
                primary |-> listed'[m], own |-> config[<<m, first>>].own]
<1>1. PICK first \in [Mailbox -> 0..MaxName] :
        /\ \A m \in Mailbox : from(m) # {} => <<m, first[m]>> \in from(m)
        /\ config' = [p \in Place |->
              IF p[2] # 0 THEN IF Anchored(listed', p) THEN NoEntry ELSE config[p]
              ELSE IF from(p[1]) = {} THEN NoEntry ELSE merged(p[1], first[p[1]])]
  BY DEF Migrate
<1>2. ASSUME NEW m \in Mailbox, from(m) # {} PROVE merged(m, first[m]) \in MailEntry
  <2>1. <<m, first[m]>> \in Place
    BY <1>1, <1>2
  <2>2. config[<<m, first[m]>>] \in MailEntry
    BY <2>1, <1>a DEF MailTables, EntryMap
  <2>3. listed'[m] \in 0..MaxName
    BY <1>a, ListsFetched DEF Migrate
  <2> QED  BY <2>2, <2>3 DEF MailEntry, Mode
<1>3. ASSUME NEW p \in Place
      PROVE  /\ config'[p] \in MailEntry
             /\ \/ config'[p] = NoEntry
                \/ config'[p] = config[p]
                \/ p[2] = 0 /\ config'[p].primary = listed'[p[1]] /\ config'[p].kind # "none"
  <2>0. p[1] \in Mailbox /\ config[p] \in MailEntry
    BY PlaceParts, <1>a DEF MailTables, EntryMap
  <2>1. CASE p[2] # 0
    BY <1>1, <2>0, <2>1, NoSaveShape
  <2>2. CASE p[2] = 0 /\ from(p[1]) = {}
    <3>1. config'[p] = NoEntry
      BY <1>1, <2>2
    <3> QED  BY <3>1, NoSaveShape
  <2>3. CASE p[2] = 0 /\ from(p[1]) # {}
    <3>1. config'[p] = merged(p[1], first[p[1]])
      BY <1>1, <2>3
    <3>2. merged(p[1], first[p[1]]) \in MailEntry
      BY <1>2, <2>0, <2>3
    <3> QED  BY <2>3, <3>1, <3>2
  <2> QED  BY <2>1, <2>2, <2>3
<1>4. DOMAIN config' = Place /\ config' = [p \in Place |-> config'[p]]
  BY <1>1
<1>5. \E p \in Place : p[2] # 0 /\ config[p].kind # "none"
  BY DEF Migrate
<1> HIDE DEF from, merged
<1> QED  BY <1>3, <1>4, <1>5 DEF EntryMap

(* What a new map is made of.                                               *)
LEMMA RebuiltEntry ==
  ASSUME NEW list, NEW rows, NEW before, NEW p \in Place
  PROVE  LET here == {a \in Chosen(rows) : PlaceOf(list, a) = p}
             e == Rebuilt(list, rows, before)[p]
         IN  /\ here = {} => e = NoEntry
             /\ here # {} => e.kind \in {"sig", "smime"} /\ e.own = before[p].own
                             /\ e.primary = IF p[2] = 0 THEN list[p[1]] ELSE 0
<1> DEFINE here == {a \in Chosen(rows) : PlaceOf(list, a) = p}
<1>1. PICK k : k = IF \E a \in here : rows[a] = "smime" THEN "smime" ELSE "sig"
  OBVIOUS
<1>2. Rebuilt(list, rows, before)[p] =
        IF here = {} THEN NoEntry
        ELSE [kind |-> k, primary |-> IF p[2] = 0 THEN list[p[1]] ELSE 0, own |-> before[p].own]
  BY <1>1 DEF Rebuilt
<1> HIDE DEF here
<1> QED  BY <1>1, <1>2 DEF here

LEMMA RebuiltKnown ==
  ASSUME MailNames, NEW list \in [Mailbox -> 0..MaxName], \A m \in Mailbox : list[m] <= name[m],
         NEW rows \in [Address -> Mode], KnownRows(rows), NEW before
  PROVE  Known(Rebuilt(list, rows, before))
<1> SUFFICES ASSUME NEW p \in Place
             PROVE  LET e == Rebuilt(list, rows, before)[p]
                    IN  /\ e.kind # "none" => p[2] <= name[p[1]]
                        /\ e.primary <= name[p[1]]
                        /\ e.kind = "none" => e.primary = 0
  BY DEF Known
<1> DEFINE here == {a \in Chosen(rows) : PlaceOf(list, a) = p}
<1>0. p[1] \in Mailbox /\ name[p[1]] \in 1..MaxName /\ list[p[1]] \in 0..MaxName
  BY PlaceParts DEF MailNames
<1>1. CASE here = {}
  <2>1. Rebuilt(list, rows, before)[p] = NoEntry
    BY <1>1, RebuiltEntry
  <2> QED  BY <1>0, <2>1 DEF NoEntry
<1>2. CASE here # {}
  <2>1. PICK a \in Address : rows[a] # "none" /\ PlaceOf(list, a) = p
    BY <1>2 DEF Chosen
  <2>2. a[2] <= name[a[1]] /\ a[2] \in 1..MaxName
    BY <2>1, PlaceParts DEF KnownRows
  <2>3. p[2] <= name[p[1]]
    BY <1>0, <2>1, <2>2 DEF PlaceOf
  <2>4. LET e == Rebuilt(list, rows, before)[p]
        IN  e.kind \in {"sig", "smime"} /\ e.primary = IF p[2] = 0 THEN list[p[1]] ELSE 0
    BY <1>2, RebuiltEntry
  <2> QED  BY <1>0, <2>3, <2>4
<1> QED  BY <1>1, <1>2

LEMMA RebuiltListed ==
  ASSUME NEW list \in [Mailbox -> 0..MaxName], NEW rows \in [Address -> Mode], NEW before,
         \A a \in Chosen(rows) : a[2] <= list[a[1]], NEW p \in Place
  PROVE  LET e == Rebuilt(list, rows, before)[p]
         IN  /\ e.kind # "none" => /\ p[2] = 0 /\ e.primary = list[p[1]] /\ list[p[1]] # 0
                                   /\ e.own = before[p].own
             /\ e.kind = "none" => e.primary = 0
             /\ e.kind # "none" <=> p[2] = 0 /\ \E a \in Chosen(rows) : a[1] = p[1]
<1> DEFINE here == {a \in Chosen(rows) : PlaceOf(list, a) = p}
<1>0. p[1] \in Mailbox /\ list[p[1]] \in 0..MaxName /\ p = <<p[1], p[2]>>
  BY PlaceParts
<1>a. \A a \in Chosen(rows) : PlaceOf(list, a) = <<a[1], 0>> /\ a[2] \in 1..MaxName
  BY PlaceParts DEF PlaceOf, Anchored, Chosen
<1>1. CASE here = {}
  <2>1. Rebuilt(list, rows, before)[p] = NoEntry
    BY <1>1, RebuiltEntry
  <2>2. ~(p[2] = 0 /\ \E a \in Chosen(rows) : a[1] = p[1])
    BY <1>0, <1>1, <1>a
  <2> QED  BY <2>1, <2>2 DEF NoEntry
<1>2. CASE here # {}
  <2>1. PICK a \in Chosen(rows) : PlaceOf(list, a) = p
    BY <1>2
  <2>2. p[2] = 0 /\ a[1] = p[1] /\ list[p[1]] # 0
    BY <1>0, <1>a, <2>1
  <2>3. LET e == Rebuilt(list, rows, before)[p]
        IN  e.kind \in {"sig", "smime"} /\ e.own = before[p].own
            /\ e.primary = IF p[2] = 0 THEN list[p[1]] ELSE 0
    BY <1>2, RebuiltEntry
  <2> QED  BY <2>1, <2>2, <2>3
<1> QED  BY <1>1, <1>2

LEMMA RowsKnown ==
  ASSUME MailTables, MailNames, Known(config), NEW rows \in Rows PROVE KnownRows(rows)
<1> SUFFICES ASSUME NEW a \in Address, rows[a] # "none" PROVE a[2] <= name[a[1]]
  BY DEF KnownRows
<1>0. a \in Place /\ a[1] \in Mailbox /\ <<a[1], 0>> \in Place /\ name[a[1]] \in 1..MaxName /\ 1 <= name[a[1]]
  BY PlaceParts DEF MailNames
<1>1. Shows(a)
  BY DEF Rows
<1>2. listed[a[1]] <= name[a[1]] /\ config[<<a[1], 0>>].primary <= name[a[1]]
  <2>1. <<a[1], 0>>[1] = a[1]
    OBVIOUS
  <2> QED  BY <1>0, <2>1 DEF MailNames, Known
<1>3. config[a].kind # "none" => a[2] <= name[a[1]]
  BY <1>0 DEF Known
<1>5. config[<<a[1], 0>>].primary \in 0..MaxName
  BY <1>0 DEF MailTables, EntryMap, MailEntry
<1>4. ASSUME NEW n \in {1, listed[a[1]], config[<<a[1], 0>>].primary} \ {0}, a = AddressOf(a[1], n)
      PROVE  a[2] <= name[a[1]]
  <2>1. n \in 1..MaxName /\ n <= name[a[1]]
    <3>1. name[a[1]] \in 1..MaxName /\ listed[a[1]] \in 0..MaxName
      BY <1>0 DEF MailNames
    <3> QED  BY <1>2, <1>5, <3>1, MailboxAssumption
  <2>2. a[2] \in 1..MaxName /\ a[2] <= n
    BY <1>0, <1>4, <2>1, AddrParts
  <2> QED  BY <1>0, <2>1, <2>2
<1> QED  BY <1>1, <1>3, <1>4 DEF Shows

LEMMA NothingSaved ==
  /\ \A p \in Place : NoSave.before[p].kind = "none" /\ NoSave.before[p].primary = 0
  /\ \A a \in Address : NoSave.rows[a] = "none"
  /\ NoSave.at = "idle" /\ NoSave.todo = <<>>
BY DEF NoSave, NoEntry

LEMMA SeenParts ==
  ASSUME MailTables, MailNames, Known(config), NEW m \in Mailbox
  PROVE  LastSeen(m) \in 0..MaxName /\ LastSeen(m) <= name[m]
<1>1. config[<<m, 0>>].primary \in 0..MaxName
  BY PlaceParts DEF MailTables, EntryMap, MailEntry
<1>2. config[<<m, 0>>].primary <= name[m]
  <2>1. <<m, 0>> \in Place /\ <<m, 0>>[1] = m
    BY PlaceParts
  <2> QED  BY <2>1 DEF Known
<1>3. name[m] \in 1..MaxName /\ listed[m] \in 0..MaxName /\ listed[m] <= name[m]
  BY DEF MailNames
<1> QED  BY <1>1, <1>2, <1>3 DEF LastSeen

(* What orders nothing and changes no entry keeps the count, while names    *)
(* only get added.                                                          *)
LEMMA OrdersKept ==
  ASSUME OrdersFit, MailTables, MailNames, Known(config), MailCounts, MailTables', MailNames', Known(config)',
         ever \subseteq ever', UNCHANGED <<turns, orders>>,
         \A p \in Place : config'[p].kind = config[p].kind /\ config'[p].primary = config[p].primary,
         \A a \in Address : a[2] <= name[a[1]] => sameAs'[a] = sameAs[a],
         \A m \in Mailbox : name[m] <= name'[m] /\ listed'[m] \in {0, listed[m]}
  PROVE  OrdersFit'
<1> SUFFICES ASSUME ever \cap {"unlisted", "crossed"} = {}, NEW a \in Address
             PROVE  /\ orders[a] <= turns[a[1]] + Cardinality(Again(a, LastSeen(a[1]))')
                    /\ config'[<<a[1], 0>>].kind = "smime" /\ a[2] > config'[<<a[1], 0>>].primary
                         => orders[a] < turns[a[1]]
  BY DEF OrdersFit
<1> DEFINE m == a[1]
<1>0. m \in Mailbox /\ a[2] + 1 \in Nat /\ <<m, 0>> \in Place /\ \A n \in 1..MaxName : <<m, n>> \in Address
  BY PlaceParts
<1>1. /\ orders[a] <= turns[m] + Cardinality(Again(a, LastSeen(m)))
      /\ config[<<m, 0>>].kind = "smime" /\ a[2] > config[<<m, 0>>].primary => orders[a] < turns[m]
  BY DEF OrdersFit
<1>2. LastSeen(m) \in 0..MaxName /\ LastSeen(m) <= name[m] /\ LastSeen(m)' \in 0..MaxName
  <2>1. LastSeen(m) \in 0..MaxName /\ LastSeen(m) <= name[m]
    BY <1>0, SeenParts
  <2>2. config'[<<m, 0>>].primary \in 0..MaxName
    BY <1>0 DEF MailTables, EntryMap, MailEntry
  <2>3. name'[m] \in 1..MaxName /\ listed'[m] \in 0..MaxName
    BY <1>0 DEF MailNames
  <2> QED  BY <2>1, <2>2, <2>3 DEF LastSeen
<1>3. LastSeen(m) <= LastSeen(m)'
  <2>1. config'[<<m, 0>>].kind = config[<<m, 0>>].kind /\ config'[<<m, 0>>].primary = config[<<m, 0>>].primary
    BY <1>0
  <2>2. name[m] \in Nat /\ name'[m] \in Nat /\ name[m] <= name'[m] /\ listed[m] <= name[m]
        /\ listed[m] \in Nat /\ listed'[m] \in {0, listed[m]}
    BY <1>0 DEF MailNames
  <2> QED  BY <1>2, <2>1, <2>2 DEF LastSeen
<1>4. \A n \in (a[2] + 1)..LastSeen(m) : AddressOf(m, n)' = AddressOf(m, n)
  <2>1. ASSUME NEW n \in (a[2] + 1)..LastSeen(m) PROVE sameAs'[<<m, n>>] = sameAs[<<m, n>>]
    <3>1. n \in 1..MaxName /\ n <= name[m]
      <4>1. a[2] \in 1..MaxName /\ name[m] \in 1..MaxName
        BY <1>0, PlaceParts DEF MailNames
      <4>2. n \in Nat /\ a[2] + 1 <= n /\ n <= LastSeen(m)
        BY <1>0, <1>2, <2>1
      <4> QED  BY <4>1, <4>2, <1>2, MailboxAssumption
    <3>2. <<m, n>> \in Address /\ <<m, n>>[1] = m /\ <<m, n>>[2] = n
      BY <1>0, <3>1
    <3> QED  BY <3>1, <3>2
  <2> QED  BY <2>1 DEF AddressOf
<1>5. Again(a, LastSeen(m)) \subseteq Again(a, LastSeen(m))' /\ Again(a, LastSeen(m))' \subseteq (a[2] + 1)..LastSeen(m)'
  BY <1>0, <1>2, <1>3, <1>4 DEF Again
<1>6. /\ Cardinality(Again(a, LastSeen(m))) \in Nat /\ Cardinality(Again(a, LastSeen(m))') \in Nat
      /\ Cardinality(Again(a, LastSeen(m))) <= Cardinality(Again(a, LastSeen(m))')
  BY <1>0, <1>2, <1>5, CountsGrow
<1>7. turns[m] \in Nat /\ orders[a] \in Nat
  BY <1>0 DEF MailCounts
<1> HIDE DEF m
<1>8. orders[a] <= turns[m] + Cardinality(Again(a, LastSeen(m))')
  BY <1>1, <1>6, <1>7
<1> QED  BY <1>0, <1>1, <1>8 DEF m

(* Names only grow: what was known stays known.                             *)
LEMMA KnownGrows ==
  ASSUME MailNames, MailNames', \A m \in Mailbox : name[m] <= name'[m],
         NEW c, \A p \in Place : c[p].primary \in 0..MaxName, Known(c), NEW p \in Place
  PROVE  /\ c[p].kind # "none" => p[2] <= name'[p[1]]
         /\ c[p].primary <= name'[p[1]]
         /\ c[p].kind = "none" => c[p].primary = 0
<1>1. p[1] \in Mailbox /\ p[2] \in 0..MaxName
  BY PlaceParts
<1>2. name[p[1]] \in 1..MaxName /\ name'[p[1]] \in 1..MaxName /\ name[p[1]] <= name'[p[1]]
  BY <1>1 DEF MailNames
<1>3. c[p].kind # "none" => p[2] <= name[p[1]]
  BY DEF Known
<1>4. c[p].primary <= name[p[1]] /\ (c[p].kind = "none" => c[p].primary = 0)
  BY DEF Known
<1> QED  BY <1>1, <1>2, <1>3, <1>4

LEMMA RowsGrow ==
  ASSUME MailNames, MailNames', \A m \in Mailbox : name[m] <= name'[m],
         NEW r, KnownRows(r), NEW a \in Address, r[a] # "none"
  PROVE  a[2] <= name'[a[1]]
<1>1. a[1] \in Mailbox /\ a[2] \in 1..MaxName
  BY PlaceParts
<1>2. name[a[1]] \in 1..MaxName /\ name'[a[1]] \in 1..MaxName /\ name[a[1]] <= name'[a[1]]
  BY <1>1 DEF MailNames
<1>3. a[2] <= name[a[1]]
  BY DEF KnownRows
<1> QED  BY <1>1, <1>2, <1>3

LEMMA KnownKept ==
  ASSUME MailTables, MailKnown, MailNames, MailNames', \A m \in Mailbox : name[m] <= name'[m],
         Known(config)' \/ UNCHANGED config,
         \A s \in Saver : /\ save'[s].before \in {save[s].before, NoSave.before, config}
                          /\ \/ save'[s].rows \in {save[s].rows, NoSave.rows}
                             \/ KnownRows(save'[s].rows)
  PROVE  MailKnown'
<1>t. /\ \A p \in Place : config[p].primary \in 0..MaxName /\ NoSave.before[p].primary \in 0..MaxName
      /\ \A s \in Saver : \A p \in Place : save[s].before[p].primary \in 0..MaxName
  BY NothingSaved, MailboxAssumption DEF MailTables, SaveRecord, EntryMap, MailEntry
<1>k. Known(NoSave.before) /\ KnownRows(NoSave.rows)
  <2>1. \A p \in Place : 0 <= name[p[1]]
    BY PlaceParts DEF MailNames
  <2> QED  BY <2>1, NothingSaved DEF Known, KnownRows
<1>1. Known(config)'
  <2>1. CASE UNCHANGED config
    <3>1. ASSUME NEW p \in Place
          PROVE  /\ config[p].kind # "none" => p[2] <= name'[p[1]]
                 /\ config[p].primary <= name'[p[1]]
                 /\ config[p].kind = "none" => config[p].primary = 0
      BY <1>t, KnownGrows DEF MailKnown
    <3> QED  BY <2>1, <3>1 DEF Known
  <2> QED  BY <2>1
<1>2. ASSUME NEW s \in Saver PROVE Known(save[s].before)'
  <2>1. PICK c : c = save'[s].before
    OBVIOUS
  <2>2. Known(c) /\ \A p \in Place : c[p].primary \in 0..MaxName
    BY <2>1, <1>t, <1>k DEF MailKnown
  <2>3. ASSUME NEW p \in Place
        PROVE  /\ c[p].kind # "none" => p[2] <= name'[p[1]]
               /\ c[p].primary <= name'[p[1]]
               /\ c[p].kind = "none" => c[p].primary = 0
    BY <2>2, KnownGrows
  <2> QED  BY <2>1, <2>3 DEF Known
<1>3. ASSUME NEW s \in Saver PROVE KnownRows(save[s].rows)'
  <2>1. PICK r : r = save'[s].rows
    OBVIOUS
  <2>2. KnownRows(r)
    BY <2>1, <1>k DEF MailKnown
  <2>3. ASSUME NEW a \in Address, r[a] # "none" PROVE a[2] <= name'[a[1]]
    BY <2>2, <2>3, RowsGrow
  <2> QED  BY <2>1, <2>3 DEF KnownRows
<1> QED  BY <1>1, <1>2, <1>3 DEF MailKnown

LEMMA AloneKept ==
  ASSUME Alone, \A s \in Saver : save'[s].at # "idle" => save[s].at # "idle",
         "crossed" \in why \cap ever => "crossed" \in why' \cap ever'
  PROVE  Alone'
BY DEF Alone, Busy

LEMMA PlainKept ==
  ASSUME PlainMaps, UNCHANGED config, ever \subseteq ever',
         \A m \in Mailbox : listed'[m] = 0 \/ listed'[m] = listed[m],
         \A s \in Saver : save'[s].before \in {save[s].before, NoSave.before, config}
  PROVE  PlainMaps'
<1> SUFFICES ASSUME "unlisted" \notin ever
             PROVE  /\ Plain(config)' /\ \A s \in Saver : Plain(save[s].before)'
                    /\ \A m \in Mailbox : listed'[m] = 0 \/ config'[<<m, 0>>].primary <= listed'[m]
  BY DEF PlainMaps
<1>1. Plain(config) /\ Plain(NoSave.before) /\ \A s \in Saver : Plain(save[s].before)
  BY NothingSaved DEF PlainMaps, Plain
<1>2. \A s \in Saver : Plain(save'[s].before)
  BY <1>1
<1>3. \A m \in Mailbox : listed'[m] = 0 \/ config'[<<m, 0>>].primary <= listed'[m]
  BY DEF PlainMaps
<1> QED  BY <1>1, <1>2, <1>3 DEF Plain

LEMMA StillThereKept ==
  ASSUME StillThere, ever \subseteq ever',
         \A p \in Place : config'[p].kind = config[p].kind /\ config'[p].primary = config[p].primary,
         \A s \in Saver : save'[s].at = "list" => save'[s] = save[s] \/ save'[s].before = config
  PROVE  StillThere'
BY DEF StillThere

LEMMA ChoicesKeep ==
  ASSUME ChoicesFit, ever \subseteq ever', UNCHANGED <<config, chose>>,
         \A s \in Saver : save'[s].at = "list" => save'[s] = save[s] \/ save'[s].before = config
  PROVE  ChoicesFit'
BY DEF ChoicesFit

LEMMA LaidOutKept ==
  ASSUME LaidOut, LaidOut, split' = split \/ split', laidOut' = laidOut,
         group'["smime"] = group["smime"] \/ laidOut, ruleOn' \subseteq ruleOn \cup {"sig"} \/ laidOut,
         \A s \in Saver : save'[s].todo \in {save[s].todo, <<>>, <<"scope">>}
  PROVE  LaidOut'
BY DEF LaidOut

LEMMA RoutesKept ==
  ASSUME Routes, why \subseteq why', UNCHANGED <<name, sameAs, group, ruleOn, laidOut, save>>,
         \A p \in Place : config'[p].kind = config[p].kind /\ config'[p].primary = config[p].primary
  PROVE  Routes'
<1> SUFFICES ASSUME why = {}
             PROVE  /\ \A s \in Saver : Comes(s)'
                    /\ (\A s \in Saver : ~Busy(s)') => ByGuid' /\ Done("sig")' /\ Done("smime")'
  BY DEF Routes
<1>1. Signing' = Signing /\ Ciphering' = Ciphering
  BY PlaceParts DEF Signing, Ciphering
<1>2. \A g \in {"sig", "smime"} : Target(g)' = Target(g)
  BY <1>1 DEF Target
<1>3. \A g \in {"sig", "smime"} : Done(g)' <=> Done(g)
  BY <1>2 DEF Done
<1>4. (ByGuid' <=> ByGuid) /\ (ByName' <=> ByName)
  BY DEF ByGuid, ByName
<1>5. \A s \in Saver : Busy(s)' <=> Busy(s)
  BY DEF Busy
<1>7. \A m : Now(m)' = Now(m)
  BY DEF Now, AddressOf
<1>6. ASSUME NEW s \in Saver PROVE Comes(s)'
  <2>1. Comes(s)
    BY DEF Routes
  <2>2. PICK r : r = save[s]
    OBVIOUS
  <2>3. r = save'[s]
    BY <2>2
  <2>4. r.at = "order" => ByName' /\ r.want["sig"] = Addressed(Signing)'
    BY <2>1, <2>2, <1>1, <1>4, <1>7 DEF Comes, Addressed
  <2>5. r.at \in {"add", "remove"} =>
           /\ ByName' /\ r.want["sig"] = Addressed(Target("sig"))'
           /\ laidOut' => r.want["smime"] = Addressed(Ciphering)'
           /\ \A g \in {"sig", "smime"} : ToCome(g, r.todo) \/ Done(g)'
    BY <2>1, <2>2, <1>1, <1>2, <1>3, <1>4, <1>7 DEF Comes, Addressed
  <2>6. r.at = "remove" /\ Head(r.todo) # "scope" =>
           /\ \A a \in r.cur : a = Now(a[1])'
           /\ group'[Head(r.todo)] = {a[1] : a \in r.cur} \cup Target(Head(r.todo))'
    <3>1. Target(Head(r.todo))' = Target(Head(r.todo))
      BY <1>1 DEF Target
    <3> QED  BY <2>1, <2>2, <3>1, <1>7 DEF Comes
  <2> QED  BY <2>3, <2>4, <2>5, <2>6 DEF Comes, ToCome
<1> QED  BY <1>3, <1>4, <1>5, <1>6 DEF Routes

MailInv == MailTables /\ MailNames /\ MailCounts /\ MailSets /\ MailSwitches /\ MailKnown /\ MailTodo
           /\ Alone /\ PlainMaps /\ StillThere /\ OrdersFit /\ ChoicesFit /\ LaidOut /\ Routes

(* A save by Exchange's list puts every entry under its Guid.               *)
LEMMA WritePlain ==
  ASSUME MailInv, NEW s \in Saver, WriteConfig(s), "unlisted" \notin ever'
  PROVE  /\ Plain(config)' /\ \A m \in Mailbox : config'[<<m, 0>>].primary <= listed'[m]
         /\ "unlisted" \notin ever
         /\ \A p \in Place :
              /\ config'[p].kind # "none" => /\ p[2] = 0 /\ config'[p].primary = listed'[p[1]]
                                             /\ listed'[p[1]] # 0
                                             /\ config'[p].own = save[s].before[p].own
              /\ config'[p].kind = "none" => config'[p].primary = 0
<1>a. MailShape /\ MailNames
  BY DEF MailInv, MailShape
<1>z. /\ config' = Rebuilt(listed', save[s].rows, save[s].before)
      /\ save[s].rows \in [Address -> Mode] /\ save[s].before \in EntryMap
  BY <1>a, WriteConfigDoes
<1>l. listed' \in [Mailbox -> 0..MaxName]
  BY <1>a, ListsFetched DEF WriteConfig
<1>e. ever' = ever \cup ({reason \in {"stale", "unlisted"} :
                  IF reason = "stale" THEN \E a \in Chosen(save[s].rows) : listed'[a[1]] # name[a[1]]
                  ELSE \E a \in Chosen(save[s].rows) : ~Anchored(listed', a)} \cap {"crossed", "unlisted"})
  BY DEF WriteConfig, Because
<1>n. "unlisted" \notin ever /\ \A a \in Chosen(save[s].rows) : a[2] <= listed'[a[1]]
  BY <1>e DEF Anchored
<1>r. ASSUME NEW p \in Place
      PROVE  /\ config'[p].kind # "none" => /\ p[2] = 0 /\ config'[p].primary = listed'[p[1]]
                                            /\ listed'[p[1]] # 0
                                            /\ config'[p].own = save[s].before[p].own
             /\ config'[p].kind = "none" => config'[p].primary = 0
  BY <1>z, <1>l, <1>n, RebuiltListed
<1>1. Plain(config)'
  BY <1>r DEF Plain
<1>2. ASSUME NEW m \in Mailbox PROVE config'[<<m, 0>>].primary <= listed'[m]
  <2>1. <<m, 0>> \in Place /\ <<m, 0>>[1] = m /\ listed'[m] \in 0..MaxName /\ 0 <= listed'[m]
    BY PlaceParts, <1>l
  <2> QED  BY <1>r, <2>1
<1> QED  BY <1>1, <1>2, <1>n, <1>r

(* The certificates a save of the list as Exchange has it orders.           *)
LEMMA WriteOrders ==
  ASSUME MailInv, NEW s \in Saver, WriteConfig(s), ever' \cap {"unlisted", "crossed"} = {},
         NEW a \in Address
  PROVE  /\ orders'[a] <= turns'[a[1]] + Cardinality(Again(a, LastSeen(a[1]))')
         /\ config'[<<a[1], 0>>].kind = "smime" /\ a[2] > config'[<<a[1], 0>>].primary
              => orders'[a] < turns'[a[1]]
<1>a. MailShape /\ MailNames /\ MailKnown /\ PlainMaps /\ StillThere /\ OrdersFit /\ MailCounts
      /\ MailTables
  BY DEF MailInv, MailShape
<1>z. /\ save[s].at = "list" /\ config' = Rebuilt(listed', save[s].rows, save[s].before)
      /\ config' \in EntryMap
  BY <1>a, WriteConfigDoes
<1>l. /\ listed' \in [Mailbox -> 0..MaxName]
      /\ \A m \in Mailbox : listed'[m] <= name[m] /\ (listed'[m] = listed[m] \/ listed'[m] = name[m])
  BY <1>a, ListsFetched DEF WriteConfig
<1>u. ever \cap {"unlisted", "crossed"} = {}
  BY DEF WriteConfig, Because
<1>r. \A p \in Place :
        /\ config'[p].kind # "none" => /\ p[2] = 0 /\ config'[p].primary = listed'[p[1]]
                                       /\ listed'[p[1]] # 0
        /\ config'[p].kind = "none" => config'[p].primary = 0
  <2>1. "unlisted" \notin ever'
    OBVIOUS
  <2> QED  BY <2>1, WritePlain
<1> DEFINE m == a[1]
           n == a[2]
           old == config[<<m, 0>>]
           new == config'[<<m, 0>>]
<1>0. m \in Mailbox /\ n \in 1..MaxName /\ a = <<m, n>> /\ <<m, 0>> \in Place
  BY PlaceParts
<1>1. old.primary \in 0..MaxName /\ new.primary \in 0..MaxName
  BY <1>0, <1>a, <1>z DEF MailTables, EntryMap, MailEntry
<1>2. Ciphers(config, m) <=> old.kind = "smime"
  <2>1. \A p \in Place : p[1] = m /\ config[p].kind = "smime" => p = <<m, 0>>
    BY <1>a, <1>u, PlaceParts DEF PlainMaps, Plain
  <2> QED  BY <2>1, <1>0 DEF Ciphers, Kinds
<1>3. Ciphers(config', m) <=> new.kind = "smime"
  <2>1. \A p \in Place : p[1] = m /\ config'[p].kind = "smime" => p = <<m, 0>>
    BY <1>r, PlaceParts
  <2> QED  BY <2>1, <1>0 DEF Ciphers, Kinds
<1>4. a \in WithSmime(config') <=> new.kind = "smime" /\ new.primary # 0 /\ AddressOf(m, new.primary) = a
  <2>1. \A p \in Place : config'[p].kind = "smime" => p = <<p[1], 0>>
    BY <1>r, PlaceParts
  <2>3. \A k \in Mailbox, x \in 1..MaxName : AddressOf(k, x)[1] = k
    BY <1>a, AddrParts
  <2>4. ASSUME a \in WithSmime(config') PROVE new.kind = "smime" /\ new.primary # 0 /\ AddressOf(m, new.primary) = a
    <3>1. PICK p \in Place : /\ a = AddressOf(p[1], config'[p].primary) /\ config'[p].kind = "smime"
                             /\ config'[p].primary # 0
      BY <2>4 DEF WithSmime
    <3>2. p = <<p[1], 0>> /\ p[1] \in Mailbox
      BY <2>1, <3>1, PlaceParts
    <3>3. config'[p].primary \in 0..MaxName
      BY <1>a, <1>z DEF MailTables, EntryMap, MailEntry
    <3>4. p[1] = m
      BY <2>1, <2>3, <3>1, <3>2, <3>3, MailboxAssumption
    <3> QED  BY <2>1, <3>1, <3>2, <3>4
  <2>5. ASSUME new.kind = "smime", new.primary # 0, AddressOf(m, new.primary) = a PROVE a \in WithSmime(config')
    <3>1. <<m, 0>>[1] = m
      OBVIOUS
    <3> QED  BY <2>1, <2>5, <3>1, <1>0 DEF WithSmime
  <2> QED  BY <2>4, <2>5
<1>5. a \in WithSmime(save[s].before) <=> old.kind = "smime" /\ old.primary # 0 /\ AddressOf(m, old.primary) = a
  <2>1. \A p \in Place : /\ save[s].before[p].kind = config[p].kind
                         /\ save[s].before[p].primary = config[p].primary
    BY <1>a, <1>u, <1>z DEF StillThere
  <2>2. \A p \in Place : config[p].kind = "smime" => p = <<p[1], 0>>
    BY <1>a, <1>u, PlaceParts DEF PlainMaps, Plain
  <2>3. \A k \in Mailbox, x \in 1..MaxName : AddressOf(k, x)[1] = k
    BY <1>a, AddrParts
  <2>4. ASSUME a \in WithSmime(save[s].before) PROVE old.kind = "smime" /\ old.primary # 0 /\ AddressOf(m, old.primary) = a
    <3>1. PICK p \in Place : /\ a = AddressOf(p[1], save[s].before[p].primary) /\ save[s].before[p].kind = "smime"
                             /\ save[s].before[p].primary # 0
      BY <2>4 DEF WithSmime
    <3>2. p = <<p[1], 0>> /\ p[1] \in Mailbox
      BY <2>1, <2>2, <3>1, PlaceParts
    <3>3. config[p].primary \in 0..MaxName
      BY <1>a, <1>z DEF MailTables, EntryMap, MailEntry
    <3>4. p[1] = m
      BY <2>1, <2>3, <3>1, <3>2, <3>3, MailboxAssumption
    <3> QED  BY <2>1, <3>1, <3>2, <3>4
  <2>5. ASSUME old.kind = "smime", old.primary # 0, AddressOf(m, old.primary) = a PROVE a \in WithSmime(save[s].before)
    <3>1. <<m, 0>>[1] = m
      OBVIOUS
    <3> QED  BY <2>1, <2>5, <3>1, <1>0 DEF WithSmime
  <2> QED  BY <2>4, <2>5
<1>6. a \in Neu(save[s].before, config')
        <=> /\ new.kind = "smime" /\ new.primary # 0 /\ AddressOf(m, new.primary) = a
            /\ ~(old.kind = "smime" /\ old.primary # 0 /\ AddressOf(m, old.primary) = a)
  BY <1>4, <1>5 DEF Neu
<1>7. /\ turns'[m] = turns[m] + IF new.kind = "smime" /\ old.kind # "smime" THEN 1 ELSE 0
      /\ orders'[a] = orders[a] + IF a \in Neu(save[s].before, config') THEN 1 ELSE 0
  <2>1. turns' = [k \in Mailbox |->
            turns[k] + IF Ciphers(config', k) /\ ~Ciphers(config, k) THEN 1 ELSE 0]
    BY <1>z DEF WriteConfig
  <2>2. orders' = [b \in Address |->
            orders[b] + IF b \in Neu(save[s].before, config') THEN 1 ELSE 0]
    BY <1>z DEF WriteConfig
  <2> HIDE DEF old, new
  <2>3. turns'[m] = turns[m] + IF Ciphers(config', m) /\ ~Ciphers(config, m) THEN 1 ELSE 0
    BY <2>1, <1>0
  <2> QED  BY <2>2, <2>3, <1>2, <1>3
<1>8. turns[m] \in Nat /\ orders[a] \in Nat
  BY <1>0, <1>a DEF MailCounts
<1>9. orders[a] <= turns[m] + Cardinality(Again(a, LastSeen(m))) /\ (old.kind = "smime" /\ n > old.primary => orders[a] < turns[m])
  BY <1>a, <1>u DEF OrdersFit
<1>10. new.kind = "smime" => new.primary = listed'[m] /\ listed'[m] # 0
  BY <1>r, <1>0
<1>11. old.primary <= name[m] /\ (listed[m] = 0 \/ old.primary <= listed[m])
  <2>1. old.primary <= name[<<m, 0>>[1]]
    BY <1>a, <1>0 DEF MailKnown, Known
  <2> QED  BY <2>1, <1>a, <1>u, <1>0 DEF PlainMaps
<1> HIDE DEF m, n, old, new
<1>12. old.kind = "smime" => old.primary # 0
  <2>1. Plain(config)
    BY <1>a, <1>u DEF PlainMaps
  <2> QED  BY <2>1, <1>0 DEF Plain, old
<1> DEFINE x == LastSeen(m)
           y == LastSeen(m)'
<1>13. x = (IF old.kind = "smime" THEN old.primary ELSE IF listed[m] = 0 THEN name[m] ELSE listed[m])
  BY DEF LastSeen, old
<1>14. y = (IF new.kind = "smime" THEN new.primary ELSE IF listed'[m] = 0 THEN name[m] ELSE listed'[m])
  <2>1. name' = name
    BY DEF WriteConfig, exchange, nameVars
  <2> QED  BY <2>1 DEF LastSeen, new
<1>15. name[m] \in 1..MaxName /\ listed[m] \in 0..MaxName /\ listed'[m] \in 0..MaxName
       /\ listed[m] <= name[m] /\ listed'[m] <= name[m] /\ (listed'[m] = listed[m] \/ listed'[m] = name[m])
  BY <1>0, <1>a, <1>l DEF MailNames
<1> HIDE DEF x, y
<1>16. x \in Nat /\ y \in Nat /\ x <= y
  BY <1>1, <1>10, <1>11, <1>13, <1>14, <1>15
<1>17. Again(a, LastSeen(m))' = Again(a, y)
  <2>1. sameAs' = sameAs
    BY DEF WriteConfig, exchange, nameVars
  <2> QED  BY <2>1 DEF Again, AddressOf, y
<1>18. new.kind = "smime" => y = new.primary /\ y \in 1..MaxName /\ AddressOf(m, y)[2] <= y
  <2>1. new.kind = "smime" => y = new.primary /\ y \in 1..MaxName
    BY <1>10, <1>14, <1>15
  <2> QED  BY <2>1, <1>0, <1>a, AddrParts
<1>19. old.kind = "smime" => x = old.primary /\ x # 0
  BY <1>12, <1>13
<1>b. a[1] = m /\ a[2] = n
  BY DEF m, n
<1> DEFINE C == Cardinality(Again(a, x))
           D == Cardinality(Again(a, y))
<1>20. /\ C \in Nat /\ D \in Nat /\ C <= D
       /\ x < y /\ n < y /\ AddressOf(m, y) = a => C < D
       /\ x <= n => C = 0
  BY <1>16, <1>b, AgainGrows
<1>21. orders[a] <= turns[m] + C
  BY <1>9 DEF x
<1> HIDE DEF C, D
<1> DEFINE placed == a \in Neu(save[s].before, config')
<1>22. placed => new.kind = "smime" /\ AddressOf(m, y) = a /\ n <= y
  BY <1>6, <1>18, <1>b
<1>23. placed /\ old.kind = "smime" => x # y
  BY <1>6, <1>18, <1>19
<1>24. /\ turns'[m] = turns[m] + IF new.kind = "smime" /\ old.kind # "smime" THEN 1 ELSE 0
       /\ orders'[a] = orders[a] + IF placed THEN 1 ELSE 0
  BY <1>7
<1> HIDE DEF placed
<1>25. orders'[a] <= turns'[m] + D
  <2>1. CASE ~placed
    BY <2>1, <1>8, <1>20, <1>21, <1>24
  <2>2. CASE placed /\ old.kind # "smime"
    BY <2>2, <1>8, <1>20, <1>21, <1>22, <1>24
  <2>3. CASE placed /\ old.kind = "smime"
    <3>1. turns'[m] = turns[m] /\ orders'[a] = orders[a] + 1 /\ x < y
      BY <2>3, <1>8, <1>16, <1>23, <1>24
    <3>2. CASE n > x
      <4>1. orders[a] < turns[m]
        BY <2>3, <3>2, <1>9, <1>19
      <4> QED  BY <3>1, <4>1, <1>8, <1>20
    <3>3. CASE ~(n > x)
      <4>1. n < y /\ AddressOf(m, y) = a
        BY <2>3, <3>1, <3>3, <1>0, <1>16, <1>22
      <4> QED  BY <3>1, <4>1, <1>8, <1>20, <1>21
    <3> QED  BY <3>2, <3>3
  <2> QED  BY <2>1, <2>2, <2>3
<1>26. ASSUME new.kind = "smime", n > new.primary PROVE orders'[a] < turns'[m]
  <2>1. ~placed /\ orders'[a] = orders[a] /\ n > x
    BY <1>26, <1>0, <1>8, <1>16, <1>18, <1>22, <1>24
  <2>2. CASE old.kind = "smime"
    BY <1>26, <2>1, <2>2, <1>8, <1>9, <1>19, <1>24
  <2>3. CASE old.kind # "smime"
    BY <1>26, <2>1, <2>3, <1>0, <1>8, <1>16, <1>20, <1>21, <1>24
  <2> QED  BY <2>2, <2>3
<1> QED  BY <1>17, <1>25, <1>26 DEF m, n, new, D

LEMMA WriteChoices ==
  ASSUME MailInv, NEW s \in Saver, WriteConfig(s), ever' \cap {"unlisted", "meanwhile", "crossed"} = {},
         NEW m \in chose'
  PROVE  config'[<<m, 0>>].own
<1>a. MailShape /\ ChoicesFit /\ MailSets
  BY DEF MailInv, MailShape
<1>z. save[s].at = "list" /\ config' = Rebuilt(listed', save[s].rows, save[s].before)
  BY <1>a, WriteConfigDoes
<1>u. ever \cap {"unlisted", "meanwhile", "crossed"} = {} /\ "unlisted" \notin ever'
  BY DEF WriteConfig, Because
<1>1. m \in chose /\ Signs(config', m) /\ m \in Mailbox
  BY <1>z, <1>a DEF WriteConfig, MailSets
<1>2. PICK p \in Place : p[1] = m /\ config'[p].kind # "none"
  BY <1>1, PlaceParts DEF Signs, Kinds
<1>3. p[2] = 0 /\ config'[p].own = save[s].before[p].own
  BY <1>2, <1>u, WritePlain
<1>4. p = <<m, 0>>
  BY <1>2, <1>3, PlaceParts
<1>5. config[<<m, 0>>].own /\ save[s].before = config
  BY <1>1, <1>a, <1>u, <1>z DEF ChoicesFit
<1> QED  BY <1>3, <1>4, <1>5

(* The addresses of a set of mailboxes.                                     *)
LEMMA AddressedParts ==
  ASSUME MailNames, NEW S \in SUBSET Mailbox, NEW T \in SUBSET Mailbox
  PROVE  /\ Addressed(S) \ Addressed(T) = Addressed(S \ T)
         /\ {a[1] : a \in Addressed(S)} = S
         /\ Addressed(S) = {} <=> S = {}
         /\ \A a \in Addressed(S) : a[1] \in S /\ a = Now(a[1])
<1>0. \A m \in Mailbox : Now(m)[1] = m
  BY NowParts
<1>1. \A a \in Addressed(S) : a[1] \in S /\ a = Now(a[1])
  BY <1>0 DEF Addressed
<1>2. \A m \in S : Now(m) \in Addressed(S) /\ Now(m)[1] = m
  BY <1>0 DEF Addressed
<1>3. Addressed(S) \ Addressed(T) = Addressed(S \ T)
  BY <1>0 DEF Addressed
<1> QED  BY <1>1, <1>2, <1>3

LEMMA OthersIdle ==
  ASSUME Alone, why = {}, NEW s \in Saver, Busy(s), NEW o \in Saver, o # s
  PROVE  save[o].at = "idle"
BY DEF Alone, Busy

(* While one save runs alone, the routes are those of that save.            *)
LEMMA OneComes ==
  ASSUME Alone, why = {}, NEW s \in Saver, Busy(s), OthersStay(s), save'[s].at # "idle", Comes(s)'
  PROVE  /\ \A o \in Saver : Comes(o)'
         /\ ~(\A o \in Saver : ~Busy(o)')
<1>1. ASSUME NEW o \in Saver, o # s PROVE save'[o].at = "idle"
  BY <1>1, OthersIdle DEF OthersStay
<1>2. ASSUME NEW o \in Saver, o # s PROVE Comes(o)'
  BY <1>1, <1>2 DEF Comes
<1> QED  BY <1>2 DEF Busy

LEMMA WriteRoutes ==
  ASSUME MailInv, NEW s \in Saver, WriteConfig(s), why' = {}
  PROVE  Comes(s)'
<1>a. MailShape /\ MailNames /\ MailKnown /\ MailTables
  BY DEF MailInv, MailShape
<1>z. /\ save[s].at = "list" /\ config' = Rebuilt(listed', save[s].rows, save[s].before)
      /\ save[s].rows \in [Address -> Mode] /\ save'[s].at = "order"
      /\ save'[s].want["sig"] = {Member(listed', a) : a \in Chosen(save[s].rows)}
  BY <1>a, WriteConfigDoes
<1>l. listed' \in [Mailbox -> 0..MaxName]
  BY <1>a, ListsFetched DEF WriteConfig
<1>e. why' = why \cup ({reason \in {"stale", "unlisted"} :
                  IF reason = "stale" THEN \E a \in Chosen(save[s].rows) : listed'[a[1]] # name[a[1]]
                  ELSE \E a \in Chosen(save[s].rows) : ~Anchored(listed', a)} \ {"unlisted"})
  BY DEF WriteConfig, Because
<1>u. \A a \in Chosen(save[s].rows) : listed'[a[1]] = name[a[1]]
  <2>1. "stale" \notin why'
    OBVIOUS
  <2> QED  BY <1>e, <2>1
<1>n. \A a \in Chosen(save[s].rows) : a[2] <= listed'[a[1]] /\ a[1] \in Mailbox
  BY <1>u, <1>a, PlaceParts DEF MailKnown, KnownRows, Chosen
<1>x. name' = name /\ sameAs' = sameAs
  BY DEF WriteConfig, exchange, nameVars
<1>r. ASSUME NEW p \in Place
      PROVE  /\ config'[p].kind # "none" => p[2] = 0 /\ config'[p].primary = listed'[p[1]]
             /\ config'[p].kind # "none" <=> p[2] = 0 /\ \E a \in Chosen(save[s].rows) : a[1] = p[1]
  BY <1>z, <1>l, <1>n, RebuiltListed
<1>1. ByName'
  <2>1. ASSUME NEW p \in Place, config'[p].kind # "none"
        PROVE  p[2] = 0 /\ config'[p].primary = name'[p[1]]
    BY <2>1, <1>r, <1>u, <1>x
  <2> QED  BY <2>1 DEF ByName
<1>2. Signing' = {a[1] : a \in Chosen(save[s].rows)}
  <2>1. \A m \in Mailbox : <<m, 0>> \in Place /\ <<m, 0>>[1] = m /\ <<m, 0>>[2] = 0
    BY PlaceParts
  <2>2. \A m \in Mailbox : m \in Signing' <=> \E a \in Chosen(save[s].rows) : a[1] = m
    BY <2>1, <1>r DEF Signing
  <2>3. Signing' \subseteq Mailbox
    BY DEF Signing
  <2> QED  BY <2>2, <2>3, <1>n
<1>3. save'[s].want["sig"] = Addressed(Signing)'
  <2>1. \A a \in Chosen(save[s].rows) : Member(listed', a) = Now(a[1])
    BY <1>n, <1>u DEF Member, Anchored, Now
  <2>2. Addressed(Signing)' = {Now(m) : m \in Signing'}
    BY <1>x DEF Addressed, Now, AddressOf
  <2> QED  BY <2>1, <2>2, <1>2, <1>z
<1> QED  BY <1>1, <1>3, <1>z DEF Comes

LEMMA UpdateRoutes ==
  ASSUME MailInv, NEW s \in Saver, BeginUpdate(s), why = {}
  PROVE  Comes(s)'
<1>a. MailShape /\ MailNames /\ MailKnown /\ MailTables /\ LaidOut /\ Routes /\ MailSwitches
  BY DEF MailInv, MailShape
<1>z. /\ save[s].at = "order" /\ save'[s].at = "add"
      /\ save'[s].todo = Scripts /\ save'[s].want = Planned(save[s].want)
      /\ save[s].want \in [Group -> SUBSET Address]
  BY <1>a, BeginUpdateDoes
<1>x. name' = name /\ sameAs' = sameAs /\ group' = group /\ ruleOn' = ruleOn /\ config' = config
      /\ laidOut' = split
  BY DEF BeginUpdate, exchange, nameVars
<1>1. ByName /\ save[s].want["sig"] = Addressed(Signing)
  BY <1>a, <1>z DEF Routes, Comes
<1>2. ByName' /\ Signing' = Signing /\ Ciphering' = Ciphering
  BY <1>1, <1>x DEF ByName, Signing, Ciphering
<1>3. \A S : Addressed(S)' = {Now(m) : m \in S'}
  BY <1>x DEF Addressed, Now, AddressOf
<1>4. ASSUME NEW k \in {"sig", "smime"}
      PROVE  OfKind(k) = Addressed({m \in Mailbox : config[<<m, 0>>].kind = k})
  <2> DEFINE those == {m \in Mailbox : config[<<m, 0>>].kind = k}
  <2>1. ASSUME NEW x \in OfKind(k) PROVE x \in Addressed(those)
    <3>1. PICK p \in Place : x = AddressOf(p[1], config[p].primary) /\ config[p].kind = k
      BY DEF OfKind
    <3>2. p[2] = 0 /\ config[p].primary = name[p[1]] /\ p = <<p[1], 0>> /\ p[1] \in Mailbox
      BY <1>1, <3>1, PlaceParts DEF ByName
    <3> QED  BY <3>1, <3>2 DEF Addressed, Now
  <2>2. ASSUME NEW x \in Addressed(those) PROVE x \in OfKind(k)
    <3>1. PICK m \in Mailbox : config[<<m, 0>>].kind = k /\ x = Now(m)
      BY <2>2 DEF Addressed
    <3>2. <<m, 0>> \in Place /\ <<m, 0>>[1] = m
      BY PlaceParts
    <3>3. config[<<m, 0>>].primary = name[m] /\ name[m] # 0
      BY <1>1, <1>a, <3>1, <3>2 DEF ByName, MailNames
    <3> QED  BY <3>1, <3>2, <3>3 DEF OfKind, Now
  <2> QED  BY <2>1, <2>2
<1>5. Ciphering \subseteq Signing /\ Signing \subseteq Mailbox
      /\ Signing \ Ciphering = {m \in Mailbox : config[<<m, 0>>].kind = "sig"}
  <2>1. \A m \in Mailbox : config[<<m, 0>>].kind \in {"none", "sig", "smime"}
    BY PlaceParts, <1>a DEF MailTables, EntryMap, MailEntry, Mode
  <2> QED  BY <2>1 DEF Signing, Ciphering
<1>6. CASE split
  <2>1. Scripts = <<"sig", "smime", "scope">>
    BY <1>6 DEF Scripts
  <2>2. save'[s].want["sig"] = OfKind("sig") \ OfKind("smime") /\ save'[s].want["smime"] = OfKind("smime")
    BY <1>6, <1>z DEF Planned, Group
  <2>3. OfKind("sig") = Addressed(Signing \ Ciphering) /\ OfKind("smime") = Addressed(Ciphering)
    BY <1>4, <1>5 DEF Ciphering
  <2>4. OfKind("sig") \ OfKind("smime") = Addressed(Signing \ Ciphering)
    <3>1. Addressed(Signing \ Ciphering) \ Addressed(Ciphering) = Addressed((Signing \ Ciphering) \ Ciphering)
      BY <1>5, <1>a, AddressedParts
    <3>2. (Signing \ Ciphering) \ Ciphering = Signing \ Ciphering
      OBVIOUS
    <3> QED  BY <2>3, <3>1, <3>2
  <2>5. Target("sig")' = Signing \ Ciphering
    BY <1>6, <1>x, <1>2 DEF Target
  <2>6. save'[s].want["sig"] = Addressed(Target("sig"))'
    BY <2>2, <2>4, <2>5, <1>x DEF Addressed, Now, AddressOf
  <2>7. save'[s].want["smime"] = Addressed(Ciphering)'
    BY <2>2, <2>3, <1>2, <1>x DEF Addressed, Now, AddressOf
  <2>8. \A g \in {"sig", "smime"} : ToCome(g, save'[s].todo)
    <3>1. \E i \in 1..3 : <<"sig", "smime", "scope">>[i] = "sig"
      BY <<"sig", "smime", "scope">>[1] = "sig"
    <3>2. \E i \in 1..3 : <<"sig", "smime", "scope">>[i] = "smime"
      BY <<"sig", "smime", "scope">>[2] = "smime"
    <3>3. Len(<<"sig", "smime", "scope">>) = 3
      OBVIOUS
    <3> QED  BY <3>1, <3>2, <3>3, <2>1, <1>z DEF ToCome
  <2> QED  BY <2>6, <2>7, <2>8, <1>2, <1>z DEF Comes, ToCome
<1>7. CASE ~split
  <2>1. Scripts = <<"sig", "scope">>
    BY <1>7 DEF Scripts
  <2>2. save'[s].want["sig"] = Addressed(Signing)
    BY <1>7, <1>z, <1>1 DEF Planned
  <2>3. Target("sig")' = Signing /\ Target("smime")' = {}
    BY <1>7, <1>x, <1>2 DEF Target
  <2>4. save'[s].want["sig"] = Addressed(Target("sig"))'
    BY <2>2, <2>3, <1>x DEF Addressed, Now, AddressOf
  <2>5. Done("smime")'
    BY <1>7, <1>x, <1>a, <2>3 DEF Done, LaidOut
  <2>6. ToCome("sig", save'[s].todo)
    <3>1. Len(<<"sig", "scope">>) = 2 /\ <<"sig", "scope">>[1] = "sig"
      OBVIOUS
    <3> QED  BY <3>1, <2>1, <1>z DEF ToCome
  <2> QED  BY <2>4, <2>5, <2>6, <1>2, <1>7, <1>x, <1>z DEF Comes, ToCome
<1> QED  BY <1>6, <1>7

LEMMA AddsRoutes ==
  ASSUME MailInv, NEW s \in Saver, NEW g \in Group, Adds(s, g, TRUE), why = {}
  PROVE  Comes(s)'
<1>a. MailShape /\ MailNames /\ MailTables /\ MailSets /\ Routes /\ MailTodo /\ LaidOut
  BY DEF MailInv, MailShape
<1>z. /\ save[s].at = "add" /\ save'[s].at = "remove"
      /\ save'[s].todo = save[s].todo /\ Head(save[s].todo) = g
      /\ save'[s].cur = {Now(m) : m \in group[g]}
      /\ \A h \in Group \ {g, "scope"} : save'[s].want[h] = save[s].want[h]
      /\ g # "scope" => save'[s].want = save[s].want
  BY <1>a, AddsDoes
<1>x. name' = name /\ sameAs' = sameAs /\ ruleOn' = ruleOn /\ config' = config /\ laidOut' = laidOut
  BY DEF Adds, nameVars
<1>1. /\ ByName /\ save[s].want["sig"] = Addressed(Target("sig"))
      /\ laidOut => save[s].want["smime"] = Addressed(Ciphering)
      /\ \A h \in {"sig", "smime"} : ToCome(h, save[s].todo) \/ Done(h)
  BY <1>a, <1>z DEF Routes, Comes
<1>2. ByName' /\ Signing' = Signing /\ Ciphering' = Ciphering
  BY <1>1, <1>x DEF ByName, Signing, Ciphering
<1>3. Target("sig")' = Target("sig") /\ Target("smime")' = Target("smime")
  BY <1>2, <1>x DEF Target
<1>4. save'[s].want["sig"] = save[s].want["sig"] /\ save'[s].want["smime"] = save[s].want["smime"]
  BY <1>z DEF Group
<1>5. save[s] \in SaveRecord /\ save[s].todo \in Scripted /\ save[s].todo # <<>>
  BY <1>a, <1>z DEF MailTables, SaveRecord, MailTodo
<1>6. ToCome(g, save[s].todo)
  <2>1. Len(save[s].todo) \in Nat \ {0} /\ Head(save[s].todo) = save[s].todo[1]
    BY <1>5 DEF Scripted
  <2> QED  BY <2>1, <1>z DEF ToCome
<1>7. \A h \in Group \ {g} : group'[h] = group[h]
  BY <1>a DEF Adds, MailSets
<1>8. \A h \in {"sig", "smime"} : ToCome(h, save'[s].todo) \/ Done(h)'
  <2>1. ASSUME NEW h \in {"sig", "smime"}, h # g, Done(h) PROVE Done(h)'
    <3>1. Target(h)' = Target(h) /\ group'[h] = group[h]
      BY <1>3, <1>7, <2>1 DEF Group
    <3> QED  BY <3>1, <2>1, <1>x DEF Done
  <2> QED  BY <2>1, <1>1, <1>6, <1>z
<1>9. g # "scope" =>
        /\ \A a \in save'[s].cur : a = Now(a[1])'
        /\ group'[g] = {a[1] : a \in save'[s].cur} \cup Target(g)'
  <2> SUFFICES ASSUME g # "scope"
               PROVE  /\ \A a \in save'[s].cur : a = Now(a[1])'
                      /\ group'[g] = {a[1] : a \in save'[s].cur} \cup Target(g)'
    OBVIOUS
  <2>0. g \in {"sig", "smime"}
    BY DEF Group
  <2>1. group[g] \subseteq Mailbox
    BY <1>a DEF MailSets
  <2>2. save'[s].cur = Addressed(group[g])
    BY <1>z DEF Addressed
  <2>3. Target(g) \subseteq Mailbox
    BY DEF Target, Signing, Ciphering
  <2>4. save[s].want[g] = Addressed(Target(g))
    <3>1. CASE g = "sig"
      BY <1>1, <3>1
    <3>2. CASE g = "smime"
      <4>1. laidOut
        BY <3>2, <1>5, <1>z, <1>a, TodoParts DEF LaidOut
      <4>2. Target("smime") = Ciphering
        BY <4>1 DEF Target
      <4> QED  BY <1>1, <3>2, <4>1, <4>2
    <3> QED  BY <2>0, <3>1, <3>2
  <2>5. group'[g] = group[g] \cup {a[1] : a \in save[s].want[g] \ {Now(m) : m \in group[g]}}
    BY <1>a DEF Adds, MailSets
  <2>6. save[s].want[g] \ {Now(m) : m \in group[g]} = Addressed(Target(g) \ group[g])
    <3>1. {Now(m) : m \in group[g]} = Addressed(group[g])
      BY DEF Addressed
    <3> QED  BY <3>1, <2>1, <2>3, <2>4, <1>a, AddressedParts
  <2>7. group'[g] = group[g] \cup (Target(g) \ group[g])
    <3>1. {a[1] : a \in Addressed(Target(g) \ group[g])} = Target(g) \ group[g]
      BY <2>1, <2>3, <1>a, AddressedParts
    <3> QED  BY <2>5, <2>6, <3>1
  <2>8. {a[1] : a \in save'[s].cur} = group[g] /\ \A a \in save'[s].cur : a = Now(a[1])
    <3>1. PICK c : c = save'[s].cur
      OBVIOUS
    <3>2. c = Addressed(group[g])
      BY <2>2, <3>1
    <3>3. {a[1] : a \in c} = group[g]
      BY <2>1, <3>2, <1>a, AddressedParts
    <3>4. \A a \in c : a = Now(a[1])
      BY <2>1, <3>2, <1>a, AddressedParts
    <3> QED  BY <3>1, <3>3, <3>4
  <2>9. Target(g)' = Target(g)
    BY <1>2, <1>x DEF Target
  <2>10. \A m : Now(m)' = Now(m)
    BY <1>x DEF Now, AddressOf
  <2>11. {a[1] : a \in save'[s].cur} \cup Target(g) = group'[g]
    BY <2>7, <2>8
  <2> QED  BY <2>8, <2>9, <2>10, <2>11
<1>10. save'[s].want["sig"] = Addressed(Target("sig"))'
       /\ (laidOut' => save'[s].want["smime"] = Addressed(Ciphering)')
  BY <1>1, <1>2, <1>3, <1>4, <1>x DEF Addressed, Now, AddressOf
<1>11. /\ save'[s].at = "remove" /\ Head(save'[s].todo) = g
       /\ \A h \in {"sig", "smime"} : ToCome(h, save[s].todo)' \/ Done(h)'
  BY <1>8, <1>z DEF ToCome
<1> QED  BY <1>2, <1>9, <1>10, <1>11 DEF Comes, ToCome

LEMMA RemovesRoutes ==
  ASSUME MailInv, NEW s \in Saver, NEW g \in Group, Removes(s, g), why = {}
  PROVE  /\ save[s].todo # <<"scope">> => Comes(s)'
         /\ save[s].todo = <<"scope">> => ByGuid' /\ Done("sig")' /\ Done("smime")'
<1>a. MailShape /\ MailNames /\ MailTables /\ MailSets /\ Routes /\ MailTodo /\ LaidOut
  BY DEF MailInv, MailShape
<1>z. /\ save[s].at = "remove" /\ Head(save[s].todo) = g /\ save[s].todo \in Scripted \ {<<>>}
      /\ save[s].todo # <<"scope">> =>
           /\ save'[s].at = "add" /\ save'[s].todo = Tail(save[s].todo) /\ save'[s].want = save[s].want
  BY <1>a, RemovesDoes
<1>x. name' = name /\ sameAs' = sameAs /\ config' = config /\ laidOut' = laidOut
  BY DEF Removes, nameVars
<1>1. /\ ByName /\ save[s].want["sig"] = Addressed(Target("sig"))
      /\ laidOut => save[s].want["smime"] = Addressed(Ciphering)
      /\ \A h \in {"sig", "smime"} : ToCome(h, save[s].todo) \/ Done(h)
      /\ g # "scope" => /\ \A a \in save[s].cur : a = Now(a[1])
                        /\ group[g] = {a[1] : a \in save[s].cur} \cup Target(g)
  BY <1>a, <1>z DEF Routes, Comes
<1>2. ByName' /\ Signing' = Signing /\ Ciphering' = Ciphering /\ ByGuid'
  BY <1>1, <1>x DEF ByName, Signing, Ciphering, ByGuid
<1>3. \A h : Target(h)' = Target(h)
  BY <1>2, <1>x DEF Target
<1>4. \A h \in Group \ {g} : group'[h] = group[h]
  BY <1>a DEF Removes, MailSets
<1>5. \A h \in {"sig", "smime"} \ {g} : h \in ruleOn' <=> h \in ruleOn
  BY DEF Removes
<1>6. ASSUME NEW h \in {"sig", "smime"}, h # g, Done(h) PROVE Done(h)'
  <2>1. group'[h] = group[h] /\ (h \in ruleOn' <=> h \in ruleOn)
    BY <1>4, <1>5, <1>6 DEF Group
  <2>2. Target(h)' = Target(h)
    BY <1>2, <1>x DEF Target
  <2> QED  BY <2>1, <2>2, <1>6 DEF Done
<1>7. ASSUME g \in {"sig", "smime"} PROVE Done(g)'
  <2>1. Target(g) \subseteq Mailbox
    BY DEF Target, Signing, Ciphering
  <2>2. save[s].want[g] = Addressed(Target(g))
    <3>1. CASE g = "sig"
      BY <1>1, <3>1
    <3>2. CASE g = "smime"
      <4>1. laidOut
        BY <3>2, <1>z, <1>a, TodoParts DEF LaidOut
      <4>2. Target("smime") = Ciphering
        BY <4>1 DEF Target
      <4> QED  BY <1>1, <3>2, <4>1, <4>2
    <3> QED  BY <1>7, <3>1, <3>2
  <2>3. group'[g] = group[g] \ {a[1] : a \in save[s].cur \ save[s].want[g]}
    BY <1>7, <1>a DEF Removes, MailSets
  <2>4. g \in ruleOn' <=> save[s].want[g] # {}
    BY <1>7 DEF Removes
  <2>5. /\ \A a \in save[s].cur : a = Now(a[1])
        /\ group[g] = {a[1] : a \in save[s].cur} \cup Target(g)
    BY <1>1, <1>7
  <2>6. save[s].cur \subseteq Address
    BY <1>a DEF MailTables, SaveRecord
  <2>7. \A a \in save[s].cur : a = Now(a[1]) /\ a[1] \in Mailbox
    BY <2>5, <2>6, PlaceParts
  <2>8. \A a \in save[s].cur : a \in Addressed(Target(g)) <=> a[1] \in Target(g)
    BY <2>1, <2>7, <1>a, AddressedParts DEF Addressed
  <2>9. {a[1] : a \in save[s].cur \ Addressed(Target(g))} = {a[1] : a \in save[s].cur} \ Target(g)
    BY <2>8, <2>7
  <2>10. group'[g] = Target(g)
    BY <2>2, <2>3, <2>5, <2>9
  <2>11. Addressed(Target(g)) = {} <=> Target(g) = {}
    BY <2>1, <1>a, AddressedParts
  <2>12. Target(g)' = Target(g)
    BY <1>2, <1>x DEF Target
  <2> QED  BY <2>2, <2>4, <2>10, <2>11, <2>12 DEF Done
<1>8. CASE save[s].todo = <<"scope">>
  <2>1. \A h \in {"sig", "smime"} : ~ToCome(h, <<"scope">>)
    <3>1. Len(<<"scope">>) = 1 /\ <<"scope">>[1] = "scope"
      OBVIOUS
    <3> QED  BY <3>1 DEF ToCome
  <2>2. g = "scope"
    BY <1>8, <1>z, TodoParts
  <2> QED  BY <1>1, <1>2, <1>6, <1>8, <2>1, <2>2
<1>9. CASE save[s].todo # <<"scope">>
  <2>1. g # "scope" /\ g \in {"sig", "smime"}
    BY <1>9, <1>z, TodoParts DEF Group
  <2>2. \A h \in {"sig", "smime"} \ {g} : ToCome(h, save[s].todo) => ToCome(h, Tail(save[s].todo))
    <3>1. CASE save[s].todo = <<"sig", "smime", "scope">>
      <4>1. g = "sig" /\ Tail(save[s].todo) = <<"smime", "scope">>
        BY <3>1, <1>z, TodoParts
      <4>2. Len(<<"smime", "scope">>) = 2 /\ <<"smime", "scope">>[1] = "smime"
        OBVIOUS
      <4>3. ToCome("smime", <<"smime", "scope">>)
        BY <4>2 DEF ToCome
      <4> QED  BY <4>1, <4>3
    <3>2. CASE save[s].todo = <<"smime", "scope">>
      <4>1. g = "smime" /\ Len(save[s].todo) = 2 /\ save[s].todo[1] = "smime" /\ save[s].todo[2] = "scope"
        BY <3>2, <1>z, TodoParts
      <4> QED  BY <4>1 DEF ToCome
    <3>3. CASE save[s].todo = <<"sig", "scope">>
      <4>1. g = "sig" /\ Len(save[s].todo) = 2 /\ save[s].todo[1] = "sig" /\ save[s].todo[2] = "scope"
        BY <3>3, <1>z, TodoParts
      <4> QED  BY <4>1 DEF ToCome
    <3> QED  BY <1>9, <1>z, <3>1, <3>2, <3>3 DEF Scripted
  <2>3. \A h \in {"sig", "smime"} : ToCome(h, save'[s].todo) \/ Done(h)'
    BY <1>1, <1>6, <1>7, <1>9, <1>z, <2>1, <2>2
  <2>4. save'[s].want["sig"] = Addressed(Target("sig"))'
        /\ (laidOut' => save'[s].want["smime"] = Addressed(Ciphering)')
    BY <1>1, <1>2, <1>3, <1>9, <1>x, <1>z DEF Addressed, Now, AddressOf
  <2>5. save'[s].at = "add" /\ \A h \in {"sig", "smime"} : ToCome(h, save[s].todo)' \/ Done(h)'
    BY <2>3, <1>9, <1>z DEF ToCome
  <2> QED  BY <1>2, <1>9, <2>4, <2>5 DEF Comes, ToCome
<1> QED  BY <1>8, <1>9

LEMMA MailStep == MailInv /\ [MailboxNext]_mailboxVars => MailInv'
<1> SUFFICES ASSUME MailInv, [MailboxNext]_mailboxVars PROVE MailInv'
  OBVIOUS
<1>a. MailTables /\ MailNames /\ MailCounts /\ MailSets /\ MailSwitches /\ MailKnown /\ MailTodo /\ Alone /\ PlainMaps /\ StillThere /\ OrdersFit /\ ChoicesFit /\ LaidOut /\ Routes
  BY DEF MailInv
<1>i. MailInv
  OBVIOUS
<1>b. MailShape
  BY <1>a DEF MailShape
<1> USE DEF OthersStay, exchange, nameVars
<1>1. ASSUME NEW s \in Saver, BeginSave(s)
      PROVE  MailInv'
  <2>z. /\ OthersStay(s) /\ save'[s].at = "list" /\ save'[s].before = config
        /\ save'[s].rows \in Rows /\ save'[s].todo = <<>>
    BY <1>1, <1>b, <1>a, BeginSaveDoes
  <2>1. MailTables'
    BY <1>1, <1>a, <2>z DEF BeginSave, MailTables
  <2>2. MailNames'
    BY <1>1, <1>a, <2>z DEF BeginSave, MailNames
  <2>3. MailCounts'
    BY <1>1, <1>a, <2>z DEF BeginSave, MailCounts
  <2>4. MailSets'
    BY <1>1, <1>a, <2>z DEF BeginSave, MailSets
  <2>5. MailSwitches'
    BY <1>1, <1>a, <2>z DEF BeginSave, MailSwitches
  <2>6. MailKnown'
    <3>1. \A m \in Mailbox : name'[m] = name[m] /\ name[m] <= name'[m]
      BY <1>1, <1>a DEF BeginSave, MailNames
    <3>2. KnownRows(save'[s].rows)
      BY <1>a, <2>z, RowsKnown DEF MailKnown
    <3>3. \A o \in Saver : /\ save'[o].before \in {save[o].before, NoSave.before, config}
                           /\ save'[o].rows \in {save[o].rows, NoSave.rows} \/ KnownRows(save'[o].rows)
      BY <2>z, <3>2
    <3> QED  BY <1>1, <1>a, <2>2, <3>1, <3>3, KnownKept DEF BeginSave
  <2>7. MailTodo'
    BY <1>1, <1>a, <2>z DEF BeginSave, MailTodo
  <2>8. Alone'
    <3>1. CASE \E o \in Saver : Busy(o)
      <4>1. "crossed" \in why' /\ "crossed" \in ever'
        BY <1>1, <3>1 DEF BeginSave
      <4> QED  BY <4>1 DEF Alone
    <3>2. CASE ~(\E o \in Saver : Busy(o))
      <4>1. \A o \in Saver : o # s => save'[o].at = "idle"
        BY <3>2, <2>z DEF Busy
      <4> QED  BY <4>1 DEF Alone, Busy
    <3> QED  BY <3>1, <3>2
  <2>9. PlainMaps'
    <3>1. \A o \in Saver : save'[o].before \in {save[o].before, NoSave.before, config}
      BY <2>z
    <3>2. UNCHANGED config /\ ever \subseteq ever'
          /\ \A m \in Mailbox : listed'[m] = 0 \/ listed'[m] = listed[m]
      BY <1>1, <2>z DEF BeginSave
    <3> QED  BY <1>a, <3>1, <3>2, PlainKept
  <2>10. StillThere'
    BY <1>1, <1>a, <2>z DEF BeginSave, StillThere
  <2>11. OrdersFit'
    <3>1. /\ ever \subseteq ever' /\ UNCHANGED <<turns, orders, config, sameAs, name>>
          /\ \A k \in Mailbox : listed'[k] \in {0, listed[k]}
      BY <1>1, <1>a, <2>z DEF BeginSave
    <3>2. \A k \in Mailbox : name[k] <= name'[k]
      BY <3>1, <1>a DEF MailNames
    <3>3. Known(config) /\ Known(config)'
      BY <1>a, <2>6 DEF MailKnown
    <3> QED  BY <1>a, <2>1, <2>2, <3>1, <3>2, <3>3, OrdersKept
  <2>12. ChoicesFit'
    BY <1>1, <1>a, <2>z DEF BeginSave, ChoicesFit
  <2>13. LaidOut'
    BY <1>1, <1>a, <2>z DEF BeginSave, LaidOut
  <2>14. Routes'
    <3>1. CASE \E o \in Saver : Busy(o)
      <4>1. why' # {}
        BY <1>1, <3>1 DEF BeginSave
      <4> QED  BY <4>1 DEF Routes
    <3>2. CASE ~(\E o \in Saver : Busy(o))
      <4>1. \A o \in Saver : save'[o].at \in {"idle", "list"}
        BY <3>2, <2>z DEF Busy
      <4>2. Busy(s)'
        BY <2>z DEF Busy
      <4> QED  BY <4>1, <4>2 DEF Routes, Comes
    <3> QED  BY <3>1, <3>2
  <2> QED  BY <2>1, <2>2, <2>3, <2>4, <2>5, <2>6, <2>7, <2>8, <2>9, <2>10, <2>11, <2>12, <2>13, <2>14 DEF MailInv
<1>2. ASSUME NEW s \in Saver, WriteConfig(s)
      PROVE  MailInv'
  <2>z. /\ OthersStay(s) /\ save'[s].at = "order" /\ save'[s].before = NoSave.before
        /\ save'[s].rows = NoSave.rows /\ save'[s].todo = <<>>
        /\ save'[s].want["sig"] = {Member(listed', a) : a \in Chosen(save[s].rows)}
        /\ save[s].at = "list" /\ config' = Rebuilt(listed', save[s].rows, save[s].before)
        /\ save[s].rows \in [Address -> Mode] /\ save[s].before \in EntryMap /\ config' \in EntryMap
    BY <1>2, <1>b, <1>a, WriteConfigDoes
  <2>1. MailTables'
    BY <1>2, <1>a, <2>z DEF WriteConfig, Because, MailTables
  <2>2. MailNames'
    BY <1>2, <1>a, ListsFetched DEF WriteConfig, MailNames
  <2>3. MailCounts'
    BY <1>2, <1>a, <2>z DEF WriteConfig, Because, MailCounts
  <2>4. MailSets'
    BY <1>2, <1>a, <2>z DEF WriteConfig, Because, MailSets
  <2>5. MailSwitches'
    BY <1>2, <1>a, <2>z DEF WriteConfig, Because, MailSwitches
  <2>6. MailKnown'
    <3>1. \A m \in Mailbox : name'[m] = name[m] /\ name[m] <= name'[m]
      BY <1>2, <1>a DEF WriteConfig, MailNames
    <3>2. \A o \in Saver : /\ save'[o].before \in {save[o].before, NoSave.before, config}
                           /\ save'[o].rows \in {save[o].rows, NoSave.rows}
      BY <2>z
    <3>3. Known(config')
      <4>1. KnownRows(save[s].rows)
        BY <1>a DEF MailKnown
      <4>2. listed' \in [Mailbox -> 0..MaxName] /\ \A m \in Mailbox : listed'[m] <= name[m]
        BY <1>2, <1>a, ListsFetched DEF WriteConfig
      <4> QED  BY <1>a, <2>z, <4>1, <4>2, RebuiltKnown
    <3>4. Known(config)'
      BY <1>2, <3>3 DEF Known, WriteConfig
    <3> QED  BY <1>a, <2>2, <3>1, <3>2, <3>4, KnownKept
  <2>7. MailTodo'
    BY <1>2, <1>a, <2>z DEF WriteConfig, Because, MailTodo
  <2>8. Alone'
    <3>1. \A o \in Saver : save'[o].at # "idle" => save[o].at # "idle"
      BY <1>2, <2>z, NothingSaved DEF WriteConfig, Because
    <3>2. "crossed" \in why \cap ever => "crossed" \in why' \cap ever'
      BY <1>2 DEF WriteConfig, Because
    <3> QED  BY <1>a, <3>1, <3>2, AloneKept
  <2>9. PlainMaps'
    <3>1. "unlisted" \notin ever' => "unlisted" \notin ever
      BY <1>2 DEF WriteConfig, Because
    <3> SUFFICES ASSUME "unlisted" \notin ever'
                 PROVE  /\ Plain(config)' /\ \A o \in Saver : Plain(save[o].before)'
                        /\ \A m \in Mailbox : listed'[m] = 0 \/ config'[<<m, 0>>].primary <= listed'[m]
      BY DEF PlainMaps
    <3>2. Plain(config)' /\ \A m \in Mailbox : config'[<<m, 0>>].primary <= listed'[m]
      BY <1>2, <1>i, WritePlain
    <3>3. \A o \in Saver : Plain(save[o].before)'
      <4>1. Plain(NoSave.before) /\ \A o \in Saver : Plain(save[o].before)
        BY <1>a, <3>1, NothingSaved DEF PlainMaps, Plain
      <4>2. \A o \in Saver : save'[o].before \in {save[o].before, NoSave.before}
        BY <2>z
      <4> QED  BY <4>1, <4>2 DEF Plain
    <3> QED  BY <3>2, <3>3
  <2>10. StillThere'
    <3> SUFFICES ASSUME ever' \cap {"unlisted", "crossed"} = {}, NEW o \in Saver, save'[o].at = "list"
                 PROVE  FALSE
      BY DEF StillThere
    <3>1. o # s /\ Busy(o) /\ Busy(s)
      BY <2>z DEF Busy
    <3>2. "crossed" \notin ever
      BY <1>2 DEF WriteConfig, Because
    <3> QED  BY <1>a, <3>1, <3>2 DEF Alone
  <2>11. OrdersFit'
    <3>1. ASSUME ever' \cap {"unlisted", "crossed"} = {}
          PROVE  \A a \in Address :
                   /\ orders'[a] <= turns'[a[1]] + Cardinality(Again(a, LastSeen(a[1]))')
                   /\ config'[<<a[1], 0>>].kind = "smime" /\ a[2] > config'[<<a[1], 0>>].primary
                        => orders'[a] < turns'[a[1]]
      BY <1>2, <1>i, <3>1, WriteOrders
    <3> QED  BY <3>1 DEF OrdersFit
  <2>12. ChoicesFit'
    <3> SUFFICES ASSUME ever' \cap {"unlisted", "meanwhile", "crossed"} = {}
                 PROVE  /\ \A o \in Saver : save'[o].at = "list" => save'[o].before = config'
                        /\ \A m \in chose' : config'[<<m, 0>>].own
      BY DEF ChoicesFit
    <3>1. ASSUME NEW o \in Saver, save'[o].at = "list" PROVE FALSE
      <4>1. o # s /\ Busy(o) /\ Busy(s)
        BY <3>1, <2>z DEF Busy
      <4>2. "crossed" \notin ever
        BY <1>2 DEF WriteConfig, Because
      <4> QED  BY <1>a, <4>1, <4>2 DEF Alone
    <3>2. \A m \in chose' : config'[<<m, 0>>].own
      BY <1>2, <1>i, WriteChoices
    <3> QED  BY <3>1, <3>2
  <2>13. LaidOut'
    BY <1>2, <1>a, <2>z DEF WriteConfig, Because, LaidOut
  <2>14. Routes'
    <3> SUFFICES ASSUME why' = {}
                 PROVE  (\A o \in Saver : Comes(o)') /\ ~(\A o \in Saver : ~Busy(o)')
      BY DEF Routes
    <3>1. why = {} /\ Busy(s) /\ save'[s].at # "idle" /\ Comes(s)'
      BY <1>2, <1>i, <2>z, WriteRoutes DEF WriteConfig, Because, Busy
    <3> QED  BY <1>a, <2>z, <3>1, OneComes
  <2> QED  BY <2>1, <2>2, <2>3, <2>4, <2>5, <2>6, <2>7, <2>8, <2>9, <2>10, <2>11, <2>12, <2>13, <2>14 DEF MailInv
<1>3. ASSUME NEW s \in Saver, BeginUpdate(s)
      PROVE  MailInv'
  <2>z. /\ OthersStay(s) /\ save[s].at = "order" /\ save'[s].at = "add"
        /\ save'[s].before = save[s].before /\ save'[s].rows = save[s].rows
        /\ save'[s].todo = Scripts /\ save'[s].want = Planned(save[s].want)
        /\ save[s].want \in [Group -> SUBSET Address] /\ Scripts # <<>>
    BY <1>3, <1>b, <1>a, BeginUpdateDoes
  <2>1. MailTables'
    BY <1>3, <1>a, <2>z DEF BeginUpdate, MailTables
  <2>2. MailNames'
    BY <1>3, <1>a, <2>z DEF BeginUpdate, MailNames
  <2>3. MailCounts'
    BY <1>3, <1>a, <2>z DEF BeginUpdate, MailCounts
  <2>4. MailSets'
    BY <1>3, <1>a, <2>z DEF BeginUpdate, MailSets
  <2>5. MailSwitches'
    BY <1>3, <1>a, <2>z DEF BeginUpdate, MailSwitches
  <2>6. MailKnown'
    <3>1. \A m \in Mailbox : name'[m] = name[m] /\ name[m] <= name'[m]
      BY <1>3, <1>a DEF BeginUpdate, MailNames
    <3>2. \A o \in Saver : /\ save'[o].before \in {save[o].before, NoSave.before, config}
                           /\ save'[o].rows \in {save[o].rows, NoSave.rows}
      BY <2>z
    <3> QED  BY <1>3, <1>a, <2>2, <3>1, <3>2, KnownKept DEF BeginUpdate
  <2>7. MailTodo'
    BY <1>3, <1>a, <2>z DEF BeginUpdate, MailTodo
  <2>8. Alone'
    <3>1. \A o \in Saver : save'[o].at # "idle" => save[o].at # "idle"
      BY <1>3, <2>z, NothingSaved DEF BeginUpdate
    <3>2. "crossed" \in why \cap ever => "crossed" \in why' \cap ever'
      BY <1>3 DEF BeginUpdate
    <3> QED  BY <1>a, <3>1, <3>2, AloneKept
  <2>9. PlainMaps'
    <3>1. \A o \in Saver : save'[o].before \in {save[o].before, NoSave.before, config}
      BY <2>z
    <3>2. UNCHANGED config /\ ever \subseteq ever'
          /\ \A m \in Mailbox : listed'[m] = 0 \/ listed'[m] = listed[m]
      BY <1>3, <2>z DEF BeginUpdate
    <3> QED  BY <1>a, <3>1, <3>2, PlainKept
  <2>10. StillThere'
    BY <1>3, <1>a, <2>z DEF BeginUpdate, StillThere
  <2>11. OrdersFit'
    <3>1. /\ ever \subseteq ever' /\ UNCHANGED <<turns, orders, config, sameAs, name>>
          /\ \A k \in Mailbox : listed'[k] \in {0, listed[k]}
      BY <1>3, <1>a, <2>z DEF BeginUpdate
    <3>2. \A k \in Mailbox : name[k] <= name'[k]
      BY <3>1, <1>a DEF MailNames
    <3>3. Known(config) /\ Known(config)'
      BY <1>a, <2>6 DEF MailKnown
    <3> QED  BY <1>a, <2>1, <2>2, <3>1, <3>2, <3>3, OrdersKept
  <2>12. ChoicesFit'
    BY <1>3, <1>a, <2>z DEF BeginUpdate, ChoicesFit
  <2>13. LaidOut'
    <3>1. laidOut' = split /\ UNCHANGED <<group, ruleOn, split>>
      BY <1>3 DEF BeginUpdate
    <3>2. ~split => Scripts = <<"sig", "scope">>
      BY DEF Scripts
    <3> QED  BY <1>a, <2>z, <3>1, <3>2 DEF LaidOut
  <2>14. Routes'
    <3> SUFFICES ASSUME why' = {}
                 PROVE  (\A o \in Saver : Comes(o)') /\ ~(\A o \in Saver : ~Busy(o)')
      BY DEF Routes
    <3>1. why = {} /\ Busy(s) /\ save'[s].at # "idle" /\ Comes(s)'
      BY <1>3, <1>i, <2>z, UpdateRoutes DEF BeginUpdate, Busy
    <3> QED  BY <1>a, <2>z, <3>1, OneComes
  <2> QED  BY <2>1, <2>2, <2>3, <2>4, <2>5, <2>6, <2>7, <2>8, <2>9, <2>10, <2>11, <2>12, <2>13, <2>14 DEF MailInv
<1>4. ASSUME NEW s \in Saver, NEW g \in Group, Removes(s, g)
      PROVE  MailInv'
  <2>z. /\ OthersStay(s) /\ save[s].at = "remove" /\ Head(save[s].todo) = g
        /\ save[s].todo \in Scripted \ {<<>>}
        /\ save[s].todo = <<"scope">> => save'[s] = NoSave
        /\ save[s].todo # <<"scope">> =>
              /\ save'[s].at = "add" /\ save'[s].todo = Tail(save[s].todo)
              /\ save'[s].todo # <<>> /\ save'[s].want = save[s].want
              /\ save'[s].before = save[s].before /\ save'[s].rows = save[s].rows
    BY <1>4, <1>b, <1>a, RemovesDoes
  <2>1. MailTables'
    BY <1>4, <1>a, <2>z DEF Removes, AtGroup, MailTables
  <2>2. MailNames'
    BY <1>4, <1>a, <2>z DEF Removes, AtGroup, MailNames
  <2>3. MailCounts'
    BY <1>4, <1>a, <2>z DEF Removes, AtGroup, MailCounts
  <2>4. MailSets'
    <3>1. group' \in [Group -> SUBSET Mailbox]
      BY <1>4, <1>a DEF Removes, MailSets
    <3>2. ruleOn' \subseteq {"sig", "smime"}
      BY <1>4, <1>a DEF Removes, MailSets, Group
    <3> QED  BY <1>4, <1>a, <3>1, <3>2 DEF Removes, MailSets
  <2>5. MailSwitches'
    BY <1>4, <1>a, <2>z DEF Removes, AtGroup, MailSwitches
  <2>6. MailKnown'
    <3>1. \A m \in Mailbox : name'[m] = name[m] /\ name[m] <= name'[m]
      BY <1>4, <1>a DEF Removes, MailNames
    <3>2. \A o \in Saver : /\ save'[o].before \in {save[o].before, NoSave.before, config}
                           /\ save'[o].rows \in {save[o].rows, NoSave.rows}
      BY <2>z
    <3> QED  BY <1>4, <1>a, <2>2, <3>1, <3>2, KnownKept DEF Removes
  <2>7. MailTodo'
    BY <1>4, <1>a, <2>z, NothingSaved DEF MailTodo
  <2>8. Alone'
    <3>1. \A o \in Saver : save'[o].at # "idle" => save[o].at # "idle"
      BY <1>4, <2>z, NothingSaved DEF Removes
    <3>2. "crossed" \in why \cap ever => "crossed" \in why' \cap ever'
      BY <1>4 DEF Removes
    <3> QED  BY <1>a, <3>1, <3>2, AloneKept
  <2>9. PlainMaps'
    <3>1. \A o \in Saver : save'[o].before \in {save[o].before, NoSave.before, config}
      BY <2>z
    <3>2. UNCHANGED config /\ ever \subseteq ever'
          /\ \A m \in Mailbox : listed'[m] = 0 \/ listed'[m] = listed[m]
      BY <1>4, <2>z DEF Removes
    <3> QED  BY <1>a, <3>1, <3>2, PlainKept
  <2>10. StillThere'
    <3>1. \A o \in Saver : save'[o].at = "list" => save'[o] = save[o] \/ save'[o].before = config
      BY <2>z, NothingSaved
    <3>2. UNCHANGED <<config, chose>> /\ ever \subseteq ever'
      BY <1>4 DEF Removes
    <3> QED  BY <1>a, <3>1, <3>2, StillThereKept
  <2>11. OrdersFit'
    <3>1. /\ ever \subseteq ever' /\ UNCHANGED <<turns, orders, config, sameAs, name>>
          /\ \A k \in Mailbox : listed'[k] \in {0, listed[k]}
      BY <1>4, <1>a, <2>z DEF Removes, AtGroup
    <3>2. \A k \in Mailbox : name[k] <= name'[k]
      BY <3>1, <1>a DEF MailNames
    <3>3. Known(config) /\ Known(config)'
      BY <1>a, <2>6 DEF MailKnown
    <3> QED  BY <1>a, <2>1, <2>2, <3>1, <3>2, <3>3, OrdersKept
  <2>12. ChoicesFit'
    <3>1. \A o \in Saver : save'[o].at = "list" => save'[o] = save[o] \/ save'[o].before = config
      BY <2>z, NothingSaved
    <3>2. UNCHANGED <<config, chose>> /\ ever \subseteq ever'
      BY <1>4 DEF Removes
    <3> QED  BY <1>a, <3>1, <3>2, ChoicesKeep
  <2>13. LaidOut'
    <3> SUFFICES ASSUME ~laidOut
                 PROVE  /\ group'["smime"] = {} /\ "smime" \notin ruleOn'
                        /\ \A o \in Saver : save'[o].todo \in {<<>>, <<"sig", "scope">>, <<"scope">>}
      BY <1>4, <1>a DEF Removes, LaidOut
    <3>1. save[s].todo \in {<<"sig", "scope">>, <<"scope">>}
      BY <1>a, <2>z DEF LaidOut
    <3>2. g # "smime" /\ (save[s].todo # <<"scope">> => Tail(save[s].todo) = <<"scope">>)
      BY <2>z, <3>1, TodoParts
    <3>3. group'["smime"] = {}
      BY <1>4, <1>a, <3>2 DEF Removes, LaidOut, MailSets, Group
    <3>4. "smime" \notin ruleOn'
      BY <1>4, <1>a, <3>2 DEF Removes, LaidOut
    <3>5. \A o \in Saver : save'[o].todo \in {<<>>, <<"sig", "scope">>, <<"scope">>}
      BY <1>a, <2>z, <3>2, NothingSaved DEF LaidOut
    <3> QED  BY <3>3, <3>4, <3>5
  <2>14. Routes'
    <3>0. why' = why
      BY <1>4 DEF Removes
    <3>1. CASE save[s].todo # <<"scope">>
      <4> SUFFICES ASSUME why' = {}
                   PROVE  (\A o \in Saver : Comes(o)') /\ ~(\A o \in Saver : ~Busy(o)')
        BY DEF Routes
      <4>1. why = {} /\ Busy(s) /\ save'[s].at # "idle" /\ Comes(s)'
        BY <1>4, <3>0, <3>1, <1>i, <2>z, RemovesRoutes DEF Busy
      <4> QED  BY <1>a, <2>z, <4>1, OneComes
    <3>2. CASE save[s].todo = <<"scope">>
      <4> SUFFICES ASSUME why' = {}
                   PROVE  (\A o \in Saver : Comes(o)') /\ ByGuid' /\ Done("sig")' /\ Done("smime")'
        BY DEF Routes
      <4>1. why = {} /\ Busy(s)
        BY <3>0, <2>z DEF Busy
      <4>2. \A o \in Saver : save'[o].at = "idle"
        BY <1>a, <2>z, <3>2, <4>1, OthersIdle, NothingSaved
      <4>3. ByGuid' /\ Done("sig")' /\ Done("smime")'
        BY <1>4, <3>2, <1>i, <4>1, RemovesRoutes
      <4> QED  BY <4>2, <4>3 DEF Comes
    <3> QED  BY <3>1, <3>2
  <2> QED  BY <2>1, <2>2, <2>3, <2>4, <2>5, <2>6, <2>7, <2>8, <2>9, <2>10, <2>11, <2>12, <2>13, <2>14 DEF MailInv
<1>5. ASSUME NEW s \in Saver, NEW g \in Group, NEW answered \in BOOLEAN, Adds(s, g, answered)
      PROVE  MailInv'
  <2>z. /\ OthersStay(s) /\ save[s].at = "add" /\ save'[s].at = "remove"
        /\ save'[s].before = save[s].before /\ save'[s].rows = save[s].rows
        /\ save'[s].todo = save[s].todo /\ Head(save[s].todo) = g
        /\ save'[s].cur = {Now(m) : m \in group[g]}
        /\ \A h \in Group \ {g, "scope"} : save'[s].want[h] = save[s].want[h]
        /\ g # "scope" => save'[s].want = save[s].want
    BY <1>5, <1>b, <1>a, AddsDoes
  <2>1. MailTables'
    BY <1>5, <1>a, <2>z DEF Adds, AtGroup, Because, MailTables
  <2>2. MailNames'
    BY <1>5, <1>a, <2>z DEF Adds, AtGroup, Because, MailNames
  <2>3. MailCounts'
    BY <1>5, <1>a, <2>z DEF Adds, AtGroup, Because, MailCounts
  <2>4. MailSets'
    <3>1. group' \in [Group -> SUBSET Mailbox]
      <4>1. save[s].want[g] \subseteq Address
        BY <1>a DEF MailTables, SaveRecord
      <4>2. AppScope \subseteq Mailbox \X (0..MaxName)
        <5>1. \A q \in Place : config[q].primary \in 0..MaxName
          BY <1>a DEF MailTables, EntryMap, MailEntry
        <5>2. ASSUME NEW x \in AppScope PROVE x \in Mailbox \X (0..MaxName)
          <6>1. PICK p \in Place : x = AddressOf(p[1], config[p].primary) /\ config[p].primary # 0
            BY DEF AppScope
          <6>2. config[p].primary \in 1..MaxName /\ p[1] \in Mailbox
            BY <5>1, <6>1, PlaceParts, MailboxAssumption
          <6>3. x \in Address
            BY <6>1, <6>2, <1>a, AddrParts
          <6> QED  BY <6>3, PlaceParts DEF Place
        <5> QED  BY <5>2
      <4>3. \A w : w \subseteq Mailbox \X (0..MaxName) => \A c : {a[1] : a \in w \ c} \subseteq Mailbox
        OBVIOUS
      <4>4. Address \subseteq Mailbox \X (0..MaxName)
        BY MailboxAssumption DEF Address
      <4> DEFINE w == IF g = "scope" THEN AppScope ELSE save[s].want[g]
      <4>5. \A c : {a[1] : a \in w \ c} \subseteq Mailbox
        BY <4>1, <4>2, <4>3, <4>4
      <4> HIDE DEF w
      <4>6. \/ group' = group
            \/ group' = [group EXCEPT ![g] = group[g] \cup {a[1] : a \in w \ {Now(m) : m \in group[g]}}]
        BY <1>5 DEF Adds, w
      <4> QED  BY <4>5, <4>6, <1>a DEF MailSets
    <3> QED  BY <1>5, <1>a, <3>1 DEF Adds, Because, MailSets
  <2>5. MailSwitches'
    BY <1>5, <1>a, <2>z DEF Adds, AtGroup, Because, MailSwitches
  <2>6. MailKnown'
    <3>1. \A m \in Mailbox : name'[m] = name[m] /\ name[m] <= name'[m]
      BY <1>5, <1>a DEF Adds, MailNames
    <3>2. \A o \in Saver : /\ save'[o].before \in {save[o].before, NoSave.before, config}
                           /\ save'[o].rows \in {save[o].rows, NoSave.rows}
      BY <2>z
    <3> QED  BY <1>5, <1>a, <2>2, <3>1, <3>2, KnownKept DEF Adds
  <2>7. MailTodo'
    BY <1>5, <1>a, <2>z DEF Adds, AtGroup, Because, MailTodo
  <2>8. Alone'
    <3>1. \A o \in Saver : save'[o].at # "idle" => save[o].at # "idle"
      BY <1>5, <2>z, NothingSaved DEF Adds, Because
    <3>2. "crossed" \in why \cap ever => "crossed" \in why' \cap ever'
      BY <1>5 DEF Adds, Because
    <3> QED  BY <1>a, <3>1, <3>2, AloneKept
  <2>9. PlainMaps'
    <3>1. \A o \in Saver : save'[o].before \in {save[o].before, NoSave.before, config}
      BY <2>z
    <3>2. UNCHANGED config /\ ever \subseteq ever'
          /\ \A m \in Mailbox : listed'[m] = 0 \/ listed'[m] = listed[m]
      BY <1>5, <2>z DEF Adds, Because
    <3> QED  BY <1>a, <3>1, <3>2, PlainKept
  <2>10. StillThere'
    BY <1>5, <1>a, <2>z DEF Adds, AtGroup, Because, StillThere
  <2>11. OrdersFit'
    <3>1. /\ ever \subseteq ever' /\ UNCHANGED <<turns, orders, config, sameAs, name>>
          /\ \A k \in Mailbox : listed'[k] \in {0, listed[k]}
      BY <1>5, <1>a, <2>z DEF Adds, AtGroup, Because
    <3>2. \A k \in Mailbox : name[k] <= name'[k]
      BY <3>1, <1>a DEF MailNames
    <3>3. Known(config) /\ Known(config)'
      BY <1>a, <2>6 DEF MailKnown
    <3> QED  BY <1>a, <2>1, <2>2, <3>1, <3>2, <3>3, OrdersKept
  <2>12. ChoicesFit'
    BY <1>5, <1>a, <2>z DEF Adds, AtGroup, Because, ChoicesFit
  <2>13. LaidOut'
    <3> SUFFICES ASSUME ~laidOut
                 PROVE  /\ group'["smime"] = {} /\ "smime" \notin ruleOn'
                        /\ \A o \in Saver : save'[o].todo \in {<<>>, <<"sig", "scope">>, <<"scope">>}
      BY <1>5, <1>a DEF Adds, LaidOut
    <3>1. save[s].todo \in {<<"sig", "scope">>, <<"scope">>}
      BY <1>a, <2>z DEF LaidOut, MailTodo
    <3>2. g # "smime"
      BY <2>z, <3>1
    <3>3. group'["smime"] = {}
      BY <1>5, <1>a, <3>2 DEF Adds, LaidOut, MailSets, Group
    <3>5. \A o \in Saver : save'[o].todo \in {<<>>, <<"sig", "scope">>, <<"scope">>}
      BY <1>a, <2>z DEF LaidOut
    <3> QED  BY <1>5, <1>a, <3>3, <3>5 DEF Adds, LaidOut
  <2>14. Routes'
    <3> SUFFICES ASSUME why' = {}
                 PROVE  (\A o \in Saver : Comes(o)') /\ ~(\A o \in Saver : ~Busy(o)')
      BY DEF Routes
    <3>0. why = {} /\ answered = TRUE
      BY <1>5 DEF Adds, Because
    <3>1. Busy(s) /\ save'[s].at # "idle" /\ Comes(s)'
      BY <1>5, <1>i, <3>0, <2>z, AddsRoutes DEF Busy
    <3> QED  BY <1>a, <2>z, <3>0, <3>1, OneComes
  <2> QED  BY <2>1, <2>2, <2>3, <2>4, <2>5, <2>6, <2>7, <2>8, <2>9, <2>10, <2>11, <2>12, <2>13, <2>14 DEF MailInv
<1>6. ASSUME NEW s \in Saver, ScriptAborts(s)
      PROVE  MailInv'
  <2>z. /\ OthersStay(s) /\ save[s].at \in {"add", "remove"}
        /\ \/ save'[s] = NoSave
           \/ /\ save'[s].at = "add" /\ save'[s].todo = <<"scope">>
              /\ save'[s].before = save[s].before /\ save'[s].rows = save[s].rows
    BY <1>6, <1>b, <1>a, ScriptAbortsDoes
  <2>1. MailTables'
    BY <1>6, <1>a, <2>z DEF ScriptAborts, Because, MailTables
  <2>2. MailNames'
    BY <1>6, <1>a, <2>z DEF ScriptAborts, Because, MailNames
  <2>3. MailCounts'
    BY <1>6, <1>a, <2>z DEF ScriptAborts, Because, MailCounts
  <2>4. MailSets'
    BY <1>6, <1>a, <2>z DEF ScriptAborts, Because, MailSets
  <2>5. MailSwitches'
    BY <1>6, <1>a, <2>z DEF ScriptAborts, Because, MailSwitches
  <2>6. MailKnown'
    <3>1. \A m \in Mailbox : name'[m] = name[m] /\ name[m] <= name'[m]
      BY <1>6, <1>a DEF ScriptAborts, MailNames
    <3>2. \A o \in Saver : /\ save'[o].before \in {save[o].before, NoSave.before, config}
                           /\ save'[o].rows \in {save[o].rows, NoSave.rows}
      BY <2>z
    <3> QED  BY <1>6, <1>a, <2>2, <3>1, <3>2, KnownKept DEF ScriptAborts
  <2>7. MailTodo'
    BY <1>6, <1>a, <2>z, NothingSaved DEF MailTodo
  <2>8. Alone'
    <3>1. \A o \in Saver : save'[o].at # "idle" => save[o].at # "idle"
      BY <1>6, <2>z, NothingSaved DEF ScriptAborts, Because
    <3>2. "crossed" \in why \cap ever => "crossed" \in why' \cap ever'
      BY <1>6 DEF ScriptAborts, Because
    <3> QED  BY <1>a, <3>1, <3>2, AloneKept
  <2>9. PlainMaps'
    <3>1. \A o \in Saver : save'[o].before \in {save[o].before, NoSave.before, config}
      BY <2>z
    <3>2. UNCHANGED config /\ ever \subseteq ever'
          /\ \A m \in Mailbox : listed'[m] = 0 \/ listed'[m] = listed[m]
      BY <1>6, <2>z DEF ScriptAborts, Because
    <3> QED  BY <1>a, <3>1, <3>2, PlainKept
  <2>10. StillThere'
    <3>1. \A o \in Saver : save'[o].at = "list" => save'[o] = save[o] \/ save'[o].before = config
      BY <2>z, NothingSaved
    <3>2. UNCHANGED <<config, chose>> /\ ever \subseteq ever'
      BY <1>6 DEF ScriptAborts, Because
    <3> QED  BY <1>a, <3>1, <3>2, StillThereKept
  <2>11. OrdersFit'
    <3>1. /\ ever \subseteq ever' /\ UNCHANGED <<turns, orders, config, sameAs, name>>
          /\ \A k \in Mailbox : listed'[k] \in {0, listed[k]}
      BY <1>6, <1>a, <2>z DEF ScriptAborts, Because
    <3>2. \A k \in Mailbox : name[k] <= name'[k]
      BY <3>1, <1>a DEF MailNames
    <3>3. Known(config) /\ Known(config)'
      BY <1>a, <2>6 DEF MailKnown
    <3> QED  BY <1>a, <2>1, <2>2, <3>1, <3>2, <3>3, OrdersKept
  <2>12. ChoicesFit'
    <3>1. \A o \in Saver : save'[o].at = "list" => save'[o] = save[o] \/ save'[o].before = config
      BY <2>z, NothingSaved
    <3>2. UNCHANGED <<config, chose>> /\ ever \subseteq ever'
      BY <1>6 DEF ScriptAborts, Because
    <3> QED  BY <1>a, <3>1, <3>2, ChoicesKeep
  <2>13. LaidOut'
    <3>1. \A o \in Saver : save'[o].todo \in {save[o].todo, <<>>, <<"scope">>}
      BY <2>z, NothingSaved
    <3>2. UNCHANGED <<split, laidOut, group, ruleOn>>
      BY <1>6 DEF ScriptAborts
    <3> QED  BY <1>a, <3>1, <3>2, LaidOutKept
  <2>14. Routes'
    BY <1>6 DEF ScriptAborts, Because, Routes
  <2> QED  BY <2>1, <2>2, <2>3, <2>4, <2>5, <2>6, <2>7, <2>8, <2>9, <2>10, <2>11, <2>12, <2>13, <2>14 DEF MailInv
<1>7. ASSUME NEW m \in Mailbox, SelfService(m)
      PROVE  MailInv'
  <2>z. /\ config' \in EntryMap
        /\ \A p \in Place : config'[p].kind = config[p].kind /\ config'[p].primary = config[p].primary
        /\ \A p \in Place : config[p].own => config'[p].own
        /\ \E p \in Place : p[1] = m /\ config[p].kind # "none" /\ config'[p].own
    BY <1>7, <1>b, <1>a, SelfServiceDoes
  <2>1. MailTables'
    BY <1>7, <1>a, <2>z DEF SelfService, MailTables
  <2>2. MailNames'
    BY <1>7, <1>a, <2>z DEF SelfService, MailNames
  <2>3. MailCounts'
    BY <1>7, <1>a, <2>z DEF SelfService, MailCounts
  <2>4. MailSets'
    BY <1>7, <1>a, <2>z DEF SelfService, MailSets
  <2>5. MailSwitches'
    BY <1>7, <1>a, <2>z DEF SelfService, MailSwitches
  <2>6. MailKnown'
    <3>1. \A b \in Mailbox : name'[b] = name[b] /\ name[b] <= name'[b]
      BY <1>7, <1>a DEF SelfService, MailNames
    <3>2. \A o \in Saver : /\ save'[o].before \in {save[o].before, NoSave.before, config}
                           /\ save'[o].rows \in {save[o].rows, NoSave.rows}
      BY <1>7 DEF SelfService
    <3>3. Known(config)'
      BY <1>7, <1>a, <2>z DEF MailKnown, Known, SelfService
    <3> QED  BY <1>a, <2>2, <3>1, <3>2, <3>3, KnownKept
  <2>7. MailTodo'
    BY <1>7, <1>a, <2>z DEF SelfService, MailTodo
  <2>8. Alone'
    <3>1. \A o \in Saver : save'[o].at # "idle" => save[o].at # "idle"
      BY <1>7, NothingSaved DEF SelfService
    <3>2. "crossed" \in why \cap ever => "crossed" \in why' \cap ever'
      BY <1>7 DEF SelfService
    <3> QED  BY <1>a, <3>1, <3>2, AloneKept
  <2>9. PlainMaps'
    <3>1. UNCHANGED <<save, listed>> /\ ever \subseteq ever'
      BY <1>7 DEF SelfService
    <3>2. Plain(config)' <=> Plain(config)
      BY <2>z DEF Plain
    <3>3. \A b \in Mailbox : config'[<<b, 0>>].primary = config[<<b, 0>>].primary
      BY <2>z, PlaceParts
    <3>4. \A o \in Saver : Plain(save[o].before)' <=> Plain(save[o].before)
      BY <3>1 DEF Plain
    <3> QED  BY <1>a, <3>1, <3>2, <3>3, <3>4 DEF PlainMaps
  <2>10. StillThere'
    BY <1>7, <1>a, <2>z DEF SelfService, StillThere
  <2>11. OrdersFit'
    <3>1. ever \subseteq ever' /\ UNCHANGED <<turns, orders, sameAs, name, listed>>
      BY <1>7 DEF SelfService
    <3>2. \A k \in Mailbox : name[k] <= name'[k]
      BY <3>1, <1>a DEF MailNames
    <3>3. Known(config) /\ Known(config)'
      BY <1>a, <2>6 DEF MailKnown
    <3> QED  BY <1>a, <2>z, <2>1, <2>2, <3>1, <3>2, <3>3, OrdersKept
  <2>12. ChoicesFit'
    <3> SUFFICES ASSUME ever' \cap {"unlisted", "meanwhile", "crossed"} = {}
                 PROVE  /\ \A o \in Saver : save'[o].at = "list" => save'[o].before = config'
                        /\ \A k \in chose' : config'[<<k, 0>>].own
      BY DEF ChoicesFit
    <3>1. ever \cap {"unlisted", "meanwhile", "crossed"} = {} /\ ~(\E o \in Saver : save[o].at = "list")
      BY <1>7 DEF SelfService
    <3>2. \A k \in chose : config'[<<k, 0>>].own
      BY <1>a, <3>1, <2>z, PlaceParts DEF ChoicesFit, MailSets
    <3>3. config'[<<m, 0>>].own
      <4>1. PICK p \in Place : p[1] = m /\ config[p].kind # "none" /\ config'[p].own
        BY <2>z
      <4>2. p[2] = 0
        BY <1>a, <3>1, <4>1 DEF PlainMaps, Plain
      <4> QED  BY <4>1, <4>2, PlaceParts
    <3> QED  BY <1>7, <3>1, <3>2, <3>3 DEF SelfService
  <2>13. LaidOut'
    BY <1>7, <1>a, <2>z DEF SelfService, LaidOut
  <2>14. Routes'
    BY <1>7, <1>a, <2>z, RoutesKept DEF SelfService, exchange, nameVars
  <2> QED  BY <2>1, <2>2, <2>3, <2>4, <2>5, <2>6, <2>7, <2>8, <2>9, <2>10, <2>11, <2>12, <2>13, <2>14 DEF MailInv
<1>8. ASSUME NEW m \in Mailbox, RenameMailbox(m)
      PROVE  MailInv'
  <2>1. MailTables'
    BY <1>8, <1>a DEF RenameMailbox, Because, MailTables
  <2>2. MailNames'
    <3>1. name[m] \in 1..MaxName /\ name[m] < MaxName /\ name' = [name EXCEPT ![m] = name[m] + 1]
      BY <1>8, <1>a DEF RenameMailbox, MailNames
    <3>2. name' \in [Mailbox -> 1..MaxName] /\ \A k \in Mailbox : name[k] <= name'[k]
      <4>1. name[m] + 1 \in 1..MaxName
        BY <3>1, MailboxAssumption
      <4>2. \A k \in Mailbox : name[k] \in Nat
        BY <1>a DEF MailNames
      <4> QED  BY <3>1, <4>1, <4>2, <1>a DEF MailNames
    <3>3. \A k \in Mailbox : listed'[k] <= name'[k]
      <4>1. listed' = listed
        BY <1>8 DEF RenameMailbox
      <4>2. ASSUME NEW k \in Mailbox PROVE listed[k] <= name'[k]
        <5>1. listed[k] \in 0..MaxName /\ name[k] \in 1..MaxName /\ name'[k] \in 1..MaxName
              /\ listed[k] <= name[k] /\ name[k] <= name'[k]
          BY <1>a, <3>2 DEF MailNames
        <5> QED  BY <5>1
      <4> QED  BY <4>1, <4>2
    <3>4. PICK n \in 1..(name[m] + 1) : sameAs' = [sameAs EXCEPT ![<<m, name[m] + 1>>] = n]
      BY <1>8 DEF RenameMailbox
    <3>5. name[m] + 1 \in 1..MaxName /\ n \in 1..MaxName
      BY <3>1, <3>4, MailboxAssumption
    <3>6. \A a \in Address : sameAs'[a] = IF a = <<m, name[m] + 1>> THEN n ELSE sameAs[a]
      BY <3>4, <1>a DEF MailNames
    <3>7. sameAs' \in [Address -> 1..MaxName]
      BY <3>4, <3>5, <1>a DEF MailNames
    <3>8. \A a \in Address : sameAs'[a] <= a[2]
      BY <3>4, <3>6, <1>a DEF MailNames
    <3> QED  BY <1>8, <1>a, <3>2, <3>3, <3>7, <3>8 DEF RenameMailbox, MailNames
  <2>3. MailCounts'
    BY <1>8, <1>a DEF RenameMailbox, Because, MailCounts
  <2>4. MailSets'
    BY <1>8, <1>a DEF RenameMailbox, Because, MailSets
  <2>5. MailSwitches'
    BY <1>8, <1>a DEF RenameMailbox, Because, MailSwitches
  <2>6. MailKnown'
    <3>1. \A k \in Mailbox : name[k] <= name'[k]
      <4>1. \A k \in Mailbox : name[k] \in Nat
        BY <1>a DEF MailNames
      <4> QED  BY <1>8, <1>a, <4>1 DEF RenameMailbox, MailNames
    <3>2. \A o \in Saver : /\ save'[o].before \in {save[o].before, NoSave.before, config}
                           /\ save'[o].rows \in {save[o].rows, NoSave.rows}
      BY <1>8 DEF RenameMailbox
    <3> QED  BY <1>8, <1>a, <2>2, <3>1, <3>2, KnownKept DEF RenameMailbox
  <2>7. MailTodo'
    BY <1>8, <1>a DEF RenameMailbox, Because, MailTodo
  <2>8. Alone'
    <3>1. \A o \in Saver : save'[o].at # "idle" => save[o].at # "idle"
      BY <1>8, NothingSaved DEF RenameMailbox, Because
    <3>2. "crossed" \in why \cap ever => "crossed" \in why' \cap ever'
      BY <1>8 DEF RenameMailbox, Because
    <3> QED  BY <1>a, <3>1, <3>2, AloneKept
  <2>9. PlainMaps'
    BY <1>8, <1>a DEF RenameMailbox, Because, PlainMaps
  <2>10. StillThere'
    BY <1>8, <1>a DEF RenameMailbox, Because, StillThere
  <2>11. OrdersFit'
    <3>1. /\ ever \subseteq ever' /\ UNCHANGED <<turns, orders, config, listed>>
          /\ \E n : sameAs' = [sameAs EXCEPT ![<<m, name[m] + 1>>] = n]
          /\ name' = [name EXCEPT ![m] = name[m] + 1]
      BY <1>8 DEF RenameMailbox, Because
    <3>2. \A k \in Mailbox : name[k] \in Nat
      BY <1>a DEF MailNames
    <3>3. \A k \in Mailbox : name[k] <= name'[k]
      BY <3>1, <3>2, <1>a DEF MailNames
    <3>4. \A a \in Address : a[2] <= name[a[1]] => sameAs'[a] = sameAs[a]
      <4>1. \A a \in Address : a[2] <= name[a[1]] => a # <<m, name[m] + 1>>
        BY <3>2
      <4> QED  BY <3>1, <4>1, <1>a DEF MailNames
    <3>5. Known(config) /\ Known(config)'
      BY <1>a, <2>6 DEF MailKnown
    <3> QED  BY <1>a, <2>1, <2>2, <3>1, <3>3, <3>4, <3>5, OrdersKept
  <2>12. ChoicesFit'
    BY <1>8, <1>a DEF RenameMailbox, Because, ChoicesFit
  <2>13. LaidOut'
    BY <1>8, <1>a DEF RenameMailbox, Because, LaidOut
  <2>14. Routes'
    <3> SUFFICES ASSUME why' = {}
                 PROVE  (\A o \in Saver : Comes(o)') /\ ByGuid' /\ Done("sig")' /\ Done("smime")'
      BY DEF Routes
    <3>1. why = {} /\ \A o \in Saver : ~Busy(o)
      BY <1>8 DEF RenameMailbox, Because
    <3>2. UNCHANGED <<group, ruleOn, config, laidOut, save>>
      BY <1>8 DEF RenameMailbox
    <3>3. ByGuid /\ Done("sig") /\ Done("smime")
      BY <1>a, <3>1 DEF Routes
    <3>4. ByGuid' /\ Done("sig")' /\ Done("smime")'
      BY <3>2, <3>3 DEF ByGuid, Done, Target, Signing, Ciphering
    <3>5. \A o \in Saver : Comes(o)'
      BY <3>1, <3>2 DEF Comes, Busy
    <3> QED  BY <3>4, <3>5
  <2> QED  BY <2>1, <2>2, <2>3, <2>4, <2>5, <2>6, <2>7, <2>8, <2>9, <2>10, <2>11, <2>12, <2>13, <2>14 DEF MailInv
<1>9. CASE Migrate
  <2>z. /\ config' \in EntryMap
        /\ \E p \in Place : p[2] # 0 /\ config[p].kind # "none"
        /\ \A p \in Place :
             \/ config'[p] = NoEntry
             \/ config'[p] = config[p]
             \/ p[2] = 0 /\ config'[p].primary = listed'[p[1]] /\ config'[p].kind # "none" 
    BY <1>9, <1>b, <1>a, MigrateDoes
  <2>u. "unlisted" \in ever'
    BY <1>9, <1>a, <2>z DEF Migrate, PlainMaps, Plain
  <2>1. MailTables'
    BY <1>9, <1>a, <2>z DEF Migrate, MailTables
  <2>2. MailNames'
    BY <1>9, <1>a, ListsFetched DEF Migrate, MailNames
  <2>3. MailCounts'
    BY <1>9, <1>a, <2>z DEF Migrate, MailCounts
  <2>4. MailSets'
    BY <1>9, <1>a, <2>z DEF Migrate, MailSets
  <2>5. MailSwitches'
    BY <1>9, <1>a, <2>z DEF Migrate, MailSwitches
  <2>6. MailKnown'
    <3>1. \A m \in Mailbox : name'[m] = name[m] /\ name[m] <= name'[m]
      BY <1>9, <1>a DEF Migrate, MailNames
    <3>2. \A o \in Saver : /\ save'[o].before \in {save[o].before, NoSave.before, config}
                           /\ save'[o].rows \in {save[o].rows, NoSave.rows}
      BY <1>9 DEF Migrate
    <3>3. Known(config)'
      <4>1. ASSUME NEW p \in Place
            PROVE  /\ config'[p].kind # "none" => p[2] <= name[p[1]]
                   /\ config'[p].primary <= name[p[1]]
                   /\ config'[p].kind = "none" => config'[p].primary = 0
        <5>1. p[1] \in Mailbox /\ name[p[1]] \in 1..MaxName
          BY PlaceParts, <1>a DEF MailNames
        <5>2. listed'[p[1]] \in 0..MaxName /\ listed'[p[1]] <= name[p[1]]
          BY <1>9, <1>a, <5>1, ListsFetched DEF Migrate
        <5>3. NoEntry.kind = "none" /\ NoEntry.primary = 0
          BY DEF NoEntry
        <5>4. Known(config)
          BY <1>a DEF MailKnown
        <5> QED  BY <5>1, <5>2, <5>3, <5>4, <2>z DEF Known
      <4> QED  BY <1>9, <4>1 DEF Known, Migrate
    <3> QED  BY <1>a, <2>2, <3>1, <3>2, <3>3, KnownKept
  <2>7. MailTodo'
    BY <1>9, <1>a, <2>z DEF Migrate, MailTodo
  <2>8. Alone'
    <3>1. \A o \in Saver : save'[o].at # "idle" => save[o].at # "idle"
      BY <1>9, NothingSaved DEF Migrate
    <3>2. "crossed" \in why \cap ever => "crossed" \in why' \cap ever'
      BY <1>9 DEF Migrate
    <3> QED  BY <1>a, <3>1, <3>2, AloneKept
  <2>9. PlainMaps'
    BY <2>u DEF PlainMaps
  <2>10. StillThere'
    BY <2>u DEF StillThere
  <2>11. OrdersFit'
    BY <2>u DEF OrdersFit
  <2>12. ChoicesFit'
    BY <2>u DEF ChoicesFit
  <2>13. LaidOut'
    BY <1>9, <1>a, <2>z DEF Migrate, LaidOut
  <2>14. Routes'
    <3> SUFFICES ASSUME why' = {}
                 PROVE  (\A o \in Saver : Comes(o)') /\ ~(\A o \in Saver : ~Busy(o)')
      BY DEF Routes
    <3>1. why = {} /\ save' = save
      BY <1>9 DEF Migrate
    <3>2. ~ByGuid /\ ~ByName
      BY <2>z DEF ByGuid, ByName
    <3>3. ~(\A o \in Saver : ~Busy(o))
      BY <1>a, <3>1, <3>2 DEF Routes
    <3>4. \A o \in Saver : save[o].at \in {"idle", "list"}
      <4>1. \A o \in Saver : save[o].at \in {"idle", "list", "order", "add", "remove"}
        BY <1>a DEF MailTables, SaveRecord
      <4> QED  BY <1>a, <3>1, <3>2, <4>1 DEF Routes, Comes
    <3> QED  BY <3>1, <3>3, <3>4 DEF Comes, Busy
  <2> QED  BY <2>1, <2>2, <2>3, <2>4, <2>5, <2>6, <2>7, <2>8, <2>9, <2>10, <2>11, <2>12, <2>13, <2>14 DEF MailInv
<1>10. CASE SplitOn
  <2>1. MailTables'
    BY <1>10, <1>a DEF SplitOn, MailTables
  <2>2. MailNames'
    BY <1>10, <1>a DEF SplitOn, MailNames
  <2>3. MailCounts'
    BY <1>10, <1>a DEF SplitOn, MailCounts
  <2>4. MailSets'
    BY <1>10, <1>a DEF SplitOn, MailSets
  <2>5. MailSwitches'
    BY <1>10, <1>a DEF SplitOn, MailSwitches
  <2>6. MailKnown'
    <3>1. \A m \in Mailbox : name'[m] = name[m] /\ name[m] <= name'[m]
      BY <1>10, <1>a DEF SplitOn, MailNames
    <3>2. \A o \in Saver : /\ save'[o].before \in {save[o].before, NoSave.before, config}
                           /\ save'[o].rows \in {save[o].rows, NoSave.rows}
      BY <1>10 DEF SplitOn
    <3> QED  BY <1>10, <1>a, <2>2, <3>1, <3>2, KnownKept DEF SplitOn
  <2>7. MailTodo'
    BY <1>10, <1>a DEF SplitOn, MailTodo
  <2>8. Alone'
    <3>1. \A o \in Saver : save'[o].at # "idle" => save[o].at # "idle"
      BY <1>10, NothingSaved DEF SplitOn
    <3>2. "crossed" \in why \cap ever => "crossed" \in why' \cap ever'
      BY <1>10 DEF SplitOn
    <3> QED  BY <1>a, <3>1, <3>2, AloneKept
  <2>9. PlainMaps'
    BY <1>10, <1>a DEF SplitOn, PlainMaps
  <2>10. StillThere'
    BY <1>10, <1>a DEF SplitOn, StillThere
  <2>11. OrdersFit'
    <3>1. /\ ever \subseteq ever' /\ UNCHANGED <<turns, orders, config, sameAs, name>>
          /\ \A k \in Mailbox : listed'[k] \in {0, listed[k]}
      BY <1>10, <1>a DEF SplitOn
    <3>2. \A k \in Mailbox : name[k] <= name'[k]
      BY <3>1, <1>a DEF MailNames
    <3>3. Known(config) /\ Known(config)'
      BY <1>a, <2>6 DEF MailKnown
    <3> QED  BY <1>a, <2>1, <2>2, <3>1, <3>2, <3>3, OrdersKept
  <2>12. ChoicesFit'
    BY <1>10, <1>a DEF SplitOn, ChoicesFit
  <2>13. LaidOut'
    BY <1>10, <1>a DEF SplitOn, LaidOut
  <2>14. Routes'
    BY <1>10, <1>a, RoutesKept DEF SplitOn, exchange, nameVars
  <2> QED  BY <2>1, <2>2, <2>3, <2>4, <2>5, <2>6, <2>7, <2>8, <2>9, <2>10, <2>11, <2>12, <2>13, <2>14 DEF MailInv
<1>11. CASE MailboxRestart
  <2>z. /\ save' \in [Saver -> SaveRecord] /\ \A s \in Saver : save'[s] = NoSave
        /\ listed' \in [Mailbox -> 0..MaxName] /\ \A m \in Mailbox : listed'[m] = 0
    BY <1>11, <1>b, <1>a, MailRestartDoes
  <2>1. MailTables'
    BY <1>11, <1>a, <2>z DEF MailboxRestart, Because, MailTables
  <2>2. MailNames'
    BY <1>11, <1>a, <2>z DEF MailboxRestart, Because, MailNames
  <2>3. MailCounts'
    BY <1>11, <1>a, <2>z DEF MailboxRestart, Because, MailCounts
  <2>4. MailSets'
    BY <1>11, <1>a, <2>z DEF MailboxRestart, Because, MailSets
  <2>5. MailSwitches'
    BY <1>11, <1>a, <2>z DEF MailboxRestart, Because, MailSwitches
  <2>6. MailKnown'
    <3>1. \A m \in Mailbox : name'[m] = name[m] /\ name[m] <= name'[m]
      BY <1>11, <1>a DEF MailboxRestart, MailNames
    <3>2. \A o \in Saver : /\ save'[o].before \in {save[o].before, NoSave.before, config}
                           /\ save'[o].rows \in {save[o].rows, NoSave.rows}
      BY <2>z
    <3> QED  BY <1>11, <1>a, <2>2, <3>1, <3>2, KnownKept DEF MailboxRestart
  <2>7. MailTodo'
    BY <1>11, <1>a, <2>z, NothingSaved DEF MailTodo
  <2>8. Alone'
    <3>1. \A o \in Saver : save'[o].at # "idle" => save[o].at # "idle"
      BY <1>11, <2>z, NothingSaved DEF MailboxRestart, Because
    <3>2. "crossed" \in why \cap ever => "crossed" \in why' \cap ever'
      BY <1>11 DEF MailboxRestart, Because
    <3> QED  BY <1>a, <3>1, <3>2, AloneKept
  <2>9. PlainMaps'
    <3>1. \A o \in Saver : save'[o].before \in {save[o].before, NoSave.before, config}
      BY <2>z
    <3>2. UNCHANGED config /\ ever \subseteq ever'
          /\ \A m \in Mailbox : listed'[m] = 0 \/ listed'[m] = listed[m]
      BY <1>11, <2>z DEF MailboxRestart, Because
    <3> QED  BY <1>a, <3>1, <3>2, PlainKept
  <2>10. StillThere'
    <3>1. \A o \in Saver : save'[o].at = "list" => save'[o] = save[o] \/ save'[o].before = config
      BY <2>z, NothingSaved
    <3>2. UNCHANGED <<config, chose>> /\ ever \subseteq ever'
      BY <1>11 DEF MailboxRestart, Because
    <3> QED  BY <1>a, <3>1, <3>2, StillThereKept
  <2>11. OrdersFit'
    <3>1. /\ ever \subseteq ever' /\ UNCHANGED <<turns, orders, config, sameAs, name>>
          /\ \A k \in Mailbox : listed'[k] \in {0, listed[k]}
      BY <1>11, <1>a, <2>z DEF MailboxRestart, Because
    <3>2. \A k \in Mailbox : name[k] <= name'[k]
      BY <3>1, <1>a DEF MailNames
    <3>3. Known(config) /\ Known(config)'
      BY <1>a, <2>6 DEF MailKnown
    <3> QED  BY <1>a, <2>1, <2>2, <3>1, <3>2, <3>3, OrdersKept
  <2>12. ChoicesFit'
    <3>1. \A o \in Saver : save'[o].at = "list" => save'[o] = save[o] \/ save'[o].before = config
      BY <2>z, NothingSaved
    <3>2. UNCHANGED <<config, chose>> /\ ever \subseteq ever'
      BY <1>11 DEF MailboxRestart, Because
    <3> QED  BY <1>a, <3>1, <3>2, ChoicesKeep
  <2>13. LaidOut'
    <3>1. \A o \in Saver : save'[o].todo \in {save[o].todo, <<>>, <<"scope">>}
      BY <2>z, NothingSaved
    <3>2. UNCHANGED <<split, laidOut, group, ruleOn>>
      BY <1>11 DEF MailboxRestart
    <3> QED  BY <1>a, <3>1, <3>2, LaidOutKept
  <2>14. Routes'
    <3> SUFFICES ASSUME why' = {}
                 PROVE  (\A o \in Saver : Comes(o)') /\ ByGuid' /\ Done("sig")' /\ Done("smime")'
      BY DEF Routes
    <3>1. why = {} /\ \A o \in Saver : ~Busy(o)
      BY <1>11 DEF MailboxRestart, Because
    <3>2. UNCHANGED <<group, ruleOn, config, laidOut>>
      BY <1>11 DEF MailboxRestart
    <3>3. ByGuid /\ Done("sig") /\ Done("smime")
      BY <1>a, <3>1 DEF Routes
    <3>4. ByGuid' /\ Done("sig")' /\ Done("smime")'
      BY <3>2, <3>3 DEF ByGuid, Done, Target, Signing, Ciphering
    <3>5. \A o \in Saver : Comes(o)'
      BY <2>z, NothingSaved DEF Comes
    <3> QED  BY <3>4, <3>5
  <2> QED  BY <2>1, <2>2, <2>3, <2>4, <2>5, <2>6, <2>7, <2>8, <2>9, <2>10, <2>11, <2>12, <2>13, <2>14 DEF MailInv
<1>12. CASE UNCHANGED mailboxVars
  <2>1. MailTables'
    BY <1>12, <1>a DEF mailboxVars, MailTables
  <2>2. MailNames'
    BY <1>12, <1>a DEF mailboxVars, MailNames
  <2>3. MailCounts'
    BY <1>12, <1>a DEF mailboxVars, MailCounts
  <2>4. MailSets'
    BY <1>12, <1>a DEF mailboxVars, MailSets
  <2>5. MailSwitches'
    BY <1>12, <1>a DEF mailboxVars, MailSwitches
  <2>6. MailKnown'
    <3>1. \A m \in Mailbox : name'[m] = name[m] /\ name[m] <= name'[m]
      BY <1>12, <1>a DEF mailboxVars, MailNames
    <3>2. \A o \in Saver : /\ save'[o].before \in {save[o].before, NoSave.before, config}
                           /\ save'[o].rows \in {save[o].rows, NoSave.rows}
      BY <1>12 DEF mailboxVars
    <3> QED  BY <1>12, <1>a, <2>2, <3>1, <3>2, KnownKept DEF mailboxVars
  <2>7. MailTodo'
    BY <1>12, <1>a DEF mailboxVars, MailTodo
  <2>8. Alone'
    <3>1. \A o \in Saver : save'[o].at # "idle" => save[o].at # "idle"
      BY <1>12, NothingSaved DEF mailboxVars
    <3>2. "crossed" \in why \cap ever => "crossed" \in why' \cap ever'
      BY <1>12 DEF mailboxVars
    <3> QED  BY <1>a, <3>1, <3>2, AloneKept
  <2>9. PlainMaps'
    BY <1>12, <1>a DEF mailboxVars, PlainMaps
  <2>10. StillThere'
    BY <1>12, <1>a DEF mailboxVars, StillThere
  <2>11. OrdersFit'
    <3>1. /\ ever \subseteq ever' /\ UNCHANGED <<turns, orders, config, sameAs, name>>
          /\ \A k \in Mailbox : listed'[k] \in {0, listed[k]}
      BY <1>12, <1>a DEF mailboxVars
    <3>2. \A k \in Mailbox : name[k] <= name'[k]
      BY <3>1, <1>a DEF MailNames
    <3>3. Known(config) /\ Known(config)'
      BY <1>a, <2>6 DEF MailKnown
    <3> QED  BY <1>a, <2>1, <2>2, <3>1, <3>2, <3>3, OrdersKept
  <2>12. ChoicesFit'
    BY <1>12, <1>a DEF mailboxVars, ChoicesFit
  <2>13. LaidOut'
    BY <1>12, <1>a DEF mailboxVars, LaidOut
  <2>14. Routes'
    BY <1>12, <1>a, RoutesKept DEF mailboxVars, exchange, nameVars
  <2> QED  BY <2>1, <2>2, <2>3, <2>4, <2>5, <2>6, <2>7, <2>8, <2>9, <2>10, <2>11, <2>12, <2>13, <2>14 DEF MailInv
<1> QED  BY <1>1, <1>2, <1>3, <1>4, <1>5, <1>6, <1>7, <1>8, <1>9, <1>10, <1>11, <1>12 DEF MailboxNext
(* What the invariant says of the properties.                               *)
LEMMA MailTypesHold == MailInv => MailboxTypeOK
<1> SUFFICES ASSUME MailInv PROVE MailboxTypeOK
  OBVIOUS
<1>a. MailTables /\ MailNames /\ MailSets
  BY DEF MailInv
<1>1. \A p \in Place : config[p].primary \in 0..MaxName
  BY <1>a DEF MailTables, EntryMap, MailEntry
<1> QED  BY <1>a, <1>1 DEF MailNames, MailSets, MailboxTypeOK

LEMMA OrdersFromInv == MailInv => OnlySwitchedOnOrders
<1> SUFFICES ASSUME MailInv, NEW a \in Address, orders[a] > turns[a[1]] + Returns(a),
                    ever \cap {"unlisted", "crossed"} = {}
             PROVE  FALSE
  BY DEF OnlySwitchedOnOrders
<1>a. MailTables /\ MailNames /\ MailCounts /\ Known(config) /\ OrdersFit
  BY DEF MailInv, MailKnown
<1>0. a[1] \in Mailbox
  BY PlaceParts
<1>1. orders[a] <= turns[a[1]] + Cardinality(Again(a, LastSeen(a[1])))
  BY <1>a DEF OrdersFit
<1>2. orders[a] \in Nat /\ turns[a[1]] \in Nat
  BY <1>0, <1>a DEF MailCounts
<1>3. LastSeen(a[1]) \in Nat /\ name[a[1]] \in Nat /\ LastSeen(a[1]) <= name[a[1]]
  BY <1>0, <1>a, SeenParts DEF MailNames
<1>4. /\ Cardinality(Again(a, LastSeen(a[1]))) \in Nat /\ Cardinality(Again(a, name[a[1]])) \in Nat
      /\ Cardinality(Again(a, LastSeen(a[1]))) <= Cardinality(Again(a, name[a[1]]))
  BY <1>3, AgainGrows
<1>5. Returns(a) = Cardinality(Again(a, name[a[1]]))
  BY DEF Returns, Again
<1> QED  BY <1>1, <1>2, <1>4, <1>5

LEMMA RoutesFromInv == MailInv => RoutedAsSaved
<1> SUFFICES ASSUME MailInv, why = {}, \A s \in Saver : ~Busy(s), NEW m \in Mailbox
             PROVE  /\ Routed(m) <=> Signs(config, m)
                    /\ laidOut /\ Ciphers(config, m) => m \notin group["sig"]
  BY DEF RoutedAsSaved
<1>1. ByGuid /\ Done("sig") /\ Done("smime") /\ ruleOn \subseteq {"sig", "smime"}
  BY DEF MailInv, Routes, MailSets
<1>0. <<m, 0>> \in Place /\ \A p \in Place : config[p].kind # "none" /\ p[1] = m => p = <<m, 0>>
  BY <1>1, PlaceParts DEF ByGuid
<1>2. Signs(config, m) <=> m \in Signing
  <2>1. config[<<m, 0>>].kind = "none" => \A p \in Place : p[1] = m => config[p].kind = "none"
    BY <1>0
  <2>2. config[<<m, 0>>].kind \in Kinds(config, m)
    BY <1>0 DEF Kinds
  <2>3. Kinds(config, m) = {"none"} <=> \A p \in Place : p[1] = m => config[p].kind = "none"
    BY <2>2 DEF Kinds
  <2> QED  BY <1>0, <2>1, <2>3 DEF Signs, Signing
<1>3. Ciphers(config, m) <=> m \in Ciphering
  <2>1. Ciphers(config, m) => config[<<m, 0>>].kind = "smime"
    BY <1>0 DEF Ciphers, Kinds
  <2>2. config[<<m, 0>>].kind = "smime" => Ciphers(config, m)
    BY <1>0 DEF Ciphers, Kinds
  <2> QED  BY <2>1, <2>2 DEF Ciphering
<1>4. Routed(m) <=> m \in Target("sig") \cup Target("smime")
  BY <1>1 DEF Routed, Done
<1>5. Ciphering \subseteq Signing
  BY DEF Signing, Ciphering
<1> QED  BY <1>1, <1>2, <1>3, <1>4, <1>5 DEF Target, Done

LEMMA ChoicesFromInv == MailInv => ChoicesKept
<1> SUFFICES ASSUME MailInv, NEW m \in chose, ever \cap {"unlisted", "meanwhile", "crossed"} = {}
             PROVE  \E p \in Place : p[1] = m /\ config[p].own
  BY DEF ChoicesKept
<1>1. config[<<m, 0>>].own /\ m \in Mailbox
  BY DEF MailInv, ChoicesFit, MailSets
<1>2. <<m, 0>> \in Place /\ <<m, 0>>[1] = m
  BY <1>1, PlaceParts
<1> QED  BY <1>1, <1>2

LEMMA MailCorrect == MailboxInit /\ [][MailboxNext]_mailboxVars => []MailInv
<1>1. MailboxInit => MailInv
  BY MailStarts DEF MailInv, MailShape
<1> QED  BY <1>1, MailStep, PTL
================================================================================
