----------------------------- MODULE Tenant_proofs -----------------------------
(***************************************************************************)
(* Proofs about the ten parts MCTenant puts side by side: for each an      *)
(* inductive invariant and what follows from it, for every number of       *)
(* apps, certificates, mailboxes, keys, templates, versions and days and   *)
(* every bound; then the theorems about the whole.  The two longest have   *)
(* modules of their own.                                                   *)
(***************************************************************************)
EXTENDS MCTenant, AppIdentity_proofs, Mailboxes_proofs

-----------------------------------------------------------------------------
(* OwnKeys                                                                 *)

JobRecord == [at : {"idle", "asked", "imported"}, slot : Slot \cup {NoSlot},
              lock : Lock \cup {Nothing}, rest : SUBSET Slot]

(* A migration has in hand a key that was there, and has put it in the     *)
(* vault before it touches the file.                                       *)
JobFits(j) ==
  /\ j \in JobRecord
  /\ j.at # "idle" => j.slot \in Slot /\ j.lock # Nothing
VaultFirst ==
  JobFits(job) /\ (job.at = "imported" => job.slot \in vault.versions)

KeysInv == KeysTypeOK /\ VaultFirst /\ NoKeyLost

LEMMA FirstIn ==
  ASSUME NEW S \in SUBSET Slot
  PROVE  First(S) \in Slot \cup {NoSlot} /\ (S # {} => First(S) \in S)
<1>1. CASE S = {}
  BY <1>1 DEF First
<1>2. CASE S # {}
  <2>1. \E m \in S : \A k \in S : m <= k
    BY <1>2, Least DEF Slot
  <2> QED  BY <1>2, <2>1 DEF First
<1> QED  BY <1>1, <1>2

LEMMA NextFits ==
  ASSUME NEW rest \in SUBSET Slot, key' \in [Slot -> Lock \cup {Nothing}], job' = NextOf(rest)
  PROVE  JobFits(job') /\ job'.at # "imported"
<1> DEFINE todo == {s \in rest : key'[s] # Nothing}
<1>1. CASE todo = {}
  <2>1. job' = NoJob
    BY <1>1 DEF NextOf
  <2> QED  BY <2>1 DEF NoJob, JobFits, JobRecord
<1>2. CASE todo # {}
  <2>1. First(todo) \in todo
    BY <1>2, FirstIn
  <2>2. job' = [at |-> "asked", slot |-> First(todo), lock |-> key'[First(todo)],
                rest |-> {s \in rest : s > First(todo)}]
    BY <1>2 DEF NextOf
  <2> QED  BY <2>1, <2>2 DEF JobFits, JobRecord
<1> QED  BY <1>1, <1>2

LEMMA KeysStep == KeysInv /\ [KeysNext]_keyVars => KeysInv'
<1> SUFFICES ASSUME KeysInv, [KeysNext]_keyVars PROVE KeysInv'
  OBVIOUS
<1> USE KeysAssumption DEF KeysInv, KeysTypeOK, VaultFirst, NoKeyLost, JobFits, JobRecord, files, NoJob, KeyAct, KeyFault
<1>1. ASSUME NEW s \in Slot, Store(s)
      PROVE  KeysInv'
  BY <1>1 DEF Store
<1>2. ASSUME NEW s \in Slot, StoreTorn(s)
      PROVE  KeysInv'
  BY <1>2 DEF StoreTorn, LockedAtStart
<1>3. ASSUME NEW s \in Slot, SetDefault(s)
      PROVE  KeysInv'
  BY <1>3 DEF SetDefault
<1>4. ASSUME NEW s \in Slot, DeleteSlot(s)
      PROVE  KeysInv'
  BY <1>4, FirstIn DEF DeleteSlot
<1>5. ASSUME NEW s \in Slot, MigrateKey(s)
      PROVE  KeysInv'
  BY <1>5 DEF MigrateKey, Reading
<1>6. ASSUME NEW new \in Lock, ChangePassword(new)
      PROVE  KeysInv'
  BY <1>6 DEF ChangePassword, Relocked
<1>7. ASSUME NEW new \in Lock, ChangeTorn(new)
      PROVE  KeysInv'
  BY <1>7 DEF ChangeTorn, Relocked, LockedAtStart
<1>8. CASE ListCerts
  BY <1>8, FirstIn DEF ListCerts
<1>9. CASE DeleteAll
  BY <1>9 DEF DeleteAll
<1>10. CASE SetMode
  BY <1>10 DEF SetMode
<1>11. CASE KeyRestart
  BY <1>11 DEF KeyRestart, LockedAtStart
<1>12. CASE MigrateAll
  BY <1>12, NextFits DEF MigrateAll
<1>13. CASE Imported
  BY <1>13 DEF Imported, NewVersion
<1>14. CASE ImportFails
  BY <1>14, NextFits DEF ImportFails, NewVersion
<1>15. CASE Removed
  BY <1>15, NextFits DEF Removed
<1>16. CASE RemovalFails
  BY <1>16, NextFits DEF RemovalFails
<1>17. CASE PatchOps
  BY <1>17 DEF PatchOps
<1>18. CASE UNCHANGED keyVars
  BY <1>18 DEF keyVars
<1> QED  BY <1>1, <1>2, <1>3, <1>4, <1>5, <1>6, <1>7, <1>8, <1>9, <1>10, <1>11, <1>12, <1>13, <1>14, <1>15, <1>16, <1>17, <1>18 DEF KeysNext

LEMMA KeysCorrect == KeysInit /\ [][KeysNext]_keyVars => []KeysInv
<1>1. KeysInit => KeysInv
  BY KeysAssumption DEF KeysInit, KeysInv, KeysTypeOK, VaultFirst, NoKeyLost, JobFits, JobRecord, NoJob, Lock
<1> QED  BY <1>1, KeysStep, PTL


-----------------------------------------------------------------------------
(* Templates                                                               *)

TemplateStock == text \in [Template -> (-2)..MaxTplAct] /\ kind \in [Template -> Arts \cup {"open"}]
TemplateRefs ==
  /\ own \in [TplSlot -> Ref] /\ policy \in [TplSlot -> Ref] /\ team \in [TplSlot -> Ref]
  /\ campaign \in Ref
TemplateRest == usePolicy \in BOOLEAN /\ tplActs \in 0..MaxTplAct
WasRecord == [served : BOOLEAN, text : (-2)..MaxTplAct, offered : BOOLEAN]
RenameRecord == [step : {"none", "meta", "refs"}, from : Template \cup {NoTpl},
                 to : Template \cup {NoTpl}, was : [TplSlot -> WasRecord]]

(* What a slot carried before a rename is still there, under the name its   *)
(* reference will have.                                                     *)
Holds(s, ren) ==
  LET r == Carried(s)
      g == Follow(r, ren.from, ren.to)
  IN  /\ r \in Template /\ r # ren.to
      /\ text[g] = ren.was[s].text /\ text[g] # Absent
      /\ ren.was[s].offered =>
           /\ ren.step = "meta" => KindOf(r) = Art(s) /\ kind[ren.to] = "open"
           /\ ren.step = "refs" => KindOf(g) = Art(s)
TemplateMoves ==
  /\ renaming \in RenameRecord
  /\ renaming.step # "none" =>
       /\ renaming.from \in Template /\ renaming.to \in Template
       /\ renaming.from # renaming.to
       /\ \A s \in TplSlot : renaming.was[s].served => Holds(s, renaming)

TemplateInv == TemplateStock /\ TemplateRefs /\ TemplateRest /\ TemplateMoves

LEMMA TemplateTypesHold == TemplateInv => TemplateTypeOK
BY DEF TemplateInv, TemplateTypeOK, TemplateStock, TemplateRefs, TemplateRest, TemplateMoves, RenameRecord

LEMMA NoRenameIs ==
  /\ NoRename \in RenameRecord /\ NoRename.step = "none"
  /\ renaming = NoRename => TemplateMoves
  /\ renaming' = NoRename => TemplateMoves'
<1>1. Unserved \in WasRecord
  BY TemplateAssumption DEF Unserved, WasRecord, Absent
<1>2. NoRename \in RenameRecord /\ NoRename.step = "none"
  BY <1>1 DEF NoRename, RenameRecord
<1> QED  BY <1>2 DEF TemplateMoves

LEMMA TemplateStarts == TemplateInit => TemplateInv
<1> SUFFICES ASSUME TemplateInit PROVE TemplateInv
  OBVIOUS
<1> USE DEF TemplateInit, Arts, TplSlot, Absent, AsShipped, NoTpl, Unset, Ref
<1>1. TemplateStock
  BY TemplateAssumption DEF TemplateStock
<1>2. TemplateRefs
  BY DEF TemplateRefs
<1>3. TemplateRest
  BY TemplateAssumption DEF TemplateRest
<1> QED  BY <1>1, <1>2, <1>3, NoRenameIs DEF TemplateInv

(* Moving the text takes nothing from a mail but the name it is under, and  *)
(* the kind goes with it.                                                   *)
LEMMA MoveTextHolds ==
  ASSUME TemplateInv, NEW from \in Template, NEW to \in Template, MoveText(from, to)
  PROVE  TemplateMoves'
<1>a. TemplateStock /\ TemplateRefs /\ TemplateRest
  BY DEF TemplateInv
<1>1. ASSUME NEW s \in TplSlot
      PROVE  /\ Before(s, to) \in WasRecord
             /\ Before(s, to).served =>
                  /\ Served(s) /\ Before(s, to).text = text[Carried(s)]
                  /\ Before(s, to).offered => Offered(s) /\ kind[to] = "open"
  <2>1. CASE Served(s)
    <3>1. text[Carried(s)] \in (-2)..MaxTplAct
      BY <1>a, <2>1 DEF Served, TemplateStock
    <3>2. CASE Offered(s) /\ kind[to] = "open"
      <4>1. (Offered(s) /\ kind[to] = "open") = TRUE
        BY <3>2
      <4>2. Before(s, to) = [served |-> TRUE, text |-> text[Carried(s)], offered |-> TRUE]
        BY <2>1, <4>1, Zenon DEF Before
      <4> QED  BY <2>1, <3>1, <3>2, <4>2 DEF WasRecord
    <3>3. CASE ~(Offered(s) /\ kind[to] = "open")
      <4>1. (Offered(s) /\ kind[to] = "open") = FALSE
        BY <3>3
      <4>2. Before(s, to) = [served |-> TRUE, text |-> text[Carried(s)], offered |-> FALSE]
        BY <2>1, <4>1, Zenon DEF Before
      <4> QED  BY <2>1, <3>1, <4>2 DEF WasRecord
    <3> QED  BY <3>2, <3>3
  <2>2. CASE ~Served(s)
    BY <2>2, TemplateAssumption DEF Before, Unserved, WasRecord, Absent
  <2> QED  BY <2>1, <2>2
<1>2. /\ renaming'.step = "meta" /\ renaming'.from = from /\ renaming'.to = to
      /\ \A s \in TplSlot : renaming'.was[s] = Before(s, to)
  BY DEF MoveText
<1>3. renaming' \in RenameRecord
  BY <1>1 DEF MoveText, RenameRecord
<1>4. ASSUME NEW s \in TplSlot, renaming'.was[s].served
      PROVE  Holds(s, renaming)'
  <2>1. Served(s) /\ renaming'.was[s].text = text[Carried(s)]
        /\ (renaming'.was[s].offered => Offered(s) /\ kind[to] = "open")
    BY <1>1, <1>2, <1>4
  <2>2. Carried(s) \in Template /\ text[Carried(s)] # Absent /\ Carried(s) # to
    BY <2>1 DEF Served, MoveText, Exists
  <2>3. Carried(s)' = Carried(s) /\ kind' = kind
    BY DEF MoveText, Carried, Regular, Norm, Standard, refs
  <2>4. text'[Follow(Carried(s), from, to)] = text[Carried(s)]
    BY <1>a, <2>2 DEF MoveText, Follow, TemplateStock
  <2>5. renaming'.was[s].offered => KindOf(Carried(s)) = Art(s) /\ kind[to] = "open"
    BY <2>1 DEF Offered
  <2> QED  BY <1>2, <2>1, <2>2, <2>3, <2>4, <2>5 DEF Holds, KindOf
<1>5. from # to
  BY DEF MoveText
<1> QED  BY <1>2, <1>3, <1>4, <1>5 DEF TemplateMoves

LEMMA MoveMetaHolds ==
  ASSUME TemplateInv, MoveMeta
  PROVE  TemplateMoves'
<1>a. TemplateStock /\ TemplateMoves
  BY DEF TemplateInv
<1>b. "open" \notin Arts
  BY DEF Arts
<1>1. /\ renaming \in RenameRecord /\ renaming.step = "meta"
      /\ renaming.from \in Template /\ renaming.to \in Template /\ renaming.from # renaming.to
      /\ \A s \in TplSlot : renaming.was[s].served => Holds(s, renaming)
  BY <1>a DEF MoveMeta, TemplateMoves
<1>2. /\ renaming' \in RenameRecord /\ renaming'.step = "refs" /\ renaming'.from = renaming.from
      /\ renaming'.to = renaming.to /\ renaming'.was = renaming.was
  BY <1>1 DEF MoveMeta, RenameRecord
<1>3. ASSUME NEW s \in TplSlot, renaming.was[s].served
      PROVE  Holds(s, renaming)'
  <2>1. Carried(s)' = Carried(s) /\ text' = text
    BY DEF MoveMeta, Carried, Regular, Norm, Standard, refs
  <2>2. Holds(s, renaming)
    BY <1>1, <1>3
  <2>3. renaming.was[s].offered => KindOf(Follow(Carried(s), renaming.from, renaming.to))' = Art(s)
    <3>1. SUFFICES ASSUME renaming.was[s].offered
                   PROVE  KindOf(Follow(Carried(s), renaming.from, renaming.to))' = Art(s)
      OBVIOUS
    <3>2. KindOf(Carried(s)) = Art(s) /\ kind[renaming.to] = "open" /\ Carried(s) \in Template
          /\ Carried(s) # renaming.to
      BY <1>1, <2>2, <3>1 DEF Holds
    <3>3. CASE Carried(s) = renaming.from
      BY <1>a, <1>1, <1>2, <2>1, <3>2, <3>3 DEF MoveMeta, KindOf, Follow, TemplateStock
    <3>4. CASE Carried(s) # renaming.from
      BY <1>a, <1>1, <1>2, <2>1, <3>2, <3>4 DEF MoveMeta, KindOf, Follow, TemplateStock
    <3> QED  BY <3>3, <3>4
  <2> QED  BY <1>1, <1>2, <2>1, <2>2, <2>3 DEF Holds, Follow
<1> QED  BY <1>1, <1>2, <1>3 DEF TemplateMoves

LEMMA TemplateStep == TemplateInv /\ [TemplateNext]_templateVars => TemplateInv'
<1> SUFFICES ASSUME TemplateInv, [TemplateNext]_templateVars PROVE TemplateInv'
  OBVIOUS
<1>a. TemplateStock /\ TemplateRefs /\ TemplateRest /\ TemplateMoves
  BY DEF TemplateInv
<1> USE TemplateAssumption DEF TplAct, Written, stock, refs, Arts, TplSlot, Ref, Absent, Empty, AsShipped, NoTpl, Unset
<1>1. ASSUME NEW n \in Template, NEW k \in Arts, CreateTemplate(n, k)
      PROVE  TemplateInv'
  <2>1. TemplateStock'
    BY <1>1, <1>a DEF CreateTemplate, TemplateStock
  <2>2. TemplateRefs'
    BY <1>1, <1>a DEF CreateTemplate, TemplateRefs
  <2>3. TemplateRest'
    BY <1>1, <1>a DEF CreateTemplate, TemplateRest
  <2>4. TemplateMoves'
    BY <1>1, NoRenameIs DEF CreateTemplate
  <2> QED  BY <2>1, <2>2, <2>3, <2>4 DEF TemplateInv
<1>2. ASSUME NEW n \in Template, NEW k \in Arts, SetKind(n, k)
      PROVE  TemplateInv'
  <2>1. TemplateStock'
    BY <1>2, <1>a DEF SetKind, TemplateStock
  <2>2. TemplateRefs'
    BY <1>2, <1>a DEF SetKind, TemplateRefs
  <2>3. TemplateRest'
    BY <1>2, <1>a DEF SetKind, TemplateRest
  <2>4. TemplateMoves'
    BY <1>2, NoRenameIs DEF SetKind
  <2> QED  BY <2>1, <2>2, <2>3, <2>4 DEF TemplateInv
<1>3. ASSUME NEW n \in Template, DeleteTemplate(n)
      PROVE  TemplateInv'
  <2>1. TemplateStock'
    BY <1>3, <1>a DEF DeleteTemplate, TemplateStock
  <2>2. TemplateRefs'
    BY <1>3, <1>a DEF DeleteTemplate, TemplateRefs
  <2>3. TemplateRest'
    BY <1>3, <1>a DEF DeleteTemplate, TemplateRest
  <2>4. TemplateMoves'
    BY <1>3, NoRenameIs DEF DeleteTemplate
  <2> QED  BY <2>1, <2>2, <2>3, <2>4 DEF TemplateInv
<1>4. ASSUME NEW n \in Template, SaveBuilt(n)
      PROVE  TemplateInv'
  <2>1. TemplateStock'
    <3>1. tplActs + 1 \in (-2)..MaxTplAct
      BY <1>4, <1>a DEF SaveBuilt, TemplateRest
    <3>2. KindOf(n) \in Arts
      BY <1>a DEF KindOf, TemplateStock
    <3>3. text' \in [Template -> (-2)..MaxTplAct]
      BY <1>4, <1>a, <3>1 DEF SaveBuilt, TemplateStock
    <3>4. kind' \in [Template -> Arts \cup {"open"}]
      BY <1>4, <1>a, <3>2 DEF SaveBuilt, TemplateStock
    <3> QED  BY <3>3, <3>4 DEF TemplateStock
  <2>2. TemplateRefs'
    BY <1>4, <1>a DEF SaveBuilt, KindOf, TemplateRefs
  <2>3. TemplateRest'
    BY <1>4, <1>a DEF SaveBuilt, KindOf, TemplateRest
  <2>4. TemplateMoves'
    BY <1>4, NoRenameIs DEF SaveBuilt
  <2> QED  BY <2>1, <2>2, <2>3, <2>4 DEF TemplateInv
<1>5. ASSUME NEW n \in Template, SaveSource(n)
      PROVE  TemplateInv'
  <2>1. TemplateStock'
    <3>1. tplActs + 1 \in (-2)..MaxTplAct /\ -1 \in (-2)..MaxTplAct
      BY <1>5, <1>a DEF SaveSource, TemplateRest
    <3>2. PICK t \in {-1, tplActs + 1} : text' = [text EXCEPT ![n] = t]
      BY <1>5 DEF SaveSource
    <3>3. t \in (-2)..MaxTplAct
      BY <3>1
    <3> QED  BY <1>5, <1>a, <3>2, <3>3 DEF SaveSource, TemplateStock
  <2>2. TemplateRefs'
    BY <1>5, <1>a DEF SaveSource, TemplateRefs
  <2>3. TemplateRest'
    BY <1>5, <1>a DEF SaveSource, TemplateRest
  <2>4. TemplateMoves'
    BY <1>5, NoRenameIs DEF SaveSource
  <2> QED  BY <2>1, <2>2, <2>3, <2>4 DEF TemplateInv
<1>6. ASSUME NEW from \in Template, NEW to \in Template, Duplicate(from, to)
      PROVE  TemplateInv'
  <2>1. TemplateStock'
    BY <1>6, <1>a DEF Duplicate, TemplateStock
  <2>2. TemplateRefs'
    BY <1>6, <1>a DEF Duplicate, TemplateRefs
  <2>3. TemplateRest'
    BY <1>6, <1>a DEF Duplicate, TemplateRest
  <2>4. TemplateMoves'
    BY <1>6, NoRenameIs DEF Duplicate
  <2> QED  BY <2>1, <2>2, <2>3, <2>4 DEF TemplateInv
<1>7. ASSUME NEW from \in Template, NEW to \in Template, MoveText(from, to)
      PROVE  TemplateInv'
  <2>1. TemplateStock'
    BY <1>7, <1>a DEF MoveText, TemplateStock
  <2>2. TemplateRefs'
    BY <1>7, <1>a DEF MoveText, TemplateRefs
  <2>3. TemplateRest'
    BY <1>7, <1>a DEF MoveText, TemplateRest
  <2>4. TemplateMoves'
    BY <1>7, MoveTextHolds DEF TemplateInv
  <2> QED  BY <2>1, <2>2, <2>3, <2>4 DEF TemplateInv
<1>12. CASE MoveMeta
  <2>0. renaming.from \in Template /\ renaming.to \in Template
    BY <1>12, <1>a DEF MoveMeta, TemplateMoves
  <2>1. TemplateStock'
    BY <1>12, <1>a, <2>0 DEF MoveMeta, TemplateStock
  <2>2. TemplateRefs'
    BY <1>12, <1>a DEF MoveMeta, TemplateRefs
  <2>3. TemplateRest'
    BY <1>12, <1>a DEF MoveMeta, TemplateRest
  <2>4. TemplateMoves'
    BY <1>12, MoveMetaHolds DEF TemplateInv
  <2> QED  BY <2>1, <2>2, <2>3, <2>4 DEF TemplateInv
<1>13. CASE Refer
  <2>0. renaming.from \in Template /\ renaming.to \in Template
    BY <1>13, <1>a DEF Refer, TemplateMoves
  <2>1. TemplateStock'
    BY <1>13, <1>a DEF Refer, TemplateStock
  <2>2. TemplateRefs'
    BY <1>13, <1>a, <2>0 DEF Refer, Followed, Follow, TemplateRefs
  <2>3. TemplateRest'
    BY <1>13, <1>a DEF Refer, TemplateRest
  <2>4. TemplateMoves'
    BY <1>13, NoRenameIs DEF Refer
  <2> QED  BY <2>1, <2>2, <2>3, <2>4 DEF TemplateInv
<1>8. CASE Assign
  <2>1. TemplateStock'
    BY <1>8, <1>a DEF Assign, TemplateStock
  <2>2. TemplateRefs'
    BY <1>8, <1>a DEF Assign, TemplateRefs
  <2>3. TemplateRest'
    BY <1>8, <1>a DEF Assign, TemplateRest
  <2>4. TemplateMoves'
    BY <1>8, NoRenameIs DEF Assign
  <2> QED  BY <2>1, <2>2, <2>3, <2>4 DEF TemplateInv
<1>9. CASE ExemptMailbox
  <2>1. TemplateStock'
    BY <1>9, <1>a DEF ExemptMailbox, TemplateStock
  <2>2. TemplateRefs'
    BY <1>9, <1>a DEF ExemptMailbox, TemplateRefs
  <2>3. TemplateRest'
    BY <1>9, <1>a DEF ExemptMailbox, TemplateRest
  <2>4. TemplateMoves'
    BY <1>9, NoRenameIs DEF ExemptMailbox
  <2> QED  BY <2>1, <2>2, <2>3, <2>4 DEF TemplateInv
<1>10. CASE Start
  <2>1. TemplateStock'
    BY <1>10, <1>a DEF Start, SeededText, SeededKind, Typed, Tidied, TemplateStock
  <2>2. TemplateRefs'
    BY <1>10, <1>a DEF Start, SeededText, SeededKind, Typed, Tidied, TemplateRefs
  <2>3. TemplateRest'
    BY <1>10, <1>a DEF Start, SeededText, SeededKind, Typed, Tidied, TemplateRest
  <2>4. TemplateMoves'
    BY <1>10, NoRenameIs DEF Start
  <2> QED  BY <2>1, <2>2, <2>3, <2>4 DEF TemplateInv
<1>11. CASE UNCHANGED templateVars
  <2>1. TemplateStock'
    BY <1>11, <1>a DEF templateVars, TemplateStock
  <2>2. TemplateRefs'
    BY <1>11, <1>a DEF templateVars, TemplateRefs
  <2>3. TemplateRest'
    BY <1>11, <1>a DEF templateVars, TemplateRest
  <2>4. TemplateMoves'
    BY <1>11, <1>a DEF templateVars, TemplateMoves, Holds, Carried, Regular, Norm, Standard, Follow, KindOf, Art
  <2> QED  BY <2>1, <2>2, <2>3, <2>4 DEF TemplateInv
<1> QED  BY <1>1, <1>2, <1>3, <1>4, <1>5, <1>6, <1>7, <1>8, <1>9, <1>10, <1>11, <1>12, <1>13 DEF TemplateNext

LEMMA ReferUnseen ==
  ASSUME TemplateInv, Refer, NEW s \in TplSlot, renaming.was[s].served, ~Forgotten(s)
  PROVE  /\ TextOf(Carried(s))' = <<"text", renaming.was[s].text>>
         /\ renaming.was[s].offered => Offered(s)'
<1> DEFINE from == renaming.from
           to == renaming.to
<1>a. TemplateStock /\ TemplateRefs /\ TemplateRest /\ TemplateMoves
  BY DEF TemplateInv
<1>b. "none" \notin Template /\ "unset" \notin Template /\ "default" \notin Template
  BY TemplateAssumption
<1>1. /\ renaming.step = "refs" /\ from \in Template /\ to \in Template /\ from # to
      /\ Holds(s, renaming)
  BY <1>a DEF Refer, TemplateMoves
<1>2. /\ own'[s] = Follow(own[s], from, to)
      /\ policy'[s] = Follow(policy[s], from, to)
      /\ team'[s] = Follow(team[s], from, to)
      /\ campaign' = campaign /\ usePolicy' = usePolicy /\ text' = text /\ kind' = kind
  BY DEF Refer, Followed, stock
<1>3. Standard(s)' = Follow(Standard(s), from, to)
  BY <1>b, <1>1, <1>2 DEF Standard, Follow, Unset
<1>4. Carried(s)' = Follow(Carried(s), from, to)
  <2>1. Carried(s) \in Template
    BY <1>1 DEF Holds
  <2>2. CASE s = "banner" /\ campaign # Unset
    BY <1>2, <2>2 DEF Carried, Follow, Forgotten
  <2>3. CASE ~(s = "banner" /\ campaign # Unset)
    <3>1. Carried(s) = Regular(s) /\ Carried(s)' = Regular(s)'
      BY <1>2, <2>3 DEF Carried
    <3>2. Regular(s)' = Follow(Regular(s), from, to)
      BY <1>b, <1>1, <1>2, <1>3, <2>1, <3>1 DEF Regular, Norm, Follow, Unset, NoTpl
    <3> QED  BY <3>1, <3>2
  <2> QED  BY <2>2, <2>3
<1>5. Carried(s)' \in Template
  BY <1>1, <1>4 DEF Holds, Follow
<1>6. text'[Carried(s)'] = renaming.was[s].text /\ text'[Carried(s)'] # Absent
  BY <1>1, <1>2, <1>4 DEF Holds
<1>7. renaming.was[s].offered => KindOf(Carried(s))' = Art(s)
  BY <1>1, <1>2, <1>4 DEF Holds, KindOf
<1> QED  BY <1>5, <1>6, <1>7 DEF TextOf, Offered, Exists

LEMMA StartUnseen ==
  ASSUME TemplateInv, Start, NEW s \in TplSlot, Served(s)
  PROVE  /\ TextOf(Carried(s))' = TextOf(Carried(s))
         /\ Offered(s) => Offered(s)'
<1>a. TemplateStock /\ TemplateRefs /\ TemplateRest
  BY DEF TemplateInv
<1>b. s \in {"sig", "banner"}
  BY DEF TplSlot
<1>1. Carried(s) \in Template /\ text[Carried(s)] \notin {Absent, Empty}
  BY DEF Served
<1>2. Standard(s)' = Standard(s)
  BY DEF Standard, Start
<1>3. Carried(s)' = Carried(s)
  <2>1. Regular(s)' = Regular(s)
    BY <1>2, <1>a, <1>b DEF Regular, Start, Tidied, TemplateRefs, TplSlot
  <2> QED  BY <2>1 DEF Carried, Start
<1>4. text'[Carried(s)] = text[Carried(s)]
  BY <1>1, <1>a DEF Start, SeededText, Seeded
<1>5. ~Seeded(Carried(s))
  BY <1>1 DEF Seeded
<1>6. kind'[Carried(s)] = Typed(Carried(s)) /\ SeededKind(Carried(s)) = kind[Carried(s)]
  BY <1>1, <1>5 DEF Start, SeededKind
<1>7. CASE s = "sig"
  <2>1. Carried(s) \in {own[s], policy[s], team[s]}
    BY <1>1, <1>7, TemplateAssumption DEF Carried, Regular, Norm, Standard, NoTpl, Unset
  <2>2. Art(s) \in AssignedAs(Carried(s))
    BY <2>1 DEF AssignedAs
  <2>3. Art(s) = "signatur"
    BY <1>7 DEF Art
  <2>4. Typed(Carried(s)) = kind[Carried(s)]
    BY <2>2, <2>3, <1>6 DEF Typed
  <2> QED  BY <1>1, <1>3, <1>4, <1>6, <2>4 DEF TextOf, Offered, KindOf, Exists
<1>8. CASE s = "banner"
  <2>1. Offered(s) => kind[Carried(s)] = "banner"
    BY <1>8 DEF Offered, KindOf, Art
  <2>2. kind[Carried(s)] = "banner" => Typed(Carried(s)) = "banner"
    BY <1>6 DEF Typed
  <2>3. kind'[Carried(s)] = "banner" => Offered(s)'
    BY <1>8, <1>3 DEF Offered, KindOf, Art
  <2> QED  BY <1>1, <1>3, <1>4, <1>6, <2>1, <2>2, <2>3 DEF TextOf, Exists
<1> QED  BY <1>b, <1>7, <1>8

LEMMA Unseen ==
  TemplateInv /\ [TemplateNext]_templateVars
    => [/\ Start => \A s \in TplSlot : Served(s) =>
             /\ TextOf(Carried(s))' = TextOf(Carried(s))
             /\ Offered(s) => Offered(s)'
        /\ Refer => \A s \in TplSlot : renaming.was[s].served /\ ~Forgotten(s) =>
             /\ TextOf(Carried(s))' = <<"text", renaming.was[s].text>>
             /\ renaming.was[s].offered => Offered(s)']_templateVars
BY ReferUnseen, StartUnseen

LEMMA TemplateCorrect ==
  TemplateInit /\ [][TemplateNext]_templateVars => []TemplateTypeOK /\ UpkeepUnseen
<1>1. TemplateInit /\ [][TemplateNext]_templateVars => []TemplateInv
  BY TemplateStarts, TemplateStep, PTL
<1> QED  BY <1>1, TemplateTypesHold, Unseen, PTL DEF UpkeepUnseen


-----------------------------------------------------------------------------
(* SelfUpdate                                                              *)

ScriptRecord ==
  [at : {"down", "loop", "seen", "channel", "read", "taken", "git", "build", "built", "failed"},
   channel : {"main", "release", "none", "cut"}, target : Version \cup {NoTarget}]

UpdateTypes ==
  /\ trigger \in Order \cup {NoOrder, Cut} /\ writing \in Order \cup {NoOrder}
  /\ restart \in BOOLEAN /\ status \in {"idle", "running", "success", "error"}
  /\ script \in ScriptRecord
UpdateVersions == /\ disk \in Version /\ image \in Version /\ head \in Version
                  /\ tags \subseteq Version /\ known \subseteq tags
UpdateNumbers == asks \in 0..MaxAsk /\ updFaults \in 0..MaxUpdFault

(* The newest of the releases is one of them.                              *)
LEMMA NewestIs ==
  ASSUME NEW S \in SUBSET Version, S # {}
  PROVE  (CHOOSE v \in S : \A w \in S : w <= v) \in S
<1> DEFINE D == {MaxVersion - v : v \in S}
<1>0. MaxVersion \in Nat /\ \A v \in S : v \in 1..MaxVersion
  BY UpdateAssumption DEF Version
<1>5. \A v \in S : MaxVersion - v \in Nat
  BY <1>0
<1>6. D \subseteq Nat
  BY <1>5
<1>7. D # {}
  <2>1. PICK v \in S : TRUE
    OBVIOUS
  <2>2. MaxVersion - v \in D
    BY <2>1
  <2> QED  BY <2>2
<1>1. D \in SUBSET Nat /\ D # {}
  BY <1>6, <1>7
<1>2. PICK d \in D : \A k \in D : d <= k
  BY <1>1, Least
<1>3. PICK v \in S : d = MaxVersion - v
  BY <1>2
<1>4. ASSUME NEW w \in S  PROVE w <= v
  <2>1. MaxVersion - w \in D
    OBVIOUS
  <2>2. MaxVersion - v <= MaxVersion - w
    BY <1>2, <1>3, <2>1
  <2> QED  BY <2>2, UpdateAssumption DEF Version
<1> QED  BY <1>4

LEMMA WantedIs ==
  ASSUME UpdateVersions, NEW list \in SUBSET Version
  PROVE  Wanted(list) \in Version \cup {NoTarget}
BY NewestIs DEF Wanted, Newest, UpdateVersions

LEMMA LoopIs == Loop \in ScriptRecord /\ [Loop EXCEPT !.at = "down"] \in ScriptRecord
BY DEF Loop, ScriptRecord

LEMMA UpdateTypesStep ==
  ASSUME UpdateTypes, UpdateVersions, UpdateNumbers, [UpdateNext]_updateVars
  PROVE  UpdateTypes' /\ UpdateVersions' /\ UpdateNumbers'
<1>0. /\ script \in ScriptRecord
      /\ \A a \in {"down", "loop", "seen", "channel", "read", "taken", "git", "build", "built", "failed"} :
            [script EXCEPT !.at = a] \in ScriptRecord
  BY DEF UpdateTypes, ScriptRecord
<1>1. UpdateNumbers'
  BY UpdateAssumption DEF UpdateNumbers, UpdateNext, updateVars, Ask, UpdFault, AskUpdate, WriteTrigger,
     AskRestart, ClearStatus, DoRestart, SeeTrigger, ReadChannel, ReadTarget, TakeTrigger, MarkRunning,
     GitUpdate, GitFails, Rebuild, BuildFails, Report, ScriptStops, ScriptStarts, Publish
<1>2. UpdateVersions'
  <2>1. CASE GitUpdate
    <3>0. known' \in {known, tags} /\ tags' = tags /\ known \subseteq tags /\ tags \subseteq Version
      BY <2>1 DEF GitUpdate, UpdateVersions
    <3>1. PICK list \in SUBSET Version : list = known'
      BY <3>0
    <3>2. disk' \in Version
      <4>1. Wanted(list) \in Version \cup {NoTarget}
        BY WantedIs
      <4>2. disk' = Wanted(list) /\ Wanted(list) # NoTarget
        BY <2>1, <3>1 DEF GitUpdate
      <4> QED  BY <4>1, <4>2
    <3> QED  BY <2>1, <3>0, <3>2 DEF GitUpdate, UpdateVersions
  <2>f. CASE GitFails
    BY <2>f DEF GitFails, UpdateVersions
  <2>2. CASE Publish
    <3>1. head' \in Version
      BY <2>2, UpdateAssumption DEF Publish, UpdateVersions, Version
    <3> QED  BY <2>2, <3>1 DEF Publish, UpdateVersions
  <2>3. CASE Rebuild
    BY <2>3 DEF Rebuild, UpdateVersions
  <2>4. CASE UNCHANGED <<disk, image, head, tags, known>>
    BY <2>4 DEF UpdateVersions
  <2> QED  BY <2>1, <2>2, <2>3, <2>4, <2>f DEF UpdateNext, updateVars, AskUpdate, WriteTrigger,
     AskRestart, ClearStatus, DoRestart, SeeTrigger, ReadChannel, ReadTarget, TakeTrigger, MarkRunning,
     BuildFails, Report, ScriptStops, ScriptStarts
<1>3. UpdateTypes'
  <2>1. ASSUME NEW order \in Order, AskUpdate(order)  PROVE UpdateTypes'
    BY <2>1 DEF AskUpdate, UpdateTypes
  <2>2. CASE WriteTrigger
    BY <2>2 DEF WriteTrigger, UpdateTypes
  <2>3. CASE AskRestart \/ ClearStatus \/ DoRestart \/ Publish
    BY <2>3 DEF AskRestart, ClearStatus, DoRestart, Publish, UpdateTypes
  <2>4. CASE SeeTrigger \/ TakeTrigger \/ MarkRunning \/ GitUpdate \/ GitFails \/ Rebuild \/ BuildFails
    BY <2>4, <1>0 DEF SeeTrigger, TakeTrigger, MarkRunning, GitUpdate, GitFails, Rebuild, BuildFails, At, UpdateTypes
  <2>5. CASE ReadChannel
    <3>1. (IF trigger = Cut THEN "main" ELSE trigger.channel) \in {"main", "release", "none", "cut"}
      BY DEF UpdateTypes, Order, NoOrder, Cut
    <3>2. script' \in ScriptRecord
      <4>1. At("channel") \in ScriptRecord
        BY <1>0 DEF At
      <4>2. PICK r \in ScriptRecord : r = At("channel")
        BY <4>1
      <4>3. script' = [r EXCEPT !.channel = IF trigger = Cut THEN "main" ELSE trigger.channel]
        BY <2>5, <4>2 DEF ReadChannel
      <4> QED  BY <3>1, <4>3 DEF ScriptRecord
    <3> QED  BY <2>5, <3>2 DEF ReadChannel, UpdateTypes
  <2>6. CASE ReadTarget
    <3>1. trigger.target \in Version \cup {NoTarget}
      BY DEF UpdateTypes, Order, NoOrder, Cut
    <3>2. script' \in ScriptRecord
      <4>1. At("read") \in ScriptRecord
        BY <1>0 DEF At
      <4>2. PICK r \in ScriptRecord : r = At("read")
        BY <4>1
      <4>3. script' = [r EXCEPT !.target = trigger.target]
        BY <2>6, <4>2 DEF ReadTarget
      <4> QED  BY <3>1, <4>3 DEF ScriptRecord
    <3> QED  BY <2>6, <3>2 DEF ReadTarget, UpdateTypes
  <2>7. CASE Report \/ ScriptStops \/ ScriptStarts
    BY <2>7, LoopIs DEF Report, ScriptStops, ScriptStarts, Swept, UpdateTypes
  <2>8. CASE UNCHANGED updateVars
    BY <2>8 DEF updateVars, UpdateTypes
  <2> QED  BY <2>1, <2>2, <2>3, <2>4, <2>5, <2>6, <2>7, <2>8 DEF UpdateNext
<1> QED  BY <1>1, <1>2, <1>3

LEMMA UpdateTypesHold ==
  UpdateInit /\ [][UpdateNext]_updateVars => []UpdateTypeOK
<1>1. UpdateInit => UpdateTypes /\ UpdateVersions /\ UpdateNumbers
  <2> SUFFICES ASSUME UpdateInit  PROVE UpdateTypes /\ UpdateVersions /\ UpdateNumbers
    OBVIOUS
  <2>1. UpdateTypes
    BY LoopIs DEF UpdateInit, UpdateTypes
  <2>2. 1 \in Version
    BY UpdateAssumption DEF Version
  <2>3. UpdateVersions
    BY <2>2 DEF UpdateInit, UpdateVersions
  <2>4. 0 \in 0..MaxAsk /\ 0 \in 0..MaxUpdFault
    BY UpdateAssumption
  <2>5. UpdateNumbers
    BY <2>4 DEF UpdateInit, UpdateNumbers
  <2> QED  BY <2>1, <2>3, <2>5
<1>2. UpdateTypes /\ UpdateVersions /\ UpdateNumbers => UpdateTypeOK
  BY DEF UpdateTypes, UpdateVersions, UpdateNumbers, UpdateTypeOK, ScriptRecord
<1> QED  BY <1>1, <1>2, UpdateTypesStep, PTL

Where == {"down", "loop", "seen", "channel", "read", "taken", "git", "build", "built", "failed"}
Working == {"git", "build", "built", "failed"}

(* The record of the script keeps its fields.                              *)
ScriptShape == script = [at |-> script.at, channel |-> script.channel, target |-> script.target]
ScriptWhere == script.at \in Where

(* While the script works on an update, the status says so, or was cleared *)
(* by an administrator; a version that was built is the one that runs.     *)
StatusFollows ==
  /\ script.at \in Working => status \in {"running", "idle"}
  /\ script.at = "built" => image = disk

UpdateInv == ScriptShape /\ ScriptWhere /\ StatusFollows /\ OrdersComeThrough

(* The steps of the container leave the script and the versions alone; the *)
(* status they leave alone, or clear.                                      *)
LEMMA ContainerKeeps ==
  ASSUME UpdateInv, UNCHANGED <<script, disk, image>>, status' = status \/ status' = "idle"
  PROVE  UpdateInv'
BY DEF UpdateInv, ScriptShape, ScriptWhere, StatusFollows, OrdersComeThrough

(* A step of the script that leaves the status alone.                      *)
LEMMA ScriptKeeps ==
  ASSUME UpdateInv, ScriptShape', script'.at \in Where, UNCHANGED status,
         status = "running" => script'.at \in Working \cup {"down"},
         script'.at \in Working => script.at \in Working,
         UNCHANGED <<disk, image>> \/ script.at \in Working,
         script'.at = "built" => image' = disk'
  PROVE  UpdateInv'
<1>1. StatusFollows'
  BY DEF UpdateInv, StatusFollows
<1>2. OrdersComeThrough'
  BY DEF UpdateInv, StatusFollows, OrdersComeThrough, Working
<1> QED  BY <1>1, <1>2 DEF UpdateInv, ScriptWhere

LEMMA UpdateStep ==
  ASSUME UpdateInv, [UpdateNext]_updateVars
  PROVE  UpdateInv'
<1>0. /\ status = "running" => script.at \in {"git", "build", "built", "failed", "down"}
      /\ ScriptShape
  BY DEF UpdateInv, OrdersComeThrough
<1>1. ASSUME NEW order \in Order, AskUpdate(order) PROVE UpdateInv'
  BY <1>1, ContainerKeeps DEF AskUpdate
<1>2. CASE WriteTrigger \/ AskRestart \/ ClearStatus \/ DoRestart \/ Publish
  BY <1>2, ContainerKeeps DEF WriteTrigger, AskRestart, ClearStatus, DoRestart, Publish
<1>3. CASE SeeTrigger \/ ReadChannel \/ ReadTarget \/ TakeTrigger
  <2>1. ScriptShape' /\ script'.at \in {"seen", "channel", "read", "taken"}
    BY <1>0, <1>3 DEF SeeTrigger, ReadChannel, ReadTarget, TakeTrigger, At, ScriptShape
  <2>2. UNCHANGED <<status, disk, image>> /\ status # "running"
    BY <1>0, <1>3 DEF SeeTrigger, ReadChannel, ReadTarget, TakeTrigger
  <2> QED  BY <2>1, <2>2, ScriptKeeps DEF Where, Working
<1>4. CASE MarkRunning
  <2>1. ScriptShape' /\ script'.at = "git"
    BY <1>0, <1>4 DEF MarkRunning, At, ScriptShape
  <2> QED  BY <1>4, <2>1 DEF MarkRunning, UpdateInv, ScriptWhere, StatusFollows,
           OrdersComeThrough, Where
<1>5. CASE GitUpdate \/ GitFails \/ BuildFails
  <2>1. /\ ScriptShape' /\ script'.at \in {"build", "failed"}
        /\ script.at \in {"git", "build"} /\ UNCHANGED status
    BY <1>0, <1>5 DEF GitUpdate, GitFails, BuildFails, At, ScriptShape
  <2> QED  BY <2>1, ScriptKeeps DEF Where, Working
<1>6. CASE Rebuild
  <2>1. /\ ScriptShape' /\ script'.at = "built"
        /\ script.at = "build" /\ UNCHANGED status /\ image' = disk'
    BY <1>0, <1>6 DEF Rebuild, At, ScriptShape
  <2> QED  BY <2>1, ScriptKeeps DEF Where, Working
<1>7. CASE Report
  <2>1. ScriptShape' /\ script'.at = "loop" /\ UNCHANGED <<disk, image>>
    BY <1>7 DEF Report, Loop, ScriptShape
  <2>2. status' = "error" \/ (status' = "success" /\ image = disk)
    BY <1>7 DEF Report, UpdateInv, StatusFollows
  <2> QED  BY <2>1, <2>2 DEF UpdateInv, ScriptWhere, StatusFollows, OrdersComeThrough,
           Where, Working
<1>8. CASE ScriptStops
  <2>1. ScriptShape' /\ script'.at = "down" /\ UNCHANGED <<status, disk, image>>
    BY <1>8 DEF ScriptStops, Loop, ScriptShape
  <2> QED  BY <2>1, ScriptKeeps DEF Where, Working
<1>9. CASE ScriptStarts
  <2>1. ScriptShape' /\ script'.at = "loop" /\ UNCHANGED <<disk, image>>
    BY <1>9 DEF ScriptStarts, Loop, ScriptShape
  <2>2. status' # "running" /\ (status' = "success" => status = "success")
    BY <1>9 DEF ScriptStarts, Swept
  <2> QED  BY <2>1, <2>2 DEF UpdateInv, ScriptWhere, StatusFollows, OrdersComeThrough,
           Where, Working
<1>10. CASE UNCHANGED updateVars
  BY <1>10, ContainerKeeps DEF updateVars
<1> QED  BY <1>1, <1>2, <1>3, <1>4, <1>5, <1>6, <1>7, <1>8, <1>9, <1>10 DEF UpdateNext

LEMMA UpdateStarts ==
  ASSUME UpdateInit
  PROVE  UpdateInv
BY DEF UpdateInit, Loop, UpdateInv, ScriptShape, ScriptWhere, StatusFollows,
   OrdersComeThrough, Where, Working

(* A status "running" always has a script behind it that will end it, even *)
(* when script and host stop at any step, so administrators are never      *)
(* refused for good; and a success shown is the version that runs.         *)
LEMMA UpdateCorrect == UpdateInit /\ [][UpdateNext]_updateVars => []OrdersComeThrough
<1>1. UpdateInit => UpdateInv
  BY UpdateStarts
<1>2. UpdateInv /\ [UpdateNext]_updateVars => UpdateInv'
  BY UpdateStep
<1>3. UpdateInv => OrdersComeThrough
  BY DEF UpdateInv
<1> QED  BY <1>1, <1>2, <1>3, PTL


-----------------------------------------------------------------------------
(* HubAccount                                                              *)

CallRecord == [kind : {"register", "receipts", "leave", "licence", "order", "claim"},
               claim : Claim \cup {None}, texts : SUBSET Text]
HubRecord == [claims : SUBSET Claim, confirmed : SUBSET Claim, live : SUBSET Claim,
              receipts : SUBSET Text, bought : SUBSET SUBSET Text]

ConsentTypes ==
  /\ current \in [Doc -> Edition] /\ consents \subseteq Text /\ shown \subseteq Text
  /\ page \in Text \cup {NoText}
OwnTypes ==
  /\ hubKey \in Claim \cup {None} /\ claim \in Claim \cup {None}
  /\ licence \in {"none", "ours", "expired"}
CallTypes ==
  \A c \in calls : /\ c \in CallRecord
                   /\ c.kind \in {"register", "leave", "claim"} => c.claim \in Claim
HubTypes == hub \in HubRecord /\ hub.live \subseteq hub.confirmed
AccountNumbers == tokens \in 0..MaxClaim /\ hubActs \in 0..MaxHubAct /\ hubFaults \in 0..MaxHubFault

AccountTypes == ConsentTypes /\ OwnTypes /\ CallTypes /\ HubTypes /\ AccountNumbers

LEMMA TextIs ==
  ASSUME ConsentTypes, NEW d \in Doc
  PROVE  [doc |-> d, edition |-> current[d]] \in Text
BY DEF ConsentTypes, Text

LEMMA AtHubIs ==
  ASSUME HubTypes, NEW c \in CallRecord,
         c.kind \in {"register", "leave", "claim"} => c.claim \in Claim
  PROVE  AtHub(c) \in HubRecord /\ AtHub(c).live \subseteq AtHub(c).confirmed
<1>0. hub \in HubRecord /\ hub.live \subseteq hub.confirmed /\ c.texts \subseteq Text
  BY DEF HubTypes, CallRecord
<1>1. CASE c.kind = "register"
  BY <1>0, <1>1 DEF AtHub, HubRecord
<1>2. CASE c.kind = "receipts"
  BY <1>0, <1>2 DEF AtHub, HubRecord
<1>3. CASE c.kind = "leave"
  BY <1>0, <1>3 DEF AtHub, HubRecord
<1>4. CASE c.kind = "licence"
  BY <1>0, <1>4 DEF AtHub, HubRecord
<1>6. CASE c.kind = "order"
  BY <1>0, <1>6 DEF AtHub, HubRecord
<1>5. CASE c.kind = "claim"
  BY <1>0, <1>5 DEF AtHub, HubRecord
<1> QED  BY <1>1, <1>2, <1>3, <1>4, <1>5, <1>6 DEF CallRecord

LEMMA AnsweredIs ==
  ASSUME OwnTypes, CallTypes, NEW c \in calls, NEW b \in BOOLEAN, Answered(c, b)
  PROVE  OwnTypes'
<1>1. c.kind = "claim" => c.claim \in Claim
  BY DEF CallTypes
<1>2. CASE c.kind = "claim" /\ b /\ c.claim \in hub.claims \cap hub.confirmed
  BY <1>1, <1>2 DEF Answered, OwnTypes, account
<1>3. CASE c.kind = "leave"
  BY <1>3 DEF Answered, OwnTypes, account
<1>4. CASE c.kind = "licence" /\ b
  BY <1>4 DEF Answered, OwnTypes, account
<1>5. CASE /\ ~(c.kind = "claim" /\ b /\ c.claim \in hub.claims \cap hub.confirmed)
           /\ c.kind # "leave" /\ ~(c.kind = "licence" /\ b)
  BY <1>5 DEF Answered, OwnTypes, account
<1> QED  BY <1>2, <1>3, <1>4, <1>5

(* A call that is begun has the form the hub expects.                      *)
LEMMA CallsStay ==
  ASSUME CallTypes, NEW new, new \in CallRecord,
         new.kind \in {"register", "leave", "claim"} => new.claim \in Claim,
         calls' \subseteq calls \cup {new}
  PROVE  CallTypes'
BY DEF CallTypes

LEMMA AccountTypesStep ==
  ASSUME AccountTypes, [AccountNext]_accountVars
  PROVE  AccountTypes'
<1>0. /\ ConsentTypes /\ OwnTypes /\ CallTypes /\ HubTypes /\ AccountNumbers
  BY DEF AccountTypes
<1>1. AccountNumbers'
  <2>1. HubAct => hubActs' \in 0..MaxHubAct
    BY <1>0, AccountAssumption DEF AccountNumbers, HubAct
  <2>2. HubFault => hubFaults' \in 0..MaxHubFault
    BY <1>0, AccountAssumption DEF AccountNumbers, HubFault
  <2>3. CASE \/ \E d \in Doc : Read(d) \/ NewEdition(d)
             \/ Agree \/ PollClaim \/ Disconnect \/ HubRestart
             \/ SetLicence \/ FetchLicence \/ DeleteLicence \/ LicenceEnds
    BY <1>0, <2>1, <2>2, <2>3, Zenon DEF AccountNumbers, Read, NewEdition,
       Agree, PollClaim, Disconnect, HubRestart, SetLicence, FetchLicence, DeleteLicence, LicenceEnds
  <2>4. CASE Register
    <3>1. tokens' \in 0..MaxClaim
      BY <1>0, <2>4, AccountAssumption DEF AccountNumbers, Register
    <3> QED  BY <1>0, <2>1, <2>4, <3>1, Zenon DEF AccountNumbers, Register
  <2>5. CASE \/ \E k \in Claim \cup {None} : SetKey(k) \/ Confirm(k)
             \/ \E c \in calls : Answer(c) \/ Lost(c)
    BY <1>0, <2>1, <2>2, <2>5, Zenon DEF AccountNumbers, SetKey, Confirm, Answer, Lost
  <2>6. CASE TopUp \/ RequestInvoice \/ OrderLicence \/ OrderCertificate \/ UploadBundle \/ SendUngated
    BY <1>0, <2>1, <2>6, Zenon DEF AccountNumbers, TopUp, RequestInvoice, OrderLicence, OrderCertificate, UploadBundle, Send, SendUngated
  <2>7. CASE UNCHANGED accountVars
    BY <1>0, <2>7 DEF AccountNumbers, accountVars
  <2> QED  BY <2>3, <2>4, <2>5, <2>6, <2>7, Zenon DEF AccountNext
<1>2. ConsentTypes'
  <2>1. ASSUME NEW d \in Doc, Read(d)  PROVE ConsentTypes'
    BY <1>0, <2>1, TextIs DEF Read, ConsentTypes
  <2>2. ASSUME NEW d \in Doc, NewEdition(d)  PROVE ConsentTypes'
    <3>1. current[d] + 1 \in Edition
      BY <1>0, <2>2, AccountAssumption DEF NewEdition, ConsentTypes, Edition
    <3> QED  BY <1>0, <2>2, <3>1 DEF NewEdition, ConsentTypes
  <2>3. CASE Agree
    BY <1>0, <2>3 DEF Agree, ConsentTypes
  <2>4. CASE UNCHANGED <<current, consents, page, shown>>
    BY <1>0, <2>4 DEF ConsentTypes
  <2> QED  BY <2>1, <2>2, <2>3, <2>4 DEF AccountNext, accountVars, consent,
     Register, PollClaim, Disconnect, HubRestart, SetLicence, FetchLicence, DeleteLicence, LicenceEnds,
     SetKey, Confirm, Answer, Lost, TopUp, RequestInvoice, OrderLicence, OrderCertificate, UploadBundle, Send, SendUngated
<1>3. OwnTypes'
  <2>1. CASE Register
    <3>1. tokens' \in Claim
      BY <1>0, <2>1, AccountAssumption DEF Register, AccountNumbers, Claim
    <3> QED  BY <1>0, <2>1, <3>1 DEF Register, OwnTypes
  <2>2. CASE Disconnect
    BY <1>0, <2>2 DEF Disconnect, OwnTypes, account
  <2>3. ASSUME NEW k \in Claim \cup {None}, SetKey(k)  PROVE OwnTypes'
    BY <1>0, <2>3 DEF SetKey, OwnTypes
  <2>4. ASSUME NEW c \in calls, Answer(c) \/ Lost(c)  PROVE OwnTypes'
    BY <1>0, <2>4, AnsweredIs DEF Answer, Lost
  <2>5. CASE SetLicence \/ DeleteLicence \/ LicenceEnds
    BY <1>0, <2>5 DEF SetLicence, DeleteLicence, LicenceEnds, OwnTypes
  <2>6. CASE UNCHANGED account
    BY <1>0, <2>6 DEF OwnTypes, account
  <2> QED  BY <2>1, <2>2, <2>3, <2>4, <2>5, <2>6 DEF AccountNext, accountVars, Read, NewEdition,
     Agree, PollClaim, HubRestart, FetchLicence, Confirm,
     TopUp, RequestInvoice, OrderLicence, OrderCertificate, UploadBundle, Send, SendUngated
<1>4. CallTypes'
  <2>1. CASE Agree
    <3>1. DEFINE new == [kind |-> "receipts", claim |-> None, texts |-> Receipts(consents')]
    <3>2. consents' \subseteq Text
      BY <1>2 DEF ConsentTypes
    <3>3. Receipts(consents') \subseteq Text
      BY <3>2 DEF Receipts
    <3>4. new \in CallRecord /\ new.kind = "receipts"
      BY <3>3 DEF CallRecord
    <3>5. calls' \subseteq calls \cup {new}
      BY <2>1 DEF Agree
    <3> HIDE DEF new
    <3> QED  BY <1>0, <3>4, <3>5, CallsStay
  <2>2. CASE Register
    <3>1. DEFINE new == [kind |-> "register", claim |-> tokens', texts |-> Receipts(consents)]
    <3>2. tokens' \in Claim
      BY <1>0, <2>2, AccountAssumption DEF Register, AccountNumbers, Claim
    <3>3. Receipts(consents) \subseteq Text
      BY <1>0 DEF Receipts, ConsentTypes
    <3>4. new \in CallRecord /\ new.claim \in Claim
      BY <3>2, <3>3 DEF CallRecord
    <3>5. calls' \subseteq calls \cup {new}
      BY <2>2 DEF Register
    <3> HIDE DEF new
    <3> QED  BY <1>0, <3>4, <3>5, CallsStay
  <2>3. CASE PollClaim
    <3>1. DEFINE new == [kind |-> "claim", claim |-> claim, texts |-> {}]
    <3>2. claim \in Claim
      BY <1>0, <2>3 DEF PollClaim, OwnTypes
    <3>4. new \in CallRecord /\ new.claim \in Claim
      BY <3>2 DEF CallRecord
    <3>5. calls' \subseteq calls \cup {new}
      BY <2>3 DEF PollClaim
    <3> HIDE DEF new
    <3> QED  BY <1>0, <3>4, <3>5, CallsStay
  <2>4. CASE Disconnect /\ Registered
    <3>1. DEFINE new == [kind |-> "leave", claim |-> hubKey, texts |-> {}]
    <3>2. hubKey \in Claim
      BY <1>0, <2>4 DEF Registered, OwnTypes
    <3>4. new \in CallRecord /\ new.claim \in Claim
      BY <3>2 DEF CallRecord
    <3>5. calls' \subseteq calls \cup {new}
      BY <2>4 DEF Disconnect
    <3> HIDE DEF new
    <3> QED  BY <1>0, <3>4, <3>5, CallsStay
  <2>5. CASE FetchLicence
    <3>1. DEFINE new == [kind |-> "licence", claim |-> None, texts |-> {}]
    <3>4. new \in CallRecord /\ new.kind = "licence"
      BY DEF CallRecord
    <3>5. calls' \subseteq calls \cup {new}
      BY <2>5 DEF FetchLicence
    <3> HIDE DEF new
    <3> QED  BY <1>0, <3>4, <3>5, CallsStay
  <2>6. CASE calls' \subseteq calls
    BY <1>0, <2>6 DEF CallTypes
  <2>7. CASE Disconnect /\ ~Registered
    BY <2>6, <2>7 DEF Disconnect
  <2>8. CASE OrderCertificate
    <3>1. DEFINE named == {[doc |-> d, edition |-> current[d]] : d \in Required.hub_connect}
                 new == [kind |-> "order", claim |-> hubKey, texts |-> named]
    <3>2. named \subseteq Text
      BY <1>0, TextIs DEF Required, Doc
    <3>3. hubKey \in Claim \cup {None}
      BY <1>0 DEF OwnTypes
    <3>5. calls' \subseteq calls \cup {new}
      BY <2>8 DEF OrderCertificate
    <3> HIDE DEF named
    <3>4. new \in CallRecord /\ new.kind = "order"
      BY <3>2, <3>3 DEF CallRecord
    <3> HIDE DEF new
    <3> QED  BY <1>0, <3>4, <3>5, CallsStay
  <2> QED  BY <2>1, <2>2, <2>3, <2>4, <2>5, <2>6, <2>7, <2>8 DEF AccountNext, accountVars, Read, NewEdition,
     HubRestart, SetLicence, DeleteLicence, LicenceEnds, SetKey, Confirm, Answer, Lost,
     TopUp, RequestInvoice, OrderLicence, UploadBundle, Send, SendUngated
<1>5. HubTypes'
  <2>1. ASSUME NEW k \in Claim \cup {None}, Confirm(k)  PROVE HubTypes'
    <3>1. k \in Claim
      BY <1>0, <2>1 DEF Confirm, HubTypes, HubRecord
    <3> QED  BY <1>0, <2>1, <3>1 DEF Confirm, HubTypes, HubRecord
  <2>2. ASSUME NEW c \in calls, Answer(c) \/ Lost(c)  PROVE HubTypes'
    <3>1. AtHub(c) \in HubRecord /\ AtHub(c).live \subseteq AtHub(c).confirmed
      BY <1>0, AtHubIs DEF CallTypes
    <3>2. hub' \in {hub, AtHub(c)}
      BY <2>2 DEF Answer, Lost
    <3> QED  BY <1>0, <3>1, <3>2 DEF HubTypes
  <2>3. CASE UNCHANGED hub
    BY <1>0, <2>3 DEF HubTypes
  <2> QED  BY <2>1, <2>2, <2>3 DEF AccountNext, accountVars, Read, NewEdition,
     Agree, Register, PollClaim, Disconnect, HubRestart, SetLicence, FetchLicence, DeleteLicence, LicenceEnds,
     SetKey, TopUp, RequestInvoice, OrderLicence, OrderCertificate, UploadBundle, Send, SendUngated
<1> QED  BY <1>1, <1>2, <1>3, <1>4, <1>5 DEF AccountTypes

LEMMA AccountTypesStart ==
  ASSUME AccountInit
  PROVE  AccountTypes
<1>1. 1 \in Edition /\ 1 \in Claim /\ 0 \in 0..MaxClaim /\ 1 \in 0..MaxClaim
      /\ 0 \in 0..MaxHubAct /\ 0 \in 0..MaxHubFault
  BY AccountAssumption DEF Edition, Claim
<1>2. [doc : Required.hub_connect, edition : {1}] \subseteq Text
  BY <1>1 DEF Required, Text, Doc
<1>3. consents \subseteq Text /\ shown \subseteq Text
  BY <1>2 DEF AccountInit
<1>4. ConsentTypes
  BY <1>1, <1>3 DEF AccountInit, ConsentTypes
<1>5. OwnTypes /\ AccountNumbers
  BY <1>1 DEF AccountInit, OwnTypes, AccountNumbers
<1>6. CallTypes
  BY DEF AccountInit, CallTypes
<1>7. HubTypes
  <2>1. CASE hub = [claims |-> {}, confirmed |-> {}, live |-> {}, receipts |-> {}, bought |-> {}]
    BY <2>1 DEF HubTypes, HubRecord
  <2>2. CASE hub = [claims |-> {}, confirmed |-> {1}, live |-> {1}, receipts |-> consents, bought |-> {}]
    BY <1>1, <1>3, <2>2 DEF HubTypes, HubRecord
  <2> QED  BY <2>1, <2>2 DEF AccountInit
<1> QED  BY <1>4, <1>5, <1>6, <1>7 DEF AccountTypes

LEMMA AccountTypesHold ==
  AccountInit /\ [][AccountNext]_accountVars => []AccountTypeOK
<1>1. AccountTypes => AccountTypeOK
  BY DEF AccountTypes, ConsentTypes, OwnTypes, HubTypes, HubRecord, AccountNumbers, AccountTypeOK
<1> QED  BY <1>1, AccountTypesStart, AccountTypesStep, PTL

(* Consent is given to a page that was shown, and a receipt is of a         *)
(* consent, at the hub as on the way to it.                                 *)
ConsentsWereShown ==
  /\ consents \subseteq shown
  /\ page # NoText => page \in shown
ReceiptsWereShown ==
  /\ hub.receipts \subseteq shown
  /\ \A c \in calls : c.kind \in {"register", "receipts"} => c.texts \subseteq shown

AccountInv == ConsentsWereShown /\ ReceiptsWereShown /\ OrdersWereRead

LEMMA AccountStarts ==
  ASSUME AccountInit
  PROVE  AccountInv
<1>1. sent = {} /\ calls = {} /\ shown = consents /\ page = NoText /\ hub.bought = {} /\ hub.receipts \subseteq consents
  BY DEF AccountInit
<1> QED  BY <1>1 DEF AccountInv, ConsentsWereShown, ReceiptsWereShown, OrdersWereRead

(* What was shown, agreed to and sent is left alone by most steps.         *)
LEMMA QuietKeeps ==
  ASSUME AccountInv, UNCHANGED <<consents, page, shown, sent>>,
         hub'.receipts = hub.receipts, hub'.bought = hub.bought,
         \A c \in calls' \ calls : c.kind \in {"register", "receipts"} => c.texts \subseteq shown
  PROVE  AccountInv'
<1>1. ConsentsWereShown' /\ ReceiptsWereShown'
  BY DEF AccountInv, ConsentsWereShown, ReceiptsWereShown
<1>2. OrdersWereRead'
  BY DEF AccountInv, OrdersWereRead
<1> QED  BY <1>1, <1>2 DEF AccountInv

(* What the hub does with a call it gets.                                  *)
LEMMA HubKeeps ==
  ASSUME AccountInv, HubTypes, CallTypes, NEW c \in calls, hub' \in {hub, AtHub(c)}, calls' \subseteq calls,
         UNCHANGED <<consents, page, shown, sent>>
  PROVE  AccountInv'
<1>0. hub \in HubRecord /\ c \in CallRecord
  BY DEF HubTypes, CallTypes
<1>1. hub'.receipts \subseteq shown
  <2>1. \/ hub'.receipts = hub.receipts
        \/ /\ c.kind \in {"register", "receipts"}
           /\ hub'.receipts = hub.receipts \cup c.texts
    <3>1. c.kind \in {"register", "receipts"} => AtHub(c).receipts = hub.receipts \cup c.texts
      BY <1>0 DEF AtHub, HubRecord
    <3>2. c.kind \in {"leave", "licence", "order", "claim"} => AtHub(c).receipts = hub.receipts
      BY <1>0 DEF AtHub, HubRecord
    <3>3. c.kind \in {"register", "receipts"} \/ c.kind \in {"leave", "licence", "order", "claim"}
      BY <1>0 DEF CallRecord
    <3> QED  BY <3>1, <3>2, <3>3
  <2> QED  BY <2>1 DEF AccountInv, ReceiptsWereShown
<1>2. ASSUME NEW texts \in hub'.bought PROVE texts \subseteq shown
  <2>1. \/ hub'.bought = hub.bought
        \/ c.texts \subseteq hub.receipts /\ hub'.bought = hub.bought \cup {c.texts}
    <3>1. ASSUME c.kind = "order"
          PROVE  \/ hub'.bought = hub.bought
                 \/ c.texts \subseteq hub.receipts /\ hub'.bought = hub.bought \cup {c.texts}
      <4>1. AtHub(c) = IF ReceiptsCover(c) THEN [hub EXCEPT !.bought = hub.bought \cup {c.texts}] ELSE hub
        BY <3>1 DEF AtHub
      <4>2. CASE ReceiptsCover(c)
        BY <1>0, <4>1, <4>2 DEF HubRecord, ReceiptsCover
      <4> QED  BY <4>1, <4>2
    <3>2. c.kind \in {"register", "receipts", "leave", "licence", "claim"} => AtHub(c).bought = hub.bought
      BY <1>0 DEF AtHub, HubRecord
    <3>3. c.kind = "order" \/ c.kind \in {"register", "receipts", "leave", "licence", "claim"}
      BY <1>0 DEF CallRecord
    <3> QED  BY <3>1, <3>2, <3>3
  <2> QED  BY <1>2, <2>1 DEF AccountInv, ReceiptsWereShown, OrdersWereRead
<1>3. ConsentsWereShown' /\ ReceiptsWereShown'
  BY <1>1 DEF AccountInv, ConsentsWereShown, ReceiptsWereShown
<1>4. OrdersWereRead'
  BY <1>2 DEF AccountInv, OrdersWereRead
<1> QED  BY <1>3, <1>4 DEF AccountInv

LEMMA SendKeeps ==
  ASSUME AccountInv, NEW c \in DOMAIN Required, Send(c)
  PROVE  AccountInv'
<1>1. /\ UNCHANGED <<consents, page, shown, hub, calls>>
      /\ sent' = sent \cup {[context |-> c, current |-> current]}
  BY DEF Send, consent
<1>2. \A d \in Required[c] : [doc |-> d, edition |-> current[d]] \in shown
  BY DEF Send, ContextConsented, HasValidConsent, AccountInv, ConsentsWereShown
<1>3. ASSUME NEW o \in sent', NEW d \in Required[o.context]
      PROVE  [doc |-> d, edition |-> o.current[d]] \in shown
  <2>1. CASE o \in sent
    BY <2>1 DEF AccountInv, OrdersWereRead
  <2>2. CASE o = [context |-> c, current |-> current]
    <3>1. o.context = c /\ o.current = current
      BY <2>2
    <3> QED  BY <1>2, <3>1
  <2> QED  BY <1>1, <2>1, <2>2
<1>4. OrdersWereRead'
  BY <1>1, <1>3 DEF OrdersWereRead, AccountInv
<1> QED  BY <1>1, <1>4 DEF AccountInv, ConsentsWereShown, ReceiptsWereShown

LEMMA AccountStep ==
  ASSUME AccountInv, AccountTypes, [AccountNext]_accountVars
  PROVE  AccountInv'
<1>0. HubTypes /\ CallTypes
  BY DEF AccountTypes
<1>1. ASSUME NEW d \in Doc, Read(d) PROVE AccountInv'
  <2>1. /\ UNCHANGED <<consents, sent, hub, calls>> /\ shown' = shown \cup {page'}
    BY <1>1 DEF Read
  <2> QED  BY <2>1 DEF AccountInv, ConsentsWereShown, ReceiptsWereShown, OrdersWereRead
<1>2. ASSUME NEW d \in Doc, NewEdition(d) PROVE AccountInv'
  BY <1>2, QuietKeeps DEF NewEdition
<1>3. CASE Agree
  <2>1. /\ UNCHANGED <<page, shown, sent, hub>> /\ consents' = consents \cup {page} /\ page # NoText
        /\ calls' \subseteq calls \cup {[kind |-> "receipts", claim |-> None, texts |-> Receipts(consents')]}
    BY <1>3 DEF Agree
  <2>2. consents' \subseteq shown /\ Receipts(consents') \subseteq shown
    BY <2>1 DEF Receipts, AccountInv, ConsentsWereShown
  <2>3. ConsentsWereShown'
    BY <2>1, <2>2 DEF AccountInv, ConsentsWereShown
  <2>4. ReceiptsWereShown'
    <3>1. PICK r : r = Receipts(consents')
      OBVIOUS
    <3>2. \A c \in calls' : c \in calls \/ c.texts = r
      BY <2>1, <3>1
    <3> QED  BY <2>1, <2>2, <3>1, <3>2 DEF AccountInv, ReceiptsWereShown
  <2>5. OrdersWereRead'
    BY <2>1 DEF AccountInv, OrdersWereRead
  <2> QED  BY <2>3, <2>4, <2>5 DEF AccountInv
<1>4. CASE TopUp \/ RequestInvoice \/ OrderLicence \/ UploadBundle
  <2>1. {"billing_charge", "invoice_request", "license_purchase", "support_upload"}
           \subseteq DOMAIN Required
    BY DEF Required
  <2> QED  BY <1>4, <2>1, SendKeeps DEF TopUp, RequestInvoice, OrderLicence, UploadBundle
<1>5. CASE \/ HubRestart \/ SetLicence \/ DeleteLicence \/ LicenceEnds \/ SendUngated
  BY <1>5, QuietKeeps DEF HubRestart, SetLicence, DeleteLicence, LicenceEnds, SendUngated, consent
<1>9. CASE Register
  <2>1. Receipts(consents) \subseteq shown
    BY DEF Receipts, AccountInv, ConsentsWereShown
  <2> QED  BY <1>9, <2>1, QuietKeeps DEF Register, consent
<1>10. CASE PollClaim \/ Disconnect \/ FetchLicence \/ OrderCertificate
  BY <1>10, QuietKeeps DEF PollClaim, Disconnect, FetchLicence, OrderCertificate, consent
<1>6. ASSUME NEW k \in Claim \cup {None}, SetKey(k) \/ Confirm(k) PROVE AccountInv'
  <2>1. CASE SetKey(k)
    BY <2>1, QuietKeeps DEF SetKey, consent
  <2>2. CASE Confirm(k)
    <3>1. hub'.receipts = hub.receipts /\ hub'.bought = hub.bought
      BY <2>2, <1>0 DEF Confirm, HubTypes, HubRecord
    <3> QED  BY <2>2, <3>1, QuietKeeps DEF Confirm, consent
  <2> QED  BY <1>6, <2>1, <2>2
<1>7. ASSUME NEW c \in calls, Answer(c) \/ Lost(c) PROVE AccountInv'
  <2>1. hub' \in {hub, AtHub(c)} /\ calls' \subseteq calls /\ UNCHANGED <<consents, page, shown, sent>>
    BY <1>7 DEF Answer, Lost, consent
  <2> QED  BY <1>0, <2>1, HubKeeps
<1>8. CASE UNCHANGED accountVars
  BY <1>8, QuietKeeps DEF accountVars, consent
<1> QED  BY <1>1, <1>2, <1>3, <1>4, <1>5, <1>6, <1>7, <1>8, <1>9, <1>10 DEF AccountNext

(* However the documents change while a page is open, whatever is lost on  *)
(* the way to the hub: an order that costs money goes out only after the   *)
(* edition then current was shown to an administrator.                     *)
LEMMA AccountCorrect == AccountInit /\ [][AccountNext]_accountVars => []OrdersWereRead
<1>1. AccountInit => AccountInv
  BY AccountStarts
<1>2. AccountInv /\ AccountTypes /\ [AccountNext]_accountVars => AccountInv'
  BY AccountStep
<1>3. AccountInv => OrdersWereRead
  BY DEF AccountInv
<1> QED  BY <1>1, <1>2, <1>3, AccountTypesStart, AccountTypesStep, PTL


-----------------------------------------------------------------------------
(* Builder                                                                 *)

-----------------------------------------------------------------------------
(* Sequences put one after another; what the recursion in FlattenSeq       *)
(* stands for, up to the n-th.                                             *)
Joining(s, n, f) == f = [i \in 1..n |-> IF i = 1 THEN s[i] ELSE f[i - 1] \o s[i]]

(* There is a function that the recursion defines: otherwise there is a    *)
(* least n up to which there is none, and the one up to n - 1 goes on.     *)
LEMMA JoiningExists ==
  ASSUME NEW s, NEW len \in Nat
  PROVE  \E f : Joining(s, len, f)
<1> DEFINE S == {n \in 0..len : ~ \E f : Joining(s, n, f)}
<1> SUFFICES S = {}
  <2>1. len \in 0..len
    OBVIOUS
  <2> QED  BY <2>1
<1> SUFFICES ASSUME S # {} PROVE FALSE
  OBVIOUS
<1>1. PICK n \in S : \A m \in S : n <= m
  <2>1. S \in SUBSET Nat
    OBVIOUS
  <2> HIDE DEF S
  <2> QED  BY <2>1, Least
<1>2. n # 0
  <2> DEFINE f0 == [i \in 1..0 |-> <<>>]
  <2>1. Joining(s, 0, f0)
    BY DEF Joining
  <2> QED  BY <2>1
<1>3. n - 1 \in 0..len /\ ~(n <= n - 1) /\ n \in 1..len
  BY <1>2
<1>4. PICK f : Joining(s, n - 1, f)
  BY <1>1, <1>3
<1> DEFINE g == [i \in 1..n |-> IF i = n THEN IF n = 1 THEN s[n] ELSE f[n - 1] \o s[n] ELSE f[i]]
<1>5. Joining(s, n, g)
  <2>1. f = [i \in 1..n-1 |-> IF i = 1 THEN s[i] ELSE f[i - 1] \o s[i]]
    BY <1>4 DEF Joining
  <2>2. ASSUME NEW i \in 1..n
        PROVE  g[i] = IF i = 1 THEN s[i] ELSE g[i - 1] \o s[i]
    <3>1. CASE i = n /\ n # 1
      <4>1. g[i - 1] = f[n - 1]
        BY <3>1, <1>3
      <4> QED  BY <3>1, <4>1, <1>3
    <3>2. CASE i = n /\ n = 1
      BY <3>2
    <3>3. CASE i # n /\ i # 1
      <4>1. i \in 1..n-1 /\ i - 1 \in 1..n-1 /\ i - 1 \in 1..n /\ i - 1 # n
        BY <3>3, <1>3
      <4>2. g[i] = f[i] /\ g[i - 1] = f[i - 1]
        BY <3>3, <4>1
      <4>3. f[i] = IF i = 1 THEN s[i] ELSE f[i - 1] \o s[i]
        BY <2>1, <4>1
      <4> QED  BY <4>2, <4>3, <3>3
    <3>4. CASE i # n /\ i = 1
      <4>1. i \in 1..n-1
        BY <3>4, <1>3
      <4> QED  BY <4>1, <3>4, <2>1
    <3> QED  BY <3>1, <3>2, <3>3, <3>4
  <2> DEFINE h == [i \in 1..n |-> IF i = 1 THEN s[i] ELSE g[i - 1] \o s[i]]
  <2>3. g = h
    <3>1. \A i \in 1..n : g[i] = h[i]
      BY <2>2
    <3>2. g = [i \in 1..n |-> g[i]] /\ h = [i \in 1..n |-> h[i]]
      OBVIOUS
    <3> HIDE DEF g, h
    <3> QED  BY <3>1, <3>2
  <2> QED  BY <2>3 DEF Joining
<1> QED  BY <1>5, <1>1

LEMMA FlattenIs ==
  ASSUME NEW s, Len(s) \in Nat, Len(s) # 0
  PROVE  \E f : Joining(s, Len(s), f) /\ FlattenSeq(s) = f[Len(s)]
<1> DEFINE f == CHOOSE f : f = [i \in 1..Len(s) |-> IF i = 1 THEN s[i] ELSE f[i - 1] \o s[i]]
<1>1. FlattenSeq(s) = f[Len(s)]
  BY DEF FlattenSeq
<1>2. Joining(s, Len(s), f)
  <2>1. \E h : h = [i \in 1..Len(s) |-> IF i = 1 THEN s[i] ELSE h[i - 1] \o s[i]]
    <3>1. PICK h : Joining(s, Len(s), h)
      BY JoiningExists
    <3>2. h = [i \in 1..Len(s) |-> IF i = 1 THEN s[i] ELSE h[i - 1] \o s[i]]
      BY <3>1 DEF Joining
    <3> QED  BY <3>2, Zenon
  <2>2. f = [i \in 1..Len(s) |-> IF i = 1 THEN s[i] ELSE f[i - 1] \o s[i]]
    BY <2>1, Zenon
  <2> QED  BY <2>2 DEF Joining
<1> QED  BY <1>1, <1>2

LEMMA FlattenType ==
  ASSUME NEW S, NEW s \in Seq(Seq(S))
  PROVE  FlattenSeq(s) \in Seq(S)
<1>0. Len(s) \in Nat /\ \A i \in 1..Len(s) : s[i] \in Seq(S)
  OBVIOUS
<1>1. CASE Len(s) = 0
  <2>1. s = <<>>
    BY <1>1, EmptySeq
  <2>2. FlattenSeq(s) = s
    BY <1>1 DEF FlattenSeq
  <2>3. <<>> \in Seq(S)
    OBVIOUS
  <2> QED  BY <2>1, <2>2, <2>3, Zenon
<1>2. CASE Len(s) # 0
  <2>1. PICK f : Joining(s, Len(s), f) /\ FlattenSeq(s) = f[Len(s)]
    BY <1>0, <1>2, FlattenIs
  <2>2. \A i \in 1..Len(s) : f[i] = IF i = 1 THEN s[i] ELSE f[i - 1] \o s[i]
    <3>1. f = [i \in 1..Len(s) |-> IF i = 1 THEN s[i] ELSE f[i - 1] \o s[i]]
      BY <2>1 DEF Joining
    <3> QED  BY <3>1
  <2> DEFINE B == {n \in 1..Len(s) : f[n] \notin Seq(S)}
  <2>3. B = {}
    <3> SUFFICES ASSUME B # {} PROVE FALSE
      OBVIOUS
    <3>1. PICK n \in B : \A m \in B : n <= m
      <4>1. B \in SUBSET Nat
        OBVIOUS
      <4> HIDE DEF B
      <4> QED  BY <4>1, Least
    <3>2. CASE n = 1
      BY <3>2, <2>2, <1>0
    <3>3. CASE n # 1
      <4>1. n - 1 \in 1..Len(s) /\ ~(n <= n - 1)
        BY <3>3, <1>0
      <4>2. f[n - 1] \in Seq(S)
        BY <4>1, <3>1
      <4>3. s[n] \in Seq(S) /\ f[n] = f[n - 1] \o s[n]
        BY <3>3, <2>2, <1>0
      <4>4. f[n - 1] \o s[n] \in Seq(S)
        BY <4>2, <4>3, ConcatProperties
      <4> QED  BY <4>3, <4>4
    <3> QED  BY <3>2, <3>3
  <2>4. Len(s) \in 1..Len(s)
    BY <1>0, <1>2
  <2> QED  BY <2>1, <2>3, <2>4
<1> QED  BY <1>1, <1>2

(* Blocks and rows.                                                        *)
LEMMA WrapCondType ==
  ASSUME NEW i \in Item
  PROVE  WrapCond(i) \in PlainRow
<1> DEFINE j == [i EXCEPT !.when = {}]
<1>1. j \in Item
  BY DEF Item
<1>2. <<j>> \in Seq(Item) /\ <<j>> # <<>>
  <2> HIDE DEF j
  <2> QED  BY <1>1
<1>3. i.names \ {"name"} \in SUBSET Filled
  BY DEF Item
<1> HIDE DEF j
<1>4. WrapCond(i) = [cond |-> i.names \ {"name"}, framed |-> FALSE, cells |-> <<j>>]
  BY DEF WrapCond, Row, j
<1> QED  BY <1>2, <1>3, <1>4 DEF PlainRow

LEMMA RowType ==
  ASSUME NEW C \in SUBSET Filled, NEW i \in Item
  PROVE  Row(C, <<i>>) \in PlainRow
<1>1. <<i>> \in Seq(Item) /\ <<i>> # <<>>
  OBVIOUS
<1> QED  BY <1>1 DEF Row, PlainRow

LEMMA PlainIsLeaf == PlainRow \subseteq LeafRow
BY DEF PlainRow, LeafRow

LEMMA RenderLeafType ==
  ASSUME NEW b \in LeafBlock
  PROVE  RenderLeaf(b) \in Seq(PlainRow)
<1>0. b.item \in Item /\ <<>> \in Seq(PlainRow)
  BY DEF LeafBlock
<1>1. WrapCond(b.item) \in PlainRow /\ <<WrapCond(b.item)>> \in Seq(PlainRow)
  BY <1>0, WrapCondType
<1>2. <<Row({}, <<b.item>>)>> \in Seq(PlainRow)
  BY <1>0, RowType
<1>3. AddressLines(b) \in Seq(PlainRow)
  <2> DEFINE e == [b.item EXCEPT !.look = "expr"]
  <2>1. e \in Item
    BY <1>0 DEF Item, Look
  <2>2. <<WrapCond(e)>> \in Seq(PlainRow)
    BY <2>1, WrapCondType
  <2> DEFINE x == It("placeholder", "none", {"street"}, {})
             y == It("expr", "none", {"place"}, {})
             z == It("placeholder", "none", {"country"}, {})
  <2>3. x \in Item /\ y \in Item /\ z \in Item
    BY DEF It, Item, Look, Filled, Field
  <2>4. /\ <<WrapCond(x), WrapCond(y)>> \in Seq(PlainRow)
        /\ <<WrapCond(z)>> \in Seq(PlainRow)
    <3> HIDE DEF x, y, z
    <3>1. WrapCond(x) \in PlainRow /\ WrapCond(y) \in PlainRow /\ WrapCond(z) \in PlainRow
      BY <2>3, WrapCondType
    <3> QED  BY <3>1
  <2>5. /\ <<WrapCond(x), WrapCond(y)>> \o <<WrapCond(z)>> \in Seq(PlainRow)
        /\ <<WrapCond(x), WrapCond(y)>> \o <<>> \in Seq(PlainRow)
    BY <2>4, <1>0, ConcatProperties
  <2> QED  BY <2>2, <2>5 DEF AddressLines
<1> QED  BY <1>0, <1>1, <1>2, <1>3 DEF RenderLeaf

LEMMA RenderAllType ==
  ASSUME NEW bs \in Seq(LeafBlock)
  PROVE  RenderAll(bs) \in Seq(PlainRow)
<1>1. [k \in DOMAIN bs |-> RenderLeaf(bs[k])] \in Seq(Seq(PlainRow))
  <2>1. \A k \in DOMAIN bs : RenderLeaf(bs[k]) \in Seq(PlainRow)
    BY RenderLeafType
  <2> QED  BY <2>1
<1> QED  BY <1>1, FlattenType DEF RenderAll

LEMMA NestRowType ==
  ASSUME NEW n \in Nest
  PROVE  Row({}, <<n>>) \in HtmlRow
<1>1. <<n>> \in Seq(Nest) /\ Len(<<n>>) = 1
  OBVIOUS
<1> QED  BY <1>1 DEF Row, HtmlRow, NestRow

LEMMA RenderBlockType ==
  ASSUME NEW b \in AnyBlock
  PROVE  RenderBlock(b) \in Seq(HtmlRow)
<1>1. CASE b \in LeafBlock
  <2>1. b.type \notin {"box", "two_col"}
    BY <1>1 DEF LeafBlock
  <2>2. RenderLeaf(b) \in Seq(PlainRow)
    BY <1>1, RenderLeafType
  <2>3. RenderLeaf(b) \in Seq(HtmlRow)
    BY <2>2, PlainIsLeaf DEF HtmlRow
  <2> QED  BY <2>1, <2>3 DEF RenderBlock
<1>2. CASE b \in [type : {"freetext"}, item : PageCell]
  <2>1. b.type = "freetext" /\ b.item \in Nest
    BY <1>2 DEF Nest
  <2>2. RenderBlock(b) = <<Row({}, <<b.item>>)>>
    BY <2>1 DEF RenderBlock, RenderLeaf
  <2> QED  BY <2>1, <2>2, NestRowType
<1>3. CASE b \in [type : {"box"}, inner : Seq(LeafBlock)]
  <2>1. b.type = "box" /\ RenderAll(b.inner) \in Seq(PlainRow)
    BY <1>3, RenderAllType
  <2>2. [look |-> "inset", rows |-> RenderAll(b.inner)] \in Nest
    BY <2>1 DEF Nest
  <2>3. <<Row({}, <<[look |-> "inset", rows |-> RenderAll(b.inner)]>>)>> \in Seq(HtmlRow)
    BY <2>2, NestRowType
  <2>4. <<>> \in Seq(HtmlRow)
    OBVIOUS
  <2> QED  BY <2>1, <2>3, <2>4 DEF RenderBlock
<1>4. CASE b \in [type : {"two_col"}, left : Seq(LeafBlock), right : Seq(LeafBlock)]
  <2>1. b.type = "two_col" /\ RenderAll(b.left) \in Seq(PlainRow) /\ RenderAll(b.right) \in Seq(PlainRow)
    BY <1>4, RenderAllType
  <2>2. [look |-> "columns", left |-> RenderAll(b.left), right |-> RenderAll(b.right)] \in Nest
    BY <2>1 DEF Nest
  <2>3. <<Row({}, <<[look |-> "columns", left |-> RenderAll(b.left),
                     right |-> RenderAll(b.right)]>>)>> \in Seq(HtmlRow)
    BY <2>2, NestRowType
  <2> QED  BY <2>1, <2>3 DEF RenderBlock
<1> QED  BY <1>1, <1>2, <1>3, <1>4 DEF AnyBlock

LEMMA RenderHtmlType ==
  ASSUME NEW bs \in Seq(AnyBlock)
  PROVE  RenderHtml(bs) \in Seq(HtmlRow)
<1>1. [k \in DOMAIN bs |-> RenderBlock(bs[k])] \in Seq(Seq(HtmlRow))
  <2>1. \A k \in DOMAIN bs : RenderBlock(bs[k]) \in Seq(HtmlRow)
    BY RenderBlockType
  <2> QED  BY <2>1
<1> QED  BY <1>1, FlattenType DEF RenderHtml

(* What the reader makes of rows.                                          *)
LEMMA RecognisedType ==
  ASSUME NEW i \in Item, i.look \in Recognisable
  PROVE  Recognised(i) \in LeafBlock
<1> USE DEF Block, LeafBlock, Recognisable
<1>1. CASE i.look \in {"anchor", "labelled", "badge"} /\ i.when # {}
  <2>1. Recognised(i) = Block("half", i)
    BY <1>1 DEF Recognised
  <2> QED  BY <2>1
<1>2. CASE i.look \in {"anchor", "labelled"} /\ i.when = {}
  <2> DEFINE j == [i EXCEPT !.look = "anchor", !.word = IF i.look = "labelled" THEN "none" ELSE @]
  <2>1. Recognised(i) = Block("contact", j)
    BY <1>2 DEF Recognised
  <2>2. j \in Item
    BY DEF Item, Look
  <2> QED  BY <2>1, <2>2
<1>3. CASE i.look = "placeholder"
  <2> DEFINE j == [i EXCEPT !.when = {}, !.names = IF @ = {"own"} THEN {"lost"} ELSE @]
  <2>1. Recognised(i) = Block("field", j)
    BY <1>3 DEF Recognised
  <2>2. j \in Item
    BY DEF Item, Filled, Unresolved
  <2> QED  BY <2>1, <2>2
<1>4. CASE i.look = "image"
  <2> DEFINE j == [i EXCEPT !.when = {}]
  <2>1. Recognised(i) = Block("logo", j)
    BY <1>4 DEF Recognised
  <2>2. j \in Item
    BY DEF Item
  <2> QED  BY <2>1, <2>2
<1>5. CASE i.look = "badge" /\ i.when = {}
  <2>1. Recognised(i) = Block("badge", i)
    BY <1>5 DEF Recognised
  <2> QED  BY <2>1
<1>6. CASE i.look \in {"gap", "rule"}
  <2>1. Recognised(i) = Block("spacer", i)
    BY <1>6 DEF Recognised
  <2> QED  BY <2>1
<1> QED  BY <1>1, <1>2, <1>3, <1>4, <1>5, <1>6

LEMMA FreetextType ==
  ASSUME NEW i \in Item, NEW cond \in SUBSET Filled
  PROVE  Freetext(i, cond) \in LeafBlock
<1>1. i.when \cup ({cond} \ {{}}) \in SUBSET SUBSET Filled
  BY DEF Item
<1>2. [i EXCEPT !.when = @ \cup ({cond} \ {{}})] \in Item
  BY <1>1 DEF Item
<1> QED  BY <1>2 DEF Freetext, Block, LeafBlock

LEMMA FromInlineType ==
  ASSUME NEW i \in Item
  PROVE  FromInline(i) \in LeafBlock
<1>1. Block("text", i) \in LeafBlock
  BY DEF Block, LeafBlock
<1>2. Freetext(i, {}) \in LeafBlock
  BY FreetextType
<1> QED  BY <1>1, <1>2, RecognisedType DEF FromInline

LEMMA FirstCell ==
  ASSUME NEW r \in LeafRow
  PROVE  r.cells[1] \in Item /\ r.cond \in SUBSET Filled /\ Len(r.cells) \in Nat \ {0}
BY DEF LeafRow

LEMMA FromCellType ==
  ASSUME NEW r \in LeafRow
  PROVE  FromCell(r) \in AnyBlock /\ (~ r.framed => FromCell(r) \in LeafBlock)
<1> DEFINE i == r.cells[1]
<1>0. i \in Item /\ r.cond \in SUBSET Filled /\ r.framed \in BOOLEAN
  BY FirstCell DEF LeafRow
<1> HIDE DEF i
<1>1. CASE i.look \in Recognisable
  <2>1. FromCell(r) = Recognised(i)
    BY <1>1 DEF FromCell, i, Recognisable
  <2> QED  BY <2>1, <1>0, <1>1, RecognisedType DEF AnyBlock
<1>2. CASE i.look \notin Recognisable /\ r.framed
  <2>1. FromCell(r) = FromFrame(i)
    BY <1>2 DEF FromCell, i
  <2>2. <<FromInline(i)>> \in Seq(LeafBlock)
    BY <1>0, FromInlineType
  <2> QED  BY <2>1, <2>2, <1>2 DEF FromFrame, AnyBlock
<1>3. CASE i.look \notin Recognisable /\ ~ r.framed
  <2>1. FromCell(r) = Block("text", i) \/ FromCell(r) = Freetext(i, r.cond)
    BY <1>3 DEF FromCell, i
  <2>2. Block("text", i) \in LeafBlock
    BY <1>0 DEF Block, LeafBlock
  <2>3. Freetext(i, r.cond) \in LeafBlock
    BY <1>0, FreetextType
  <2> QED  BY <2>1, <2>2, <2>3 DEF AnyBlock
<1> QED  BY <1>1, <1>2, <1>3

(* Wherever single blocks are allowed, the block of an address is too.     *)
LEMMA MergedType ==
  ASSUME NEW S, LeafBlock \subseteq S, S \subseteq AnyBlock, NEW bs \in Seq(S)
  PROVE  Merged(bs) \in Seq(S)
<1> DEFINE one == [k \in DOMAIN bs |->
                  IF IsExpr(bs[k], {"street", "place"})
                  THEN AddressBlock("one_line", bs[k].item.names) ELSE bs[k]]
           Addr == {k \in DOMAIN one : /\ IsField(one, k, "street")
                                       /\ k + 1 \in DOMAIN one /\ IsExpr(one[k + 1], {"place"})}
<1>0. DOMAIN bs = 1..Len(bs) /\ Len(bs) \in Nat /\ \A k \in DOMAIN bs : bs[k] \in S
  OBVIOUS
<1>1. ASSUME NEW look \in {"one_line", "lines"}, NEW names \in SUBSET Filled
      PROVE  AddressBlock(look, names) \in LeafBlock
  BY <1>1 DEF AddressBlock, It, Block, LeafBlock, Item, Look
<1>2. ASSUME NEW k \in DOMAIN bs, IsExpr(bs[k], {"street", "place"})
      PROVE  AddressBlock("one_line", bs[k].item.names) \in S
  <2>1. bs[k] \in AnyBlock /\ bs[k].type = "freetext" /\ bs[k].item.look = "expr"
    BY <1>0, <1>2 DEF IsExpr
  <2>2. bs[k] \in LeafBlock
    BY <2>1 DEF AnyBlock, PageCell
  <2>3. bs[k].item.names \in SUBSET Filled
    BY <2>2 DEF LeafBlock, Item
  <2> QED  BY <2>3, <1>1
<1>3. one \in Seq(S) /\ Len(one) = Len(bs) /\ DOMAIN one = 1..Len(bs)
  <2>1. \A k \in 1..Len(bs) : (IF IsExpr(bs[k], {"street", "place"})
                  THEN AddressBlock("one_line", bs[k].item.names) ELSE bs[k]) \in S
    BY <1>0, <1>2
  <2> QED  BY <2>1, <1>0
<1> HIDE DEF one
<1>4. CASE Addr = {}
  <2>1. Merged(bs) = one
    BY <1>4 DEF Merged, one
  <2> QED  BY <2>1, <1>3
<1>5. CASE Addr # {}
  <2> DEFINE k == CHOOSE k \in Addr : TRUE
             land == IsField(one, k + 2, "country")
             names == {"street", "place"} \cup (IF land THEN {"country"} ELSE {})
             new == AddressBlock("lines", names)
             rest == IF land THEN k + 3 ELSE k + 2
  <2>1. Merged(bs) = SubSeq(one, 1, k - 1) \o <<new>> \o SubSeq(one, rest, Len(one))
    BY <1>5 DEF Merged, one
  <2>2. k \in Addr
    BY <1>5
  <2>3. k \in 1..Len(one) /\ k + 1 \in 1..Len(one)
    BY <2>2, <1>3
  <2>4. land => k + 2 \in 1..Len(one)
    BY <1>3 DEF IsField
  <2> HIDE DEF k, Addr
  <2>5. rest \in 1..Len(one) + 1
    BY <2>3, <2>4, <1>0, <1>3
  <2>6. names \in SUBSET Filled
    BY DEF Filled, Field
  <2> HIDE DEF land, names, rest
  <2>7. new \in S
    BY <2>6, <1>1
  <2> HIDE DEF new
  <2>8. SubSeq(one, 1, k - 1) \in Seq(S) /\ SubSeq(one, rest, Len(one)) \in Seq(S)
    <3>1. \A i \in 1..Len(one) : one[i] \in S
      BY <1>3
    <3>2. /\ 1 \in 1..Len(one) + 1 /\ k - 1 \in 0..Len(one)
          /\ Len(one) \in rest - 1..Len(one) /\ Len(one) \in Nat
      BY <2>3, <2>5, <1>0, <1>3
    <3> QED  BY <3>2, <2>5, <1>3, <3>1, SubSeqProperties
  <2>9. SubSeq(one, 1, k - 1) \o <<new>> \in Seq(S)
    BY <2>7, <2>8, ConcatProperties
  <2> QED  BY <2>1, <2>8, <2>9, ConcatProperties
<1> QED  BY <1>4, <1>5

LEMMA FromInnerType ==
  ASSUME NEW rows \in Seq(PlainRow)
  PROVE  FromInner(rows) \in Seq(LeafBlock)
<1>1. \A k \in DOMAIN rows : FromCell(rows[k]) \in LeafBlock
  <2> SUFFICES ASSUME NEW k \in DOMAIN rows PROVE FromCell(rows[k]) \in LeafBlock
    OBVIOUS
  <2>0. rows[k] \in PlainRow
    OBVIOUS
  <2>1. rows[k] \in LeafRow /\ ~ rows[k].framed
    BY <2>0, PlainIsLeaf DEF PlainRow
  <2> QED  BY <2>1, FromCellType
<1>2. [k \in DOMAIN rows |-> FromCell(rows[k])] \in Seq(LeafBlock)
  BY <1>1
<1>3. LeafBlock \subseteq AnyBlock
  BY DEF AnyBlock
<1> QED  BY <1>2, <1>3, MergedType DEF FromInner

LEMMA CellsOfType ==
  ASSUME NEW rows \in Seq(LeafRow)
  PROVE  CellsOf(rows) \in Seq(Item)
<1>1. \A k \in DOMAIN rows : rows[k].cells \in Seq(Item)
  <2>1. \A k \in DOMAIN rows : rows[k] \in LeafRow
    OBVIOUS
  <2> QED  BY <2>1 DEF LeafRow
<1>2. [k \in DOMAIN rows |-> rows[k].cells] \in Seq(Seq(Item))
  BY <1>1
<1> QED  BY <1>2, FlattenType DEF CellsOf

LEMMA FromPageType ==
  ASSUME NEW c \in PageCell
  PROVE  FromPage(c) \in AnyBlock
<1> DEFINE cells == CellsOf(c.rows)
           k == CHOOSE k \in Links(cells) : TRUE
           link == It("anchor", "none", cells[k].names, {})
<1>1. CASE Cardinality(Links(cells)) = 1
  <2>1. Links(cells) # {}
    BY <1>1, FS_EmptySet
  <2>2. k \in Links(cells)
    BY <2>1
  <2>3. cells \in Seq(Item)
    BY CellsOfType DEF PageCell
  <2> HIDE DEF k, cells
  <2>4. cells[k].names \in SUBSET Filled
    <3>1. cells[k] \in Item
      BY <2>2, <2>3 DEF Links
    <3> QED  BY <3>1 DEF Item
  <2>5. link \in Item
    BY <2>4 DEF It, Item, Look
  <2> HIDE DEF link
  <2>6. FromPage(c) = Block("contact", link)
    BY <1>1 DEF FromPage, link, k, cells
  <2> QED  BY <2>5, <2>6 DEF Block, LeafBlock, AnyBlock
<1>2. CASE Cardinality(Links(cells)) # 1
  BY <1>2 DEF FromPage, Block, AnyBlock
<1> QED  BY <1>1, <1>2

LEMMA FromCellsType ==
  ASSUME NEW r \in LeafRow, Len(r.cells) > 1
  PROVE  FromCells(r) \in AnyBlock
<1>0. r.cells \in Seq(Item) /\ Len(r.cells) \in Nat /\ \A k \in DOMAIN r.cells : r.cells[k] \in Item
  BY DEF LeafRow
<1>1. CASE Len(r.cells) = 2
  <2>1. r.cells[1] \in Item /\ r.cells[2] \in Item
    BY <1>0, <1>1
  <2>2. <<FromInline(r.cells[1])>> \in Seq(LeafBlock) /\ <<FromInline(r.cells[2])>> \in Seq(LeafBlock)
    BY <2>1, FromInlineType
  <2> QED  BY <1>1, <2>2 DEF FromCells, AnyBlock
<1>2. CASE Len(r.cells) # 2
  <2> DEFINE rows == [k \in DOMAIN r.cells |-> Row({}, <<r.cells[k]>>)]
  <2>1. \A k \in DOMAIN r.cells : Row({}, <<r.cells[k]>>) \in LeafRow
    BY <1>0, RowType, PlainIsLeaf
  <2>2. rows \in Seq(LeafRow)
    <3>1. DOMAIN r.cells = 1..Len(r.cells)
      BY <1>0
    <3> QED  BY <2>1, <3>1, <1>0
  <2> HIDE DEF rows
  <2>3. [look |-> "page", rows |-> rows] \in PageCell
    BY <2>2 DEF PageCell
  <2>4. FromCells(r) = Block("freetext", [look |-> "page", rows |-> rows])
    BY <1>2 DEF FromCells, rows
  <2> QED  BY <2>3, <2>4 DEF Block, AnyBlock
<1> QED  BY <1>1, <1>2

LEMMA NestRowCell ==
  ASSUME NEW r \in NestRow
  PROVE  Len(r.cells) = 1 /\ r.cells[1] \in Nest /\ DOMAIN r.cells = {1}
BY DEF NestRow

LEMMA FromRowType ==
  ASSUME NEW r \in HtmlRow
  PROVE  FromRow(r) \in AnyBlock
<1>1. CASE r \in LeafRow
  <2>1. r.cells[1].look \notin Opaque /\ Len(r.cells) \in Nat \ {0}
    BY <1>1, FirstCell DEF Item, Look, Opaque
  <2>2. FromRow(r) = IF Len(r.cells) > 1 THEN FromCells(r) ELSE FromCell(r)
    BY <2>1 DEF FromRow, Opaque
  <2> QED  BY <1>1, <2>2, FromCellsType, FromCellType
<1>2. CASE r \in NestRow
  <2> DEFINE c == r.cells[1]
  <2>1. Len(r.cells) = 1 /\ c \in Nest
    BY <1>2, NestRowCell
  <2> HIDE DEF c
  <2>2. CASE c \in [look : {"inset"}, rows : Seq(PlainRow)]
    <3>1. FromRow(r) = FromBox(c)
      BY <2>1, <2>2 DEF FromRow, c
    <3>2. FromInner(c.rows) \in Seq(LeafBlock)
      BY <2>2, FromInnerType
    <3> QED  BY <3>1, <3>2 DEF FromBox, AnyBlock
  <2>3. CASE c \in PageCell
    <3>1. FromRow(r) = FromPage(c)
      BY <2>1, <2>3 DEF FromRow, c, PageCell
    <3> QED  BY <3>1, <2>3, FromPageType
  <2>4. CASE c \in [look : {"columns"}, left : Seq(PlainRow), right : Seq(PlainRow)]
    <3>1. FromRow(r) = FromColumns(c)
      BY <2>1, <2>4 DEF FromRow, c
    <3>2. FromInner(c.left) \in Seq(LeafBlock) /\ FromInner(c.right) \in Seq(LeafBlock)
      BY <2>4, FromInnerType
    <3> QED  BY <3>1, <3>2 DEF FromColumns, AnyBlock
  <2> QED  BY <2>1, <2>2, <2>3, <2>4 DEF Nest
<1> QED  BY <1>1, <1>2 DEF HtmlRow

LEMMA InnerType ==
  ASSUME NEW r \in NestRow
  PROVE  Inner(r) \in Seq(LeafRow)
<1> DEFINE c == r.cells[1]
<1>1. Len(r.cells) = 1 /\ c \in Nest /\ DOMAIN r.cells = {1}
  BY NestRowCell
<1> HIDE DEF c
<1>2. Below(c) \in Seq(LeafRow)
  <2>1. CASE c \in [look : {"inset"}, rows : Seq(PlainRow)]
    <3>1. c.rows \in Seq(LeafRow)
      BY <2>1, PlainIsLeaf
    <3> QED  BY <2>1, <3>1 DEF Below
  <2>2. CASE c \in PageCell
    BY <2>2 DEF Below, PageCell
  <2>3. CASE c \in [look : {"columns"}, left : Seq(PlainRow), right : Seq(PlainRow)]
    <3>1. c.left \in Seq(LeafRow) /\ c.right \in Seq(LeafRow) /\ c.look = "columns"
      BY <2>3, PlainIsLeaf
    <3>2. c.left \o c.right \in Seq(LeafRow)
      BY <3>1, ConcatProperties
    <3> QED  BY <3>1, <3>2 DEF Below
  <2> QED  BY <1>1, <2>1, <2>2, <2>3 DEF Nest
<1>3. [k \in DOMAIN r.cells |-> Below(r.cells[k])] \in Seq(Seq(LeafRow))
  <2>1. \A k \in 1..1 : Below(r.cells[k]) \in Seq(LeafRow)
    BY <1>2 DEF c
  <2>2. DOMAIN r.cells = 1..1
    BY <1>1
  <2>3. [k \in 1..1 |-> Below(r.cells[k])] \in Seq(Seq(LeafRow))
    BY <2>1
  <2> QED  BY <2>2, <2>3
<1> QED  BY <1>3, FlattenType DEF Inner

LEMMA FlatType ==
  ASSUME NEW h \in Seq(HtmlRow)
  PROVE  Flat(h) \in Seq(LeafRow)
<1> DEFINE piece(k) == IF \E c \in ToSet(h[k].cells) : c.look \in Opaque THEN Inner(h[k]) ELSE <<h[k]>>
<1>1. \A k \in DOMAIN h : piece(k) \in Seq(LeafRow)
  <2> SUFFICES ASSUME NEW k \in DOMAIN h PROVE piece(k) \in Seq(LeafRow)
    OBVIOUS
  <2>1. CASE h[k] \in LeafRow
    <3>1. \A c \in ToSet(h[k].cells) : c \in Item
      BY <2>1 DEF ToSet, LeafRow
    <3>2. \A c \in ToSet(h[k].cells) : c.look \notin Opaque
      BY <3>1 DEF Item, Look, Opaque
    <3>3. piece(k) = <<h[k]>>
      BY <3>2
    <3>4. <<h[k]>> \in Seq(LeafRow)
      BY <2>1
    <3> QED  BY <3>3, <3>4
  <2>2. CASE h[k] \in NestRow
    <3>1. h[k].cells[1] \in ToSet(h[k].cells)
      BY <2>2, NestRowCell DEF ToSet
    <3>2. h[k].cells[1].look \in Opaque
      BY <2>2, NestRowCell DEF Nest, PageCell, Opaque
    <3>3. piece(k) = Inner(h[k])
      BY <3>1, <3>2
    <3> QED  BY <3>3, <2>2, InnerType
  <2> QED  BY <2>1, <2>2 DEF HtmlRow
<1>2. [k \in DOMAIN h |-> piece(k)] \in Seq(Seq(LeafRow))
  <2> HIDE DEF piece
  <2> QED  BY <1>1
<1> QED  BY <1>2, FlattenType DEF Flat

LEMMA ParseHtmlType ==
  ASSUME NEW h \in Seq(HtmlRow)
  PROVE  ParseHtml(h) \in Seq(AnyBlock)
<1>1. Merged([k \in DOMAIN h |-> FromRow(h[k])]) \in Seq(AnyBlock)
  <2>1. \A k \in DOMAIN h : FromRow(h[k]) \in AnyBlock
    BY FromRowType
  <2>2. [k \in DOMAIN h |-> FromRow(h[k])] \in Seq(AnyBlock)
    BY <2>1
  <2>3. LeafBlock \subseteq AnyBlock
    BY DEF AnyBlock
  <2> QED  BY <2>2, <2>3, MergedType
<1>2. <<Block("freetext", Page(h))>> \in Seq(AnyBlock)
  <2>1. Page(h) \in PageCell
    BY FlatType DEF Page, PageCell
  <2>2. Block("freetext", Page(h)) \in AnyBlock
    BY <2>1 DEF Block, AnyBlock
  <2> QED  BY <2>2
<1> QED  BY <1>1, <1>2 DEF ParseHtml

(* What people write and put together.                                     *)
LEMMA LeavesType == Leaves \subseteq Item
<1> USE DEF It, Item, Look, Filled, Field, Whens
<1>1. PlainItems \subseteq Item
  BY DEF PlainItems
<1>2. Others \subseteq Item
  BY DEF Others
<1> QED  BY <1>1, <1>2 DEF Leaves

LEMMA SourceRowsType == SourceRows \subseteq HtmlRow
<1>0. {} \in SUBSET Filled /\ {"phone"} \in SUBSET Filled
  BY DEF Filled, Field
<1>1. LeafRows \subseteq LeafRow
  <2>1. \A C \in Conds({"phone"}), i \in Leaves : Row(C, <<i>>) \in LeafRow
    BY <1>0, LeavesType, RowType, PlainIsLeaf DEF Conds
  <2>2. \A i \in Leaves : WrapCond(i) \in LeafRow
    BY LeavesType, WrapCondType, PlainIsLeaf
  <2>3. ASSUME NEW C \in Conds({"phone"}), NEW i \in {It("words", "w", {}, {}), It("markup", "w", {"phone"}, {})}
        PROVE  [Row(C, <<i>>) EXCEPT !.framed = TRUE] \in LeafRow
    <3>1. i \in Item
      BY <1>0 DEF It, Item, Look
    <3>2. <<i>> \in Seq(Item) /\ <<i>> # <<>>
      BY <3>1
    <3>3. C \in SUBSET Filled
      BY <1>0 DEF Conds
    <3> QED  BY <3>2, <3>3 DEF Row, LeafRow
  <2> SUFFICES ASSUME NEW r \in LeafRows PROVE r \in LeafRow
    OBVIOUS
  <2>4. \/ \E C \in Conds({"phone"}), i \in Leaves : r = Row(C, <<i>>)
        \/ \E i \in Leaves : r = WrapCond(i)
        \/ \E C \in Conds({"phone"}), i \in {It("words", "w", {}, {}), It("markup", "w", {"phone"}, {})} :
              r = [Row(C, <<i>>) EXCEPT !.framed = TRUE]
    BY DEF LeafRows
  <2> QED  BY <2>1, <2>2, <2>3, <2>4, Zenon
<1>2. \A i \in SomeCells : i \in Item
  BY <1>0 DEF SomeCells, It, Item, Look
<1> DEFINE w == It("words", "w", {}, {})
<1>3. w \in Item
  BY <1>0 DEF It, Item, Look
<1> HIDE DEF w
<1>4. ASSUME NEW C \in Conds({"phone"}), NEW i \in SomeCells, NEW j \in SomeCells
      PROVE  Row(C, <<i, j>>) \in LeafRow /\ Row(C, <<i, j, w>>) \in LeafRow
  <2>1. i \in Item /\ j \in Item
    BY <1>2
  <2>2. /\ <<i, j>> \in Seq(Item) /\ <<i, j>> # <<>>
        /\ <<i, j, w>> \in Seq(Item) /\ <<i, j, w>> # <<>>
    BY <2>1, <1>3
  <2>3. C \in SUBSET Filled
    BY <1>0 DEF Conds
  <2> QED  BY <2>2, <2>3 DEF Row, LeafRow
<1> DEFINE two(C, i, j) == Row(C, <<i, j>>)
           three(C, i, j) == Row(C, <<i, j, w>>)
           Two == {two(C, i, j) : C \in Conds({"phone"}), i \in SomeCells, j \in SomeCells}
           Three == {three(C, i, j) : C \in Conds({"phone"}), i \in SomeCells, j \in SomeCells}
<1>5. SourceRows = LeafRows \cup Two \cup Three
  BY DEF SourceRows, w
<1>6. \A C \in Conds({"phone"}), i \in SomeCells, j \in SomeCells :
        two(C, i, j) \in LeafRow /\ three(C, i, j) \in LeafRow
  BY <1>4
<1> HIDE DEF two, three
<1>7. Two \subseteq LeafRow /\ Three \subseteq LeafRow
  BY <1>6
<1> HIDE DEF Two, Three
<1> QED  BY <1>1, <1>5, <1>7 DEF HtmlRow

LEMMA NewBlocksType == NewBlocks \cup Compound \subseteq AnyBlock
<1>1. NewBlocks \subseteq LeafBlock
  BY DEF NewBlocks, AddressBlock, Block, LeafBlock, It, Item, Look, Filled, Field, Whens
<1>2. Compound \subseteq AnyBlock
  <2> DEFINE R == {Block("text", It("words", "w", {}, {})),
                   Block("field", It("placeholder", "t", {"phone"}, {}))}
  <2>1. R \subseteq LeafBlock
    BY DEF Block, LeafBlock, It, Item, Look, Filled, Field
  <2> HIDE DEF R
  <2>2. \A b \in NewBlocks : <<b>> \in Seq(LeafBlock)
    BY <1>1
  <2>3. \A c \in R : <<c>> \in Seq(LeafBlock)
    BY <2>1
  <2>4. \A b \in NewBlocks : [type |-> "box", inner |-> <<b>>] \in AnyBlock
    BY <2>2 DEF AnyBlock
  <2>5. \A b \in NewBlocks, c \in R : [type |-> "two_col", left |-> <<b>>, right |-> <<c>>] \in AnyBlock
    BY <2>2, <2>3 DEF AnyBlock
  <2> SUFFICES ASSUME NEW x \in Compound PROVE x \in AnyBlock
    OBVIOUS
  <2>6. \/ \E b \in NewBlocks : x = [type |-> "box", inner |-> <<b>>]
        \/ \E b \in NewBlocks, c \in R : x = [type |-> "two_col", left |-> <<b>>, right |-> <<c>>]
    BY DEF Compound, R
  <2> QED  BY <2>4, <2>5, <2>6, Zenon
<1> QED  BY <1>1, <1>2 DEF AnyBlock

LEMMA SaveMetaType ==
  ASSUME NEW bs \in Seq(AnyBlock), SaveMeta(bs)
  PROVE  BuilderTypeOK'
<1>1. blocks' = bs /\ html' = RenderHtml(bs)
  BY DEF SaveMeta
<1>2. RenderHtml(bs) \in Seq(HtmlRow)
  BY RenderHtmlType
<1> SUFFICES /\ html' \in Seq(HtmlRow) /\ blocks' \in Seq(AnyBlock)
             /\ blocks' # <<>> => html' = RenderHtml(blocks')
  BY DEF BuilderTypeOK
<1> QED  BY <1>1, <1>2, Zenon

LEMMA BuilderStep == BuilderTypeOK /\ [BuilderNext]_builderVars => BuilderTypeOK'
<1> SUFFICES ASSUME BuilderTypeOK, [BuilderNext]_builderVars PROVE BuilderTypeOK'
  OBVIOUS
<1>0. html \in Seq(HtmlRow) /\ blocks \in Seq(AnyBlock)
  BY DEF BuilderTypeOK
<1>1. ASSUME NEW h \in Seq(HtmlRow), SaveHtml(h)
      PROVE  BuilderTypeOK'
  <2>1. html' = h /\ blocks' = <<>>
    BY <1>1 DEF SaveHtml
  <2>2. <<>> \in Seq(AnyBlock)
    OBVIOUS
  <2> QED  BY <2>1, <2>2, Zenon DEF BuilderTypeOK
<1>2. CASE SourceEdit
  <2>1. ASSUME NEW r \in SourceRows, SaveHtml(Append(html, r))
        PROVE  BuilderTypeOK'
    <3>1. Append(html, r) \in Seq(HtmlRow)
      BY <1>0, SourceRowsType, AppendProperties
    <3> QED  BY <3>1, <2>1, <1>1
  <2>2. CASE SaveHtml(html)
    BY <2>2, <1>0, <1>1
  <2> QED  BY <1>2, <2>1, <2>2 DEF SourceEdit
<1>3. CASE BuilderEdit
  <2>1. PICK b \in NewBlocks \cup Compound : SaveMeta(Append(blocks, b))
    BY <1>3 DEF BuilderEdit
  <2>2. Append(blocks, b) \in Seq(AnyBlock)
    <3>1. b \in AnyBlock
      BY NewBlocksType
    <3> QED  BY <3>1, <1>0, AppendProperties
  <2> QED  BY <2>1, <2>2, SaveMetaType
<1>4. CASE Convert
  <2>1. SaveMeta(ParseHtml(html))
    BY <1>4 DEF Convert
  <2> QED  BY <2>1, <1>0, ParseHtmlType, SaveMetaType
<1>5. CASE UNCHANGED builderVars
  BY <1>5 DEF builderVars, BuilderTypeOK
<1> QED  BY <1>2, <1>3, <1>4, <1>5 DEF BuilderNext

LEMMA BuilderCorrect == BuilderInit /\ [][BuilderNext]_builderVars => []BuilderTypeOK
<1>1. BuilderInit => BuilderTypeOK
  <2>1. <<>> \in Seq(HtmlRow) /\ <<>> \in Seq(AnyBlock)
    OBVIOUS
  <2> QED  BY <2>1 DEF BuilderInit, BuilderTypeOK
<1> QED  BY <1>1, BuilderStep, PTL


-----------------------------------------------------------------------------
(* Health                                                                  *)

EntryRecord == [member : Result, access : Result, kv : Result, rest : BOOLEAN, at : -1..MaxHour]
RoundRecord == [left : SUBSET Checked, member : [Checked -> Verdict], access : [Checked -> Verdict],
                pc : {"idle", "prune", "batch", "next", "store"} \cup Checked,
                kv : Result \cup {Pending}, copy : [Checked -> EntryRecord]]

HealthNumbers == hour \in 0..MaxHour /\ rounds \in 0..MaxCheck /\ healthTurns \in 0..MaxTurn
HealthSets == /\ on \subseteq Checked /\ signing \subseteq Checked /\ members \subseteq Checked
              /\ access \subseteq Checked /\ signable \subseteq Checked
HealthSwitch == plus \in BOOLEAN

(* A good signature is written down with the time it succeeded at.         *)
Signed(m, kv) == kv.status = "ok" => <<m, kv.at>> \in probes /\ kv.at <= hour

(* What an entry says was found when it says so.                           *)
EntryTrue(m, e) ==
  /\ Signed(m, e.kv) /\ e.at <= hour
  /\ e.at >= 0 =>
       /\ e.member.status \in {"ok", "skip"} => <<m, e.at>> \in seen
       /\ e.kv.status = "ok" => e.at - e.kv.at < KvValid

(* What a round has found stands for the hour it runs in, and so does what  *)
(* its copy of the table says.                                             *)
Tells(r) ==
  /\ \A m \in Checked : EntryTrue(m, r.copy[m])
  /\ r.pc \in {"next", "store"} \cup Checked =>
       \A m \in r.left : r.member[m] = "ok" => <<m, hour>> \in seen
  /\ \A m \in Checked : r.pc = m =>
       /\ m \in r.left /\ Signed(m, r.kv)
       /\ r.kv.status = "ok" => hour - r.kv.at < KvValid

RoundsTell == \A c \in Checker : Tells(round[c])
EntriesTrue == \A m \in Checked : EntryTrue(m, health[m])
HealthTables == round \in [Checker -> RoundRecord] /\ health \in [Checked -> EntryRecord]

HealthInv ==
  HealthNumbers /\ HealthSets /\ HealthSwitch /\ HealthTables /\ RoundsTell /\ EntriesTrue

LEMMA NoEntryYet ==
  ASSUME hour \in 0..MaxHour, NEW m \in Checked
  PROVE  NotChecked \in EntryRecord /\ EntryTrue(m, NotChecked)
  BY HealthAssumption DEF NotChecked, Skip, EntryRecord, Result, EntryTrue, Signed

LEMMA NoEntryYetNext ==
  ASSUME (hour \in 0..MaxHour)', NEW m \in Checked
  PROVE  NotChecked \in EntryRecord /\ EntryTrue(m, NotChecked)'
  BY HealthAssumption DEF NotChecked, Skip, EntryRecord, Result, EntryTrue, Signed

LEMMA QuietRound == hour \in 0..MaxHour => NoRound \in RoundRecord /\ Tells(NoRound)
<1> SUFFICES ASSUME hour \in 0..MaxHour PROVE NoRound \in RoundRecord /\ Tells(NoRound)
  OBVIOUS
<1>1. \A m \in Checked : NotChecked \in EntryRecord /\ EntryTrue(m, NotChecked)
  BY NoEntryYet
<1>2. NoRound.copy = [m \in Checked |-> NotChecked] /\ NoRound.pc = "idle"
  BY DEF NoRound
<1>3. NoRound \in RoundRecord
  BY <1>1 DEF NoRound, RoundRecord, Verdict
<1> QED  BY <1>1, <1>2, <1>3, HealthAssumption DEF Tells

LEMMA QuietRoundNext == (hour \in 0..MaxHour)' => NoRound \in RoundRecord /\ Tells(NoRound)'
<1> SUFFICES ASSUME (hour \in 0..MaxHour)' PROVE NoRound \in RoundRecord /\ Tells(NoRound)'
  OBVIOUS
<1>1. \A m \in Checked : NotChecked \in EntryRecord /\ EntryTrue(m, NotChecked)'
  BY NoEntryYetNext
<1>2. NoRound.copy = [m \in Checked |-> NotChecked] /\ NoRound.pc = "idle"
  BY DEF NoRound
<1>3. NoRound \in RoundRecord
  BY <1>1, HealthAssumption DEF NoRound, RoundRecord, Verdict, EntryRecord, Result
<1> QED  BY <1>1, <1>2, <1>3, HealthAssumption DEF Tells

(* And what an entry tells of its own hour stays true.                     *)
LEMMA EntryLasts ==
  ASSUME NEW m \in Checked, NEW e \in EntryRecord, EntryTrue(m, e),
         hour \in 0..MaxHour, hour' \in 0..MaxHour, hour' >= hour,
         seen \subseteq seen', probes \subseteq probes'
  PROVE  EntryTrue(m, e)'
<1>1. hour \in Nat /\ hour' \in Nat /\ e.at \in Int /\ e.kv.at \in Int
  BY HealthAssumption DEF EntryRecord, Result
<1> QED  BY <1>1 DEF EntryTrue, Signed

(* Within an hour only more is seen: the rounds that do not move tell what *)
(* they told, and the round that moves has to.                             *)
LEMMA OneRoundMoves ==
  ASSUME HealthInv, NEW c \in Checker, NEW r \in RoundRecord, Tells(r)',
         round' = [round EXCEPT ![c] = r],
         hour' = hour, seen \subseteq seen', probes \subseteq probes'
  PROVE  RoundsTell' /\ round' \in [Checker -> RoundRecord]
<1>1. round' \in [Checker -> RoundRecord]
  BY DEF HealthInv, HealthTables
<1>2. ASSUME NEW d \in Checker PROVE Tells(round[d])'
  <2>1. round \in [Checker -> RoundRecord] /\ Tells(round[d])
    BY DEF HealthInv, RoundsTell, HealthTables
  <2>2. CASE d = c
    BY <2>1, <2>2
  <2>3. CASE d # c
    <3>1. round'[d] = round[d]
      BY <2>1, <2>3
    <3>2. \A m \in Checked : EntryTrue(m, round[d].copy[m])'
      <4>1. \A m \in Checked : round[d].copy[m] \in EntryRecord /\ EntryTrue(m, round[d].copy[m])
        BY <2>1 DEF Tells, RoundRecord
      <4>2. hour \in 0..MaxHour /\ hour' \in 0..MaxHour /\ hour' >= hour
        BY DEF HealthInv, HealthNumbers
      <4> QED  BY <3>1, <4>1, <4>2, EntryLasts
    <3> QED  BY <2>1, <3>1, <3>2 DEF Tells, Signed
  <2> QED  BY <2>2, <2>3
<1> QED  BY <1>1, <1>2 DEF RoundsTell

LEMMA SameEntries ==
  ASSUME HealthInv, UNCHANGED health, hour' \in 0..MaxHour, hour' >= hour,
         seen \subseteq seen', probes \subseteq probes'
  PROVE  EntriesTrue' /\ health' \in [Checked -> EntryRecord]
<1>1. hour \in 0..MaxHour /\ health \in [Checked -> EntryRecord] /\ EntriesTrue
  BY DEF HealthInv, HealthTables, HealthNumbers
<1>2. ASSUME NEW m \in Checked PROVE EntryTrue(m, health[m])'
  BY <1>1, EntryLasts DEF EntriesTrue
<1> QED  BY <1>1, <1>2 DEF EntriesTrue

(* Where a step of a round leads on from, once it has stored or begun.     *)
LEMMA OnwardsTells ==
  ASSUME NEW r \in RoundRecord, Tells(r)', (hour \in 0..MaxHour)',
         r.pc = "prune" \/ r.pc \in {"next", "store"} \cup Checked
  PROVE  Onwards(r) \in RoundRecord /\ Tells(Onwards(r))'
<1>q. NoRound \in RoundRecord /\ Tells(NoRound)'
  BY QuietRoundNext
<1>1. CASE r.left = {}
  BY <1>1, <1>q DEF Onwards
<1>2. CASE r.left # {}
  <2>1. PICK s : s = Onwards(r)
    OBVIOUS
  <2>2. s = [r EXCEPT !.pc = IF r.pc = "prune" THEN "batch" ELSE "next",
                      !.kv = Pending, !.copy = NoRound.copy]
    BY <1>2, <2>1 DEF Onwards
  <2>3. NoRound.copy \in [Checked -> EntryRecord] /\ \A m \in Checked : EntryTrue(m, NoRound.copy[m])'
    BY <1>q DEF Tells, RoundRecord
  <2>4. /\ s \in RoundRecord /\ s.left = r.left /\ s.member = r.member /\ s.copy = NoRound.copy
        /\ s.pc = IF r.pc = "prune" THEN "batch" ELSE "next"
    BY <2>2, <2>3 DEF RoundRecord
  <2>5. s.pc \notin Checked /\ (s.pc = "next" => r.pc \in {"next", "store"} \cup Checked)
    BY <2>4, HealthAssumption
  <2>6. Tells(s)'
    BY <2>3, <2>4, <2>5, HealthAssumption DEF Tells
  <2> QED  BY <2>1, <2>4, <2>6
<1> QED  BY <1>1, <1>2

(* A copy of the table that a round keeps is as true as it was.            *)
LEMMA CopyLasts ==
  ASSUME HealthInv, NEW c \in Checker, NEW r \in RoundRecord, r.copy = round[c].copy,
         hour' = hour, seen \subseteq seen', probes \subseteq probes'
  PROVE  \A m \in Checked : EntryTrue(m, r.copy[m])'
<1>1. /\ hour \in 0..MaxHour /\ hour' \in 0..MaxHour /\ hour' >= hour
      /\ \A m \in Checked : r.copy[m] \in EntryRecord /\ EntryTrue(m, r.copy[m])
  BY DEF HealthInv, HealthNumbers, HealthTables, RoundsTell, Tells, RoundRecord
<1> QED  BY <1>1, EntryLasts

(* A step of one round that stores nothing.                                *)
LEMMA RoundStep ==
  ASSUME HealthInv, NEW c \in Checker, NEW r \in RoundRecord, Tells(r)',
         round' = [round EXCEPT ![c] = r], UNCHANGED health,
         hour' = hour, seen \subseteq seen', probes \subseteq probes',
         HealthNumbers', HealthSets', HealthSwitch'
  PROVE  HealthInv'
<1>1. hour' \in 0..MaxHour /\ hour' >= hour
  BY DEF HealthInv, HealthNumbers
<1> QED  BY <1>1, OneRoundMoves, SameEntries DEF HealthInv, HealthTables

LEMMA HealthStep == HealthInv /\ [HealthNext]_healthVars => HealthInv'
<1> SUFFICES ASSUME HealthInv, [HealthNext]_healthVars PROVE HealthInv'
  OBVIOUS
<1>a. HealthNumbers /\ HealthSets /\ HealthSwitch /\ round \in [Checker -> RoundRecord]
      /\ health \in [Checked -> EntryRecord] /\ RoundsTell /\ EntriesTrue
  BY DEF HealthInv, HealthTables
<1> USE HealthAssumption DEF healthWorld
<1>1. ASSUME NEW c \in Checker, BeginRound(c)
      PROVE  HealthInv'
  <2> DEFINE begun == [NoRound EXCEPT !.left = on, !.copy = Current, !.pc = "prune"]
  <2>1. HealthNumbers' /\ HealthSets' /\ HealthSwitch' /\ hour' = hour
        /\ UNCHANGED <<seen, probes, health>> /\ hour \in 0..MaxHour
    BY <1>1, <1>a DEF BeginRound, HealthNumbers, HealthSets, HealthSwitch
  <2>2. Current \in [Checked -> EntryRecord] /\ \A m \in Checked : EntryTrue(m, Current[m])
    <3>1. ASSUME NEW m \in Checked
          PROVE  Current[m] \in EntryRecord /\ EntryTrue(m, Current[m])
      <4>1. Current[m] = health[m] \/ Current[m] = NotChecked
        BY DEF Current
      <4>2. health[m] \in EntryRecord /\ EntryTrue(m, health[m])
        BY <1>a DEF EntriesTrue
      <4> QED  BY <2>1, <4>1, <4>2, NoEntryYet
    <3> QED  BY <3>1 DEF Current
  <2>q. NoRound \in RoundRecord
    BY <2>1, QuietRound
  <2>r. PICK r : r = begun
    OBVIOUS
  <2>3. r \in RoundRecord /\ r.pc = "prune" /\ r.copy = Current
    BY <1>a, <2>2, <2>q, <2>r DEF HealthSets, RoundRecord
  <2>s. \A m \in Checked : EntryTrue(m, r.copy[m])'
    <3>1. \A m \in Checked : r.copy[m] \in EntryRecord /\ EntryTrue(m, r.copy[m])
      BY <2>2, <2>3
    <3> QED  BY <2>1, <3>1, EntryLasts
  <2>4. Tells(r)'
    BY <2>3, <2>s DEF Tells
  <2>5. Onwards(r) \in RoundRecord /\ Tells(Onwards(r))'
    BY <2>1, <2>3, <2>4, OnwardsTells
  <2>6. PICK t : t = IF Current = health THEN Onwards(r) ELSE r
    OBVIOUS
  <2>7. t \in RoundRecord /\ Tells(t)'
    BY <2>3, <2>4, <2>5, <2>6
  <2>8. round' = [round EXCEPT ![c] = t]
    BY <1>1, <2>r, <2>6 DEF BeginRound
  <2> QED  BY <2>1, <2>7, <2>8, RoundStep
<1>2. ASSUME NEW c \in Checker, Batch(c)
      PROVE  HealthInv'
  <2> DEFINE list == round[c].left
  <2>1. list \subseteq Checked /\ round[c] \in RoundRecord /\ NoRound.access \in [Checked -> Verdict]
    BY <1>a, QuietRound DEF RoundRecord, HealthNumbers
  <2>2. PICK new \in SUBSET (list \ members), taken \in SUBSET (list \ members) :
          /\ members' = members \cup new
          /\ seen' = seen \cup {<<m, hour>> : m \in list \cap (members \cup new \cup taken)}
          /\ \E granted \in IF plus THEN SUBSET (list \ access) ELSE {{}} :
               /\ access' = access \cup granted
               /\ \E found \in {plus, FALSE} :
                    /\ ~found => granted = {}
                    /\ round' = [round EXCEPT ![c] =
                         [@ EXCEPT !.pc = "next", !.member = Says(list, members \cup taken, new),
                                   !.access = IF found THEN Says(list, access, granted)
                                              ELSE NoRound.access]]
    BY <1>2, Zenon DEF Batch
  <2>3. PICK granted \in IF plus THEN SUBSET (list \ access) ELSE {{}} :
          /\ access' = access \cup granted
          /\ \E found \in {plus, FALSE} :
               /\ ~found => granted = {}
               /\ round' = [round EXCEPT ![c] =
                    [@ EXCEPT !.pc = "next", !.member = Says(list, members \cup taken, new),
                              !.access = IF found THEN Says(list, access, granted)
                                         ELSE NoRound.access]]
    BY <2>2
  <2> DEFINE there == members \cup taken
  <2>g. granted \subseteq list \ access
    BY <2>3
  <2>4. /\ Says(list, there, new) \in [Checked -> Verdict]
        /\ Says(list, access, granted) \in [Checked -> Verdict]
        /\ \A m \in list : Says(list, there, new)[m] = "ok" => m \in there
    BY <2>1 DEF Says, Verdict
  <2>5. PICK rights \in [Checked -> Verdict] :
          round' = [round EXCEPT ![c] = [round[c] EXCEPT !.pc = "next", !.member = Says(list, there, new),
                                                         !.access = rights]]
    BY <2>1, <2>3, <2>4
  <2>r. PICK r : r = [round[c] EXCEPT !.pc = "next", !.member = Says(list, there, new), !.access = rights]
    OBVIOUS
  <2>6. r \in RoundRecord /\ r.pc = "next" /\ r.left = list /\ r.member = Says(list, there, new)
        /\ r.copy = round[c].copy
    BY <2>1, <2>4, <2>r DEF RoundRecord
  <2>7. hour' = hour /\ seen \subseteq seen' /\ probes' = probes /\ health' = health
    BY <1>2, <2>2 DEF Batch
  <2>8. Tells(r)'
    <3>1. \A m \in list : Says(list, there, new)[m] = "ok" => <<m, hour>> \in seen'
      BY <2>2, <2>4
    <3>2. \A m \in Checked : EntryTrue(m, r.copy[m])'
      BY <2>6, <2>7, CopyLasts
    <3> QED  BY <2>1, <2>6, <2>7, <3>1, <3>2 DEF Tells
  <2>9. HealthNumbers' /\ HealthSets' /\ HealthSwitch'
    <3>1. members' \subseteq Checked /\ access' \subseteq Checked
      BY <1>a, <2>1, <2>2, <2>3, <2>g DEF HealthSets
    <3> QED  BY <1>2, <1>a, <3>1 DEF Batch, HealthNumbers, HealthSets, HealthSwitch
  <2> QED  BY <2>5, <2>r, <2>6, <2>7, <2>8, <2>9, RoundStep
<1>3. ASSUME NEW c \in Checker, BatchFails(c)
      PROVE  HealthInv'
  <2> DEFINE list == round[c].left
             bad == [m \in Checked |-> IF m \in list THEN "error" ELSE "none"]
  <2>1. list \subseteq Checked /\ round[c] \in RoundRecord /\ bad \in [Checked -> Verdict]
    BY <1>a DEF RoundRecord, Verdict
  <2>r. PICK r : r = [round[c] EXCEPT !.pc = "next", !.member = bad]
    OBVIOUS
  <2>2. r \in RoundRecord /\ r.pc = "next" /\ r.left = list /\ r.member = bad
        /\ r.copy = round[c].copy
    BY <2>1, <2>r DEF RoundRecord
  <2>3. Tells(r)'
    <3>1. hour' = hour /\ UNCHANGED <<seen, probes>>
      BY <1>3 DEF BatchFails
    <3> QED  BY <2>1, <2>2, <3>1, CopyLasts DEF Tells
  <2>4. HealthNumbers' /\ HealthSets' /\ HealthSwitch'
    <3>1. members' \subseteq Checked /\ access' \subseteq Checked
      BY <1>3, <1>a, <2>1 DEF HealthSets, BatchFails
    <3> QED  BY <1>3, <1>a, <3>1 DEF BatchFails, HealthNumbers, HealthSets, HealthSwitch
  <2>5. round' = [round EXCEPT ![c] = r] /\ hour' = hour /\ UNCHANGED <<seen, probes, health>>
    BY <1>3, <2>r DEF BatchFails
  <2> QED  BY <2>2, <2>3, <2>4, <2>5, RoundStep
<1>4. ASSUME NEW c \in Checker, NEW m \in Checked, LookAt(c, m)
      PROVE  HealthInv'
  <2>1. PICK kv : /\ round' = [round EXCEPT ![c] = [round[c] EXCEPT !.pc = m, !.kv = kv]]
                  /\ kv \in {Skip, Pending} \/ (kv = health[m].kv /\ hour - kv.at < KvValid)
    BY <1>4 DEF LookAt, Fresh, Reused
  <2>r. PICK r : r = [round[c] EXCEPT !.pc = m, !.kv = kv]
    OBVIOUS
  <2>2. /\ health[m] \in EntryRecord /\ EntryTrue(m, health[m])
        /\ round[c] \in RoundRecord /\ Tells(round[c])
    BY <1>a DEF RoundsTell, EntriesTrue
  <2>3. kv \in Result \cup {Pending} /\ Signed(m, kv)
        /\ (kv.status = "ok" => hour - kv.at < KvValid)
    BY <2>1, <2>2 DEF EntryRecord, EntryTrue, Skip, Pending, Result, Signed, Verdict
  <2>4. r \in RoundRecord /\ r.pc = m /\ r.left = round[c].left /\ r.member = round[c].member /\ r.kv = kv
        /\ r.copy = round[c].copy
    BY <2>2, <2>3, <2>r DEF RoundRecord
  <2>5. hour' = hour /\ UNCHANGED <<seen, probes, health>>
    BY <1>4 DEF LookAt
  <2>6. round[c].pc = "next" /\ m \in round[c].left
    BY <1>4 DEF LookAt
  <2>7. Tells(r)'
    BY <2>2, <2>3, <2>4, <2>5, <2>6, CopyLasts DEF Tells, Signed
  <2>8. HealthNumbers' /\ HealthSets' /\ HealthSwitch'
    BY <1>4, <1>a DEF LookAt, HealthNumbers, HealthSets, HealthSwitch
  <2> QED  BY <2>1, <2>r, <2>4, <2>5, <2>7, <2>8, RoundStep
<1>5. ASSUME NEW c \in Checker, NEW m \in Checked, Probe(c, m)
      PROVE  HealthInv'
  <2>r. PICK r : r = [round[c] EXCEPT !.kv = ProbeResult(m)]
    OBVIOUS
  <2>1. /\ round[c] \in RoundRecord /\ Tells(round[c]) /\ round[c].pc = m
        /\ round' = [round EXCEPT ![c] = r]
        /\ hour' = hour /\ UNCHANGED <<seen, health>>
        /\ probes' = IF m \in signable THEN probes \cup {<<m, hour>>} ELSE probes
    BY <1>5, <1>a, <2>r DEF Probe, RoundsTell
  <2>2. ProbeResult(m) \in Result /\ ProbeResult(m).at = hour
        /\ (ProbeResult(m).status = "ok" => m \in signable)
    BY <1>a DEF ProbeResult, Found, Result, Verdict, HealthNumbers
  <2>3. r \in RoundRecord /\ r.pc = m /\ r.left = round[c].left /\ r.member = round[c].member
        /\ r.kv = ProbeResult(m) /\ r.copy = round[c].copy
    BY <2>1, <2>2, <2>r DEF RoundRecord
  <2>4. Tells(r)'
    <3>1. hour \in Nat /\ hour - hour < KvValid
      BY <1>a DEF HealthNumbers
    <3>2. \A n \in r.left : r.member[n] = "ok" => <<n, hour>> \in seen
      BY <2>1, <2>3 DEF Tells
    <3>3. m \in r.left /\ Signed(m, r.kv)' /\ (r.kv.status = "ok" => hour - r.kv.at < KvValid)
      <4>1. m \in r.left
        BY <2>1, <2>3 DEF Tells
      <4>2. r.kv.at = hour /\ (r.kv.status = "ok" => m \in signable)
        BY <2>2, <2>3
      <4>3. Signed(m, r.kv)'
        BY <2>1, <4>2, <3>1 DEF Signed
      <4> QED  BY <4>1, <4>2, <4>3, <3>1
    <3>4. \A n \in Checked : EntryTrue(n, r.copy[n])'
      BY <2>1, <2>3, CopyLasts
    <3> QED  BY <2>1, <2>3, <3>2, <3>3, <3>4 DEF Tells
  <2>5. HealthNumbers' /\ HealthSets' /\ HealthSwitch'
    BY <1>5, <1>a DEF Probe, HealthNumbers, HealthSets, HealthSwitch
  <2> QED  BY <2>1, <2>3, <2>4, <2>5, RoundStep
<1>6. ASSUME NEW c \in Checker, NEW m \in Checked, TakeDown(c, m)
      PROVE  HealthInv'
  <2>1. HealthNumbers' /\ HealthSets' /\ HealthSwitch' /\ hour' = hour /\ hour \in 0..MaxHour
        /\ UNCHANGED <<seen, probes, health>>
    BY <1>6, <1>a DEF TakeDown, HealthNumbers, HealthSets, HealthSwitch
  <2>2. PICK fine \in BOOLEAN :
          round' = [round EXCEPT ![c] =
             [round[c] EXCEPT !.left = @ \ {m}, !.pc = "store", !.kv = Pending,
                              !.copy = [health EXCEPT ![m] = Entry(c, m, fine)]]]
    <3>1. \A x \in ReadOnly(m) : x \in BOOLEAN
      BY DEF ReadOnly
    <3> QED  BY <1>6, <3>1, Zenon DEF TakeDown
  <2>4. round[c] \in RoundRecord /\ Tells(round[c]) /\ round[c].pc = m /\ round[c].kv # Pending
    BY <1>6, <1>a DEF TakeDown, RoundsTell
  <2>5. round[c].kv \in Result /\ round[c].member[m] \in Verdict /\ round[c].access[m] \in Verdict
    BY <2>4 DEF RoundRecord
  <2>e. PICK e : e = Entry(c, m, fine)
    OBVIOUS
  <2>6. \A v \in Verdict : Found(v) \in Result
    BY <1>a DEF Found, Result, HealthNumbers
  <2>7. Skip \in Result
    BY DEF Skip, Result
  <2>8. e \in EntryRecord
    <3>1. hour \in -1..MaxHour
      BY <1>a DEF HealthNumbers
    <3>2. e.access \in Result
      BY <2>5, <2>6, <2>7, <2>e DEF Entry
    <3> HIDE DEF Skip, Result, Found
    <3> QED  BY <2>5, <2>6, <2>7, <2>e, <3>1, <3>2 DEF Entry, EntryRecord
  <2>9. EntryTrue(m, e)
    <3>1. e.kv = round[c].kv /\ e.at = hour /\ e.member.status = round[c].member[m]
      BY <2>e DEF Entry, Found
    <3>2. /\ Signed(m, e.kv) /\ m \in round[c].left
          /\ e.kv.status = "ok" => hour - e.kv.at < KvValid
          /\ e.member.status = "ok" => <<m, hour>> \in seen
      BY <2>4, <3>1 DEF Tells
    <3>3. e.member.status # "skip"
      BY <2>5, <3>1 DEF Verdict
    <3> QED  BY <2>1, <3>1, <3>2, <3>3 DEF EntryTrue, Signed
  <2>r. PICK r : r = [round[c] EXCEPT !.left = @ \ {m}, !.pc = "store", !.kv = Pending,
                                      !.copy = [health EXCEPT ![m] = e]]
    OBVIOUS
  <2>10. /\ r \in RoundRecord /\ r.pc = "store" /\ r.left = round[c].left \ {m}
         /\ r.member = round[c].member /\ r.copy = [health EXCEPT ![m] = e]
    BY <1>a, <2>4, <2>8, <2>r DEF RoundRecord
  <2>11. ASSUME NEW n \in Checked PROVE EntryTrue(n, r.copy[n])'
    <3>1. CASE n = m
      BY <1>a, <2>1, <2>8, <2>9, <2>10, <3>1, EntryLasts
    <3>2. CASE n # m
      <4>1. r.copy[n] = health[n] /\ health[n] \in EntryRecord /\ EntryTrue(n, health[n])
        BY <1>a, <2>10, <3>2 DEF EntriesTrue
      <4>2. r.copy[n] \in EntryRecord /\ EntryTrue(n, r.copy[n])
        BY <4>1
      <4> QED  BY <2>1, <4>2, EntryLasts
    <3> QED  BY <3>1, <3>2
  <2>12. Tells(r)'
    BY <2>1, <2>4, <2>10, <2>11 DEF Tells
  <2>13. round' = [round EXCEPT ![c] = r]
    BY <2>2, <2>e, <2>r
  <2> QED  BY <2>1, <2>10, <2>12, <2>13, RoundStep
<1>n. ASSUME NEW c \in Checker, StoreTable(c)
      PROVE  HealthInv'
  <2>1. HealthNumbers' /\ HealthSets' /\ HealthSwitch' /\ hour' = hour /\ hour \in 0..MaxHour
        /\ UNCHANGED <<seen, probes>>
    BY <1>n, <1>a DEF StoreTable, HealthNumbers, HealthSets, HealthSwitch
  <2>r. PICK r : r = round[c]
    OBVIOUS
  <2>2. /\ r \in RoundRecord /\ Tells(round[c]) /\ r.copy = round[c].copy
        /\ r.pc \in {"prune", "store"} /\ r.left = round[c].left
        /\ r.member = round[c].member /\ r.pc = round[c].pc /\ health' = r.copy
    BY <1>n, <1>a, <2>r DEF StoreTable, RoundsTell
  <2>3. \A m \in Checked : EntryTrue(m, r.copy[m])'
    BY <2>1, <2>2, CopyLasts
  <2>4. Tells(r)'
    BY <2>1, <2>2, <2>3 DEF Tells
  <2>5. Onwards(r) \in RoundRecord /\ Tells(Onwards(r))'
    BY <2>1, <2>2, <2>4, OnwardsTells
  <2>6. PICK t : t = Onwards(r)
    OBVIOUS
  <2>7. round' = [round EXCEPT ![c] = t]
    BY <1>n, <2>r, <2>6 DEF StoreTable
  <2>8. round' \in [Checker -> RoundRecord] /\ RoundsTell'
    BY <2>1, <2>5, <2>6, <2>7, OneRoundMoves
  <2>9. EntriesTrue' /\ health' \in [Checked -> EntryRecord]
    BY <2>2, <2>3 DEF EntriesTrue, RoundRecord
  <2> QED  BY <2>1, <2>8, <2>9 DEF HealthInv, HealthTables
<1>7. ASSUME NEW c \in Checker, NEW m \in Checked, Skipped(c, m)
      PROVE  HealthInv'
  <2>1. HealthNumbers' /\ HealthSets' /\ HealthSwitch' /\ hour' = hour /\ hour \in 0..MaxHour
        /\ UNCHANGED <<seen, probes, health>>
    BY <1>7, <1>a DEF Skipped, HealthNumbers, HealthSets, HealthSwitch
  <2>r. PICK r : r = [round[c] EXCEPT !.left = @ \ {m}]
    OBVIOUS
  <2>2. round[c] \in RoundRecord /\ Tells(round[c]) /\ round[c].pc = m
    BY <1>7, <1>a DEF Skipped, RoundsTell
  <2>3. /\ r \in RoundRecord /\ r.left = round[c].left \ {m} /\ r.pc = m
        /\ r.copy = round[c].copy /\ r.member = round[c].member /\ r.kv = round[c].kv
    BY <2>2, <2>r DEF RoundRecord
  <2>s. PICK s : s = [r EXCEPT !.pc = "next"]
    OBVIOUS
  <2>4. /\ s \in RoundRecord /\ s.left = r.left /\ s.pc = "next"
        /\ s.copy = round[c].copy /\ s.member = round[c].member
    BY <2>3, <2>s DEF RoundRecord
  <2>5. Tells(s)'
    BY <2>1, <2>2, <2>3, <2>4, CopyLasts DEF Tells
  <2>6. Onwards(s) \in RoundRecord /\ Tells(Onwards(s))'
    BY <2>1, <2>4, <2>5, OnwardsTells
  <2>7. PICK t : t = Onwards(s)
    OBVIOUS
  <2>8. Onwards(r) = Onwards(s)
    BY <2>3, <2>4, <2>s DEF Onwards, RoundRecord
  <2>9. round' = [round EXCEPT ![c] = t]
    BY <1>7, <2>r, <2>7, <2>8 DEF Skipped
  <2> QED  BY <2>1, <2>6, <2>7, <2>9, RoundStep
<1>8. CASE HealthRestart
  <2>1. HealthNumbers' /\ HealthSets' /\ HealthSwitch' /\ hour' = hour
    BY <1>8, <1>a DEF HealthRestart, HealthNumbers, HealthSets, HealthSwitch
  <2>2. round' = [c \in Checker |-> NoRound]
    BY <1>8 DEF HealthRestart
  <2>3. round' \in [Checker -> RoundRecord] /\ RoundsTell'
    BY <2>1, <2>2, QuietRoundNext DEF RoundsTell, HealthNumbers
  <2>4. UNCHANGED <<health, seen, probes>> /\ hour' \in 0..MaxHour /\ hour' >= hour
    BY <1>8, <1>a, <2>1 DEF HealthRestart, HealthNumbers
  <2> QED  BY <2>1, <2>3, <2>4, SameEntries DEF HealthInv, HealthTables
<1>9. CASE HealthTurn
  <2>1. HealthNumbers' /\ hour' = hour /\ UNCHANGED <<round, health, seen, probes>>
    BY <1>9, <1>a DEF HealthTurn, HealthNumbers
  <2>2. HealthSets'
    BY <1>9, <1>a DEF HealthTurn, Turned, HealthSets
  <2>3. HealthSwitch'
    BY <1>9, <1>a DEF HealthTurn, HealthSwitch
  <2>4. RoundsTell' /\ EntriesTrue'
    BY <1>a, <2>1 DEF RoundsTell, EntriesTrue, Tells, EntryTrue, Signed
  <2> QED  BY <1>a, <2>1, <2>2, <2>3, <2>4 DEF HealthInv, HealthTables
<1>10. CASE HealthTick
  <2>1. HealthNumbers' /\ HealthSets' /\ HealthSwitch'
    BY <1>10, <1>a DEF HealthTick, HealthNumbers, HealthSets, HealthSwitch
  <2>2. UNCHANGED <<round, health, seen, probes>> /\ hour' \in 0..MaxHour /\ hour' >= hour
    BY <1>10, <1>a DEF HealthTick, HealthNumbers
  <2>3. RoundsTell'
    <3>1. ASSUME NEW c \in Checker PROVE Tells(round[c])'
      <4>1. round[c] \in RoundRecord /\ Tells(round[c]) /\ round[c].pc = "idle" /\ round' = round
        BY <1>10, <1>a DEF HealthTick, RoundsTell
      <4>2. \A m \in Checked : EntryTrue(m, round[c].copy[m])'
        <5>1. \A m \in Checked : round[c].copy[m] \in EntryRecord /\ EntryTrue(m, round[c].copy[m])
          BY <4>1 DEF Tells, RoundRecord
        <5> QED  BY <1>a, <2>2, <4>1, <5>1, EntryLasts DEF HealthNumbers
      <4> QED  BY <4>1, <4>2 DEF Tells
    <3> QED  BY <3>1 DEF RoundsTell
  <2> QED  BY <1>a, <2>1, <2>2, <2>3, SameEntries DEF HealthInv, HealthTables
<1>11. CASE UNCHANGED healthVars
  BY <1>11, <1>a DEF healthVars, HealthInv, HealthTables, HealthNumbers, HealthSets, HealthSwitch,
                     RoundsTell, EntriesTrue, Tells, EntryTrue, Signed
<1> QED  BY <1>1, <1>2, <1>3, <1>4, <1>5, <1>6, <1>n, <1>7, <1>8, <1>9, <1>10, <1>11 DEF HealthNext

LEMMA HealthCorrect == HealthInit /\ [][HealthNext]_healthVars => []HealthInv
<1>1. HealthInit => HealthInv
  <2> SUFFICES ASSUME HealthInit PROVE HealthInv
    OBVIOUS
  <2> USE HealthAssumption DEF HealthInit
  <2>1. HealthNumbers /\ HealthSets /\ HealthSwitch
    BY DEF HealthNumbers, HealthSets, HealthSwitch
  <2>2. HealthTables
    <3>1. NotChecked \in EntryRecord
      BY DEF EntryRecord, NotChecked, Skip, Result
    <3> QED  BY <2>1, <3>1, QuietRound DEF HealthTables, HealthNumbers
  <2>3. RoundsTell /\ EntriesTrue
    BY <2>1, QuietRound, NoEntryYet DEF RoundsTell, EntriesTrue, HealthNumbers
  <2> QED  BY <2>1, <2>2, <2>3 DEF HealthInv
<1> QED  BY <1>1, HealthStep, PTL

LEMMA GreenFromInv == HealthInv => GreenIsEarned
  BY HealthAssumption DEF HealthInv, EntriesTrue, EntryTrue, GreenIsEarned, Green, Signed

LEMMA HealthTypesHold == HealthInv => HealthTypeOK
<1> SUFFICES ASSUME HealthInv PROVE HealthTypeOK
  OBVIOUS
<1>1. \A c \in Checker : round[c].left \subseteq Checked /\ round[c].kv \in Result \cup {Pending}
  BY DEF HealthInv, HealthTables, RoundRecord
<1>2. hour \in 0..MaxHour /\ rounds \in 0..MaxCheck /\ healthTurns \in 0..MaxTurn
  BY DEF HealthInv, HealthNumbers
<1> QED  BY <1>1, <1>2 DEF HealthInv, HealthTables, EntryRecord, HealthSets, HealthSwitch, HealthTypeOK


-----------------------------------------------------------------------------
(* Daily                                                                   *)

LEMMA UrgentIn == ASSUME NEW S \in SUBSET Nat, S # {} PROVE Urgent(S) \in S
<1>1. \E m \in S : \A k \in S : m <= k
  BY Least
<1> QED  BY <1>1 DEF Urgent

DailyNumbers ==
  /\ day \in 0..MaxDay /\ lastRun \in Never..MaxDay /\ expires \in Nat /\ renewTried \in Never..MaxDay
  /\ posts \in [Kind -> Nat] /\ dailyStops \in 0..MaxDailyStop
DailySwitches == reached \in BOOLEAN /\ restarting \in BOOLEAN
DailyMarks == step \in Kind \cup {"idle"}
              /\ alerted \subseteq {"expiry", "licence"} \X Nat /\ reminded \subseteq Nat \X Rung

(* The kinds of mail a round sends from the step it is at.                 *)
Coming ==
  CASE step = "tls" -> Kind
    [] step = "listener" -> Kind \ {"tls"}
    [] step = "expiry" -> {"expiry", "reminder", "licence", "report"}
    [] step = "reminder" -> {"reminder", "licence", "report"}
    [] step = "licence" -> {"licence", "report"}
    [] step = "report" -> {"report"}
    [] OTHER -> {}

(* What is still to come in a round has not been sent today; and the day   *)
(* of a round is written down before anything is sent.                     *)
RoundOfToday ==
  /\ step # "idle" => lastRun = day
  /\ lastRun <= day /\ (lastRun # day => \A k \in Kind : posts[k] = 0)
  /\ \A k \in Coming : posts[k] = 0

DailyInv == DailyNumbers /\ DailySwitches /\ DailyMarks /\ RoundOfToday /\ OnceADay

LEMMA DailyStep == DailyInv /\ [DailyNext]_dailyVars => DailyInv'
<1> SUFFICES ASSUME DailyInv, [DailyNext]_dailyVars PROVE DailyInv'
  OBVIOUS
<1>a. DailyNumbers /\ DailySwitches /\ DailyMarks /\ RoundOfToday /\ OnceADay
  BY DEF DailyInv
<1> USE DailyAssumption DEF Kind, NoPosts, Never, Quiet, Post, dailyMemory
<1>1. CASE BeginDaily
  <2>1. DailyNumbers'
    BY <1>1, <1>a DEF BeginDaily, Persisted, DailyNumbers
  <2>2. DailySwitches'
    BY <1>1, <1>a DEF BeginDaily, Persisted, DailySwitches
  <2>3. DailyMarks'
    BY <1>1, <1>a DEF BeginDaily, Persisted, DailyMarks
  <2>4. RoundOfToday'
    BY <1>1, <1>a DEF BeginDaily, Persisted, RoundOfToday, Coming, DailyNumbers, DailyMarks
  <2>5. OnceADay'
    BY <1>1, <1>a DEF BeginDaily, Persisted, OnceADay, RoundOfToday, Coming, DailyNumbers
  <2> QED  BY <2>1, <2>2, <2>3, <2>4, <2>5 DEF DailyInv
<1>2. CASE CheckTls
  <2>a. /\ step = "tls" /\ step' = "listener" /\ renewTried' \in {renewTried, day}
        /\ posts' = posts \/ posts' = [posts EXCEPT !["tls"] = @ + 1]
        /\ UNCHANGED <<day, reached, lastRun, expires, alerted, reminded, dailyStops>>
    BY <1>2 DEF CheckTls
  <2>1. DailyNumbers'
    BY <2>a, <1>a DEF DailyNumbers
  <2>2. DailySwitches'
    BY <1>2, <1>a DEF CheckTls, Persisted, DailySwitches
  <2>3. DailyMarks'
    BY <1>2, <1>a DEF CheckTls, Persisted, DailyMarks
  <2>4. RoundOfToday'
    BY <2>a, <1>a DEF RoundOfToday, Coming, DailyNumbers
  <2>5. OnceADay'
    BY <2>a, <1>a DEF OnceADay, RoundOfToday, Coming, DailyNumbers
  <2> QED  BY <2>1, <2>2, <2>3, <2>4, <2>5 DEF DailyInv
<1>3. CASE CheckListener
  <2>1. DailyNumbers'
    BY <1>3, <1>a DEF CheckListener, Persisted, DailyNumbers
  <2>2. DailySwitches'
    BY <1>3, <1>a DEF CheckListener, Persisted, DailySwitches
  <2>3. DailyMarks'
    BY <1>3, <1>a DEF CheckListener, Persisted, DailyMarks
  <2>4. RoundOfToday'
    BY <1>3, <1>a DEF CheckListener, Persisted, RoundOfToday, Coming, DailyNumbers, DailyMarks
  <2>5. OnceADay'
    BY <1>3, <1>a DEF CheckListener, Persisted, OnceADay, RoundOfToday, Coming, DailyNumbers
  <2> QED  BY <2>1, <2>2, <2>3, <2>4, <2>5 DEF DailyInv
<1>4. CASE AlertAdmins
  <2>1. DailyNumbers'
    BY <1>4, <1>a DEF AlertAdmins, Persisted, DailyNumbers
  <2>2. DailySwitches'
    BY <1>4, <1>a DEF AlertAdmins, Persisted, DailySwitches
  <2>3. DailyMarks'
    <3>1. <<"expiry", day>> \in {"expiry", "licence"} \X Nat
      BY <1>a DEF DailyNumbers
    <3> QED  BY <1>4, <1>a, <3>1 DEF AlertAdmins, DailyMarks
  <2>4. RoundOfToday'
    BY <1>4, <1>a DEF AlertAdmins, Persisted, RoundOfToday, Coming, DailyNumbers, DailyMarks
  <2>5. OnceADay'
    BY <1>4, <1>a DEF AlertAdmins, Persisted, OnceADay, RoundOfToday, Coming, DailyNumbers
  <2> QED  BY <2>1, <2>2, <2>3, <2>4, <2>5 DEF DailyInv
<1>5. CASE RemindOwner
  <2>1. DailyNumbers'
    BY <1>5, <1>a DEF RemindOwner, Persisted, Open, DailyNumbers
  <2>2. DailySwitches'
    BY <1>5, <1>a DEF RemindOwner, Persisted, Open, DailySwitches
  <2>3. DailyMarks'
    <3>1. Open # {} => <<expires, Urgent(Open)>> \in Nat \X Rung
      BY <1>a, UrgentIn DEF DailyNumbers, Open
    <3> QED  BY <1>5, <1>a, <3>1 DEF RemindOwner, DailyMarks
  <2>4. RoundOfToday'
    BY <1>5, <1>a DEF RemindOwner, Persisted, Open, RoundOfToday, Coming, DailyNumbers, DailyMarks
  <2>5. OnceADay'
    BY <1>5, <1>a DEF RemindOwner, Persisted, Open, OnceADay, RoundOfToday, Coming, DailyNumbers
  <2> QED  BY <2>1, <2>2, <2>3, <2>4, <2>5 DEF DailyInv
<1>6. CASE CheckLicence
  <2>1. DailyNumbers'
    BY <1>6, <1>a DEF CheckLicence, Persisted, LicenceRungs, DailyNumbers
  <2>2. DailySwitches'
    BY <1>6, <1>a DEF CheckLicence, Persisted, LicenceRungs, DailySwitches
  <2>3. DailyMarks'
    <3>1. LicenceRungs # {} => <<"licence", Urgent(LicenceRungs)>> \in {"expiry", "licence"} \X Nat
      BY UrgentIn DEF LicenceRungs
    <3> QED  BY <1>6, <1>a, <3>1 DEF CheckLicence, DailyMarks
  <2>4. RoundOfToday'
    BY <1>6, <1>a DEF CheckLicence, Persisted, LicenceRungs, RoundOfToday, Coming, DailyNumbers, DailyMarks
  <2>5. OnceADay'
    BY <1>6, <1>a DEF CheckLicence, Persisted, LicenceRungs, OnceADay, RoundOfToday, Coming, DailyNumbers
  <2> QED  BY <2>1, <2>2, <2>3, <2>4, <2>5 DEF DailyInv
<1>7. CASE SendReport
  <2>1. DailyNumbers'
    BY <1>7, <1>a DEF SendReport, Persisted, DailyNumbers
  <2>2. DailySwitches'
    BY <1>7, <1>a DEF SendReport, Persisted, DailySwitches
  <2>3. DailyMarks'
    BY <1>7, <1>a DEF SendReport, Persisted, DailyMarks
  <2>4. RoundOfToday'
    BY <1>7, <1>a DEF SendReport, Persisted, RoundOfToday, Coming, DailyNumbers, DailyMarks
  <2>5. OnceADay'
    BY <1>7, <1>a DEF SendReport, Persisted, OnceADay, RoundOfToday, Coming, DailyNumbers
  <2> QED  BY <2>1, <2>2, <2>3, <2>4, <2>5 DEF DailyInv
<1>8. CASE RoundRaises
  <2>1. DailyNumbers'
    BY <1>8, <1>a DEF RoundRaises, Persisted, DailyNumbers
  <2>2. DailySwitches'
    BY <1>8, <1>a DEF RoundRaises, Persisted, DailySwitches
  <2>3. DailyMarks'
    BY <1>8, <1>a DEF RoundRaises, Persisted, DailyMarks
  <2>4. RoundOfToday'
    BY <1>8, <1>a DEF RoundRaises, Persisted, RoundOfToday, Coming, DailyNumbers, DailyMarks
  <2>5. OnceADay'
    BY <1>8, <1>a DEF RoundRaises, Persisted, OnceADay, RoundOfToday, Coming, DailyNumbers
  <2> QED  BY <2>1, <2>2, <2>3, <2>4, <2>5 DEF DailyInv
<1>9. CASE DailyRestart
  <2>1. DailyNumbers'
    BY <1>9, <1>a DEF DailyRestart, Persisted, DailyNumbers
  <2>2. DailySwitches'
    BY <1>9, <1>a DEF DailyRestart, Persisted, DailySwitches
  <2>3. DailyMarks'
    BY <1>9, <1>a DEF DailyRestart, Persisted, DailyMarks
  <2>4. RoundOfToday'
    BY <1>9, <1>a DEF DailyRestart, Persisted, RoundOfToday, Coming, DailyNumbers, DailyMarks
  <2>5. OnceADay'
    BY <1>9, <1>a DEF DailyRestart, Persisted, OnceADay, RoundOfToday, Coming, DailyNumbers
  <2> QED  BY <2>1, <2>2, <2>3, <2>4, <2>5 DEF DailyInv
<1>10. CASE SettingsGone
  <2>1. DailyNumbers'
    BY <1>10, <1>a DEF SettingsGone, Persisted, DailyNumbers
  <2>2. DailySwitches'
    BY <1>10, <1>a DEF SettingsGone, Persisted, DailySwitches
  <2>3. DailyMarks'
    BY <1>10, <1>a DEF SettingsGone, Persisted, DailyMarks
  <2>4. RoundOfToday'
    BY <1>10, <1>a DEF SettingsGone, Persisted, RoundOfToday, Coming, DailyNumbers, DailyMarks
  <2>5. OnceADay'
    BY <1>10, <1>a DEF SettingsGone, Persisted, OnceADay, RoundOfToday, Coming, DailyNumbers
  <2> QED  BY <2>1, <2>2, <2>3, <2>4, <2>5 DEF DailyInv
<1>11. CASE DailyTick
  <2>1. DailyNumbers'
    BY <1>11, <1>a DEF DailyTick, Persisted, DailyNumbers
  <2>2. DailySwitches'
    BY <1>11, <1>a DEF DailyTick, Persisted, DailySwitches
  <2>3. DailyMarks'
    BY <1>11, <1>a DEF DailyTick, Persisted, DailyMarks
  <2>4. RoundOfToday'
    BY <1>11, <1>a DEF DailyTick, Persisted, RoundOfToday, Coming, DailyNumbers, DailyMarks
  <2>5. OnceADay'
    BY <1>11, <1>a DEF DailyTick, Persisted, OnceADay, RoundOfToday, Coming, DailyNumbers
  <2> QED  BY <2>1, <2>2, <2>3, <2>4, <2>5 DEF DailyInv
<1>12. CASE UNCHANGED dailyVars
  <2>1. DailyNumbers'
    BY <1>12, <1>a DEF dailyVars, DailyNumbers
  <2>2. DailySwitches'
    BY <1>12, <1>a DEF dailyVars, DailySwitches
  <2>3. DailyMarks'
    BY <1>12, <1>a DEF dailyVars, DailyMarks
  <2>4. RoundOfToday'
    BY <1>12, <1>a DEF dailyVars, RoundOfToday, Coming, DailyNumbers, DailyMarks
  <2>5. OnceADay'
    BY <1>12, <1>a DEF dailyVars, OnceADay, RoundOfToday, Coming, DailyNumbers
  <2> QED  BY <2>1, <2>2, <2>3, <2>4, <2>5 DEF DailyInv
<1> QED  BY <1>1, <1>2, <1>3, <1>4, <1>5, <1>6, <1>7, <1>8, <1>9, <1>10, <1>11, <1>12 DEF DailyNext

LEMMA DailyCorrect == DailyInit /\ [][DailyNext]_dailyVars => []DailyInv
<1>1. DailyInit => DailyInv
  <2> SUFFICES ASSUME DailyInit PROVE DailyInv
    OBVIOUS
  <2> USE DailyAssumption DEF DailyInit, NoPosts, Never, Kind
  <2>1. DailyNumbers
    BY DEF DailyNumbers
  <2>2. DailySwitches /\ DailyMarks
    BY DEF DailySwitches, DailyMarks
  <2>3. RoundOfToday /\ OnceADay
    BY DEF RoundOfToday, OnceADay, Coming
  <2> QED  BY <2>1, <2>2, <2>3 DEF DailyInv
<1> QED  BY <1>1, DailyStep, PTL

LEMMA DailyTypesHold == DailyInv => DailyTypeOK
  BY DEF DailyInv, DailyNumbers, DailySwitches, DailyMarks, DailyTypeOK


-----------------------------------------------------------------------------
(* Counters                                                                *)

ThreadRecord == [at : {"idle", "write", "open", "day"}, file : File]
ReportRecord == [at : {"idle", "mark", "write", "open"}, file : File, delta : Nat, mark : Nat]

CountersTypes ==
  /\ total \in Nat /\ snap \in Nat /\ saved \in File \cup {TornFile} /\ byDay \in Nat
  /\ lock \in Worker \cup {Nobody}
  /\ worker \in [Worker -> ThreadRecord] /\ report \in ReportRecord
  /\ counted \in Nat /\ told \in Nat /\ gap \in Int
  /\ countReports \in 0..MaxReport /\ countStops \in 0..MaxCountStop

(* No snapshot, in memory, in the file or in the hands of a thread, is      *)
(* ahead of the total it was taken of, and the numbers of a report are      *)
(* those between the two.                                                   *)
MarksBehind ==
  /\ snap <= total /\ saved.snap <= saved.total /\ saved.total <= total
  /\ \A w \in Worker : worker[w].at \in {"write", "open"} => worker[w].file.snap <= total
  /\ report.at # "idle" => report.mark <= total
  /\ report.at = "mark" => snap <= report.mark /\ report.delta = report.mark - snap

CountersInv == CountersTypes /\ MarksBehind /\ ToldOnce

LEMMA CountersStep == CountersInv /\ [CountersNext]_countVars => CountersInv'
<1> SUFFICES ASSUME CountersInv, [CountersNext]_countVars PROVE CountersInv'
  OBVIOUS
<1>a. CountersTypes /\ MarksBehind /\ ToldOnce
  BY DEF CountersInv
<1> USE CountersAssumption DEF NoWorker, NoReport, ZeroFile, TornFile, Nobody, File
<1>1. ASSUME NEW w \in Worker, Count(w)
      PROVE  CountersInv'
  <2>1. CountersTypes'
    BY <1>1, <1>a DEF Count, ReadFile, CountersTypes, ThreadRecord, ReportRecord
  <2>2. MarksBehind'
    BY <1>1, <1>a DEF Count, ReadFile, MarksBehind, CountersTypes, ThreadRecord, ReportRecord
  <2>3. ToldOnce'
    BY <1>1, <1>a DEF Count, ReadFile, ToldOnce, CountersTypes, MarksBehind, ReportRecord
  <2> QED  BY <2>1, <2>2, <2>3 DEF CountersInv
<1>2. ASSUME NEW w \in Worker, OpenTotal(w)
      PROVE  CountersInv'
  <2>1. CountersTypes'
    BY <1>2, <1>a DEF OpenTotal, CountersTypes, ThreadRecord, ReportRecord
  <2>2. MarksBehind'
    BY <1>2, <1>a DEF OpenTotal, MarksBehind, CountersTypes, ThreadRecord, ReportRecord
  <2>3. ToldOnce'
    BY <1>2, <1>a DEF OpenTotal, ToldOnce, CountersTypes, MarksBehind, ReportRecord
  <2> QED  BY <2>1, <2>2, <2>3 DEF CountersInv
<1>3. ASSUME NEW w \in Worker, WriteTotal(w)
      PROVE  CountersInv'
  <2>1. CountersTypes'
    BY <1>3, <1>a DEF WriteTotal, CountersTypes, ThreadRecord, ReportRecord
  <2>2. MarksBehind'
    BY <1>3, <1>a DEF WriteTotal, MarksBehind, CountersTypes, ThreadRecord, ReportRecord
  <2>3. ToldOnce'
    BY <1>3, <1>a DEF WriteTotal, ToldOnce, CountersTypes, MarksBehind, ReportRecord
  <2> QED  BY <2>1, <2>2, <2>3 DEF CountersInv
<1>4. ASSUME NEW w \in Worker, CountDay(w)
      PROVE  CountersInv'
  <2>1. CountersTypes'
    BY <1>4, <1>a DEF CountDay, CountersTypes, ThreadRecord, ReportRecord
  <2>2. MarksBehind'
    BY <1>4, <1>a DEF CountDay, MarksBehind, CountersTypes, ThreadRecord, ReportRecord
  <2>3. ToldOnce'
    BY <1>4, <1>a DEF CountDay, ToldOnce, CountersTypes, MarksBehind, ReportRecord
  <2> QED  BY <2>1, <2>2, <2>3 DEF CountersInv
<1>5. CASE TakeNumbers
  <2>1. CountersTypes'
    BY <1>5, <1>a DEF TakeNumbers, CountersTypes, ThreadRecord, ReportRecord
  <2>2. MarksBehind'
    BY <1>5, <1>a DEF TakeNumbers, MarksBehind, CountersTypes, ThreadRecord, ReportRecord
  <2>3. ToldOnce'
    BY <1>5, <1>a DEF TakeNumbers, ToldOnce, CountersTypes, MarksBehind, ReportRecord
  <2> QED  BY <2>1, <2>2, <2>3 DEF CountersInv
<1>6. CASE SetMark
  <2>1. CountersTypes'
    <3>1. ReadFile \in File
      BY <1>a DEF ReadFile, CountersTypes
    <3>2. [report EXCEPT !.at = "write", !.file = ReadFile] \in ReportRecord
      BY <3>1, <1>a DEF CountersTypes, ReportRecord
    <3>3. report.mark \in Nat /\ told + report.delta \in Nat
      BY <1>a DEF CountersTypes, ReportRecord
    <3> QED  BY <1>6, <1>a, <3>2, <3>3 DEF SetMark, NewMark, CountersTypes
  <2>2. MarksBehind'
    BY <1>6, <1>a DEF SetMark, NewMark, ReadFile, MarksBehind, CountersTypes, ThreadRecord, ReportRecord
  <2>3. ToldOnce'
    BY <1>6, <1>a DEF SetMark, NewMark, ReadFile, ToldOnce, CountersTypes, MarksBehind, ReportRecord
  <2> QED  BY <2>1, <2>2, <2>3 DEF CountersInv
<1>7. CASE OpenSnapshot
  <2>1. CountersTypes'
    BY <1>7, <1>a DEF OpenSnapshot, CountersTypes, ThreadRecord, ReportRecord
  <2>2. MarksBehind'
    BY <1>7, <1>a DEF OpenSnapshot, MarksBehind, CountersTypes, ThreadRecord, ReportRecord
  <2>3. ToldOnce'
    BY <1>7, <1>a DEF OpenSnapshot, ToldOnce, CountersTypes, MarksBehind, ReportRecord
  <2> QED  BY <2>1, <2>2, <2>3 DEF CountersInv
<1>8. CASE WriteSnapshot
  <2>1. CountersTypes'
    BY <1>8, <1>a DEF WriteSnapshot, CountersTypes, ThreadRecord, ReportRecord
  <2>2. MarksBehind'
    BY <1>8, <1>a DEF WriteSnapshot, MarksBehind, CountersTypes, ThreadRecord, ReportRecord
  <2>3. ToldOnce'
    BY <1>8, <1>a DEF WriteSnapshot, ToldOnce, CountersTypes, MarksBehind, ReportRecord
  <2> QED  BY <2>1, <2>2, <2>3 DEF CountersInv
<1>9. CASE CountersRestart
  <2>1. CountersTypes'
    BY <1>9, <1>a DEF CountersRestart, ReadFile, CountersTypes, ThreadRecord, ReportRecord
  <2>2. MarksBehind'
    BY <1>9, <1>a DEF CountersRestart, ReadFile, MarksBehind, CountersTypes, ThreadRecord, ReportRecord
  <2>3. ToldOnce'
    BY <1>9, <1>a DEF CountersRestart, ReadFile, ToldOnce, CountersTypes, MarksBehind, ReportRecord
  <2> QED  BY <2>1, <2>2, <2>3 DEF CountersInv
<1>10. CASE UNCHANGED countVars
  <2>1. CountersTypes'
    BY <1>10, <1>a DEF countVars, CountersTypes, ThreadRecord, ReportRecord
  <2>2. MarksBehind'
    BY <1>10, <1>a DEF countVars, MarksBehind, CountersTypes, ThreadRecord, ReportRecord
  <2>3. ToldOnce'
    BY <1>10, <1>a DEF countVars, ToldOnce, CountersTypes, MarksBehind, ReportRecord
  <2> QED  BY <2>1, <2>2, <2>3 DEF CountersInv
<1> QED  BY <1>1, <1>2, <1>3, <1>4, <1>5, <1>6, <1>7, <1>8, <1>9, <1>10 DEF CountersNext

LEMMA CountersCorrect == CountersInit /\ [][CountersNext]_countVars => []CountersInv
<1>1. CountersInit => CountersInv
  BY CountersAssumption DEF CountersInit, CountersInv, CountersTypes, MarksBehind, ToldOnce, ThreadRecord, ReportRecord,
     NoWorker, NoReport, ZeroFile, TornFile, Nobody, File
<1> QED  BY <1>1, CountersStep, PTL

LEMMA CountersTypesHold == CountersInv => CountersTypeOK
  BY DEF CountersInv, CountersTypes, CountersTypeOK, ThreadRecord, ReportRecord


-----------------------------------------------------------------------------
(* The whole                                                               *)

(* Each part runs as if it were alone: the step of one leaves the variables *)
(* of the others as they are.                                              *)
LEMMA PartsOfSetUp ==
  Spec => /\ IdentityInit /\ [][IdentityNext]_identityVars
          /\ MailboxInit /\ [][MailboxNext]_mailboxVars
          /\ KeysInit /\ [][KeysNext]_keyVars
          /\ TemplateInit /\ [][TemplateNext]_templateVars
          /\ UpdateInit /\ [][UpdateNext]_updateVars
<1>1. Init => IdentityInit /\ MailboxInit /\ KeysInit /\ TemplateInit /\ UpdateInit
  BY DEF Init
<1>2. [Next]_mcVars =>
        /\ [IdentityNext]_identityVars /\ [MailboxNext]_mailboxVars /\ [KeysNext]_keyVars
        /\ [TemplateNext]_templateVars /\ [UpdateNext]_updateVars
  BY DEF Next, SetUp, Duties, setupVars, mcVars
<1> QED  BY <1>1, <1>2, PTL DEF Spec

LEMMA PartsOfDuties ==
  Spec => /\ AccountInit /\ [][AccountNext]_accountVars
          /\ HealthInit /\ [][HealthNext]_healthVars
          /\ DailyInit /\ [][DailyNext]_dailyVars
          /\ CountersInit /\ [][CountersNext]_countVars
          /\ BuilderInit /\ [][BuilderNext]_builderVars
<1>1. Init => AccountInit /\ BuilderInit /\ HealthInit /\ DailyInit /\ CountersInit
  BY DEF Init
<1>2. [Next]_mcVars =>
        /\ [AccountNext]_accountVars /\ [BuilderNext]_builderVars /\ [HealthNext]_healthVars
        /\ [DailyNext]_dailyVars /\ [CountersNext]_countVars
  BY DEF Next, SetUp, Duties, dutyVars, mcVars
<1> QED  BY <1>1, <1>2, PTL DEF Spec

(* Type correctness of the ten parts.                                      *)
THEOREM TenantTypes == Spec => []TypesOK
<1>1. Spec => [](IdentityTypeOK /\ MailboxTypeOK /\ KeysTypeOK /\ TemplateTypeOK /\ UpdateTypeOK)
  <2>1. KeysInv => KeysTypeOK
    BY DEF KeysInv
  <2> QED  BY <2>1, PartsOfSetUp, IdentityCorrect, IdentityFromInv, MailCorrect, MailTypesHold, KeysCorrect,
              TemplateCorrect, UpdateTypesHold, PTL
<1>2. Spec => [](AccountTypeOK /\ BuilderTypeOK /\ HealthTypeOK /\ DailyTypeOK /\ CountersTypeOK)
  BY PartsOfDuties, AccountTypesHold, BuilderCorrect, HealthCorrect, HealthTypesHold, DailyCorrect,
     DailyTypesHold, CountersCorrect, CountersTypesHold, PTL
<1> QED  BY <1>1, <1>2, PTL DEF TypesOK

(* Graph can be reached with what the gateway has in hand, through every   *)
(* rotation of a certificate, however often it is restarted in the middle  *)
(* and whichever call of it fails (setup_wizard.py).                       *)
THEOREM GraphReached == Spec => []GraphStaysReachable
BY PartsOfSetUp, IdentityCorrect, IdentityFromInv, PTL

(* S/MIME is switched on for an address only as often as it was ordered,   *)
(* where the mailbox was saved by the list Exchange gives and no two saves *)
(* met (webui/routen/mailboxes.py).                                        *)
THEOREM OrderedOnly == Spec => []OnlySwitchedOnOrders
BY PartsOfSetUp, MailCorrect, OrdersFromInv, PTL

(* When every save is through and none failed, met another or was outrun   *)
(* by a new address, the rules of the mail flow are what was saved; and a  *)
(* choice an owner made for himself outlives the saves.                    *)
THEOREM SaveHolds == Spec => []SavedHolds
BY PartsOfSetUp, MailCorrect, RoutesFromInv, ChoicesFromInv, PTL DEF SavedHolds

(* No private key is lost on its way to the vault, wherever the migration  *)
(* stops and whatever is stored meanwhile (own_keys.py).                   *)
THEOREM KeysKept == Spec => []NoKeyLost
<1>1. KeysInv => NoKeyLost
  BY DEF KeysInv
<1> QED  BY <1>1, PartsOfSetUp, KeysCorrect, PTL

(* The upkeep of a start leaves what a mail carries in each slot as it was, *)
(* and a rename that came to its end does, except in the banner of a        *)
(* running campaign, which it forgets (vorlagen.py, vorlagen_typ.py).       *)
THEOREM UpkeepIsUnseen == Spec => UpkeepUnseen
BY PartsOfSetUp, TemplateCorrect, PTL

(* A status "running" always has a script behind it that will end it, even *)
(* when script and host stop at any step, so administrators are never      *)
(* refused for good; and a success shown is the version that runs.         *)
THEOREM OrdersAlwaysComeThrough == Spec => []OrdersComeThrough
BY PartsOfSetUp, UpdateCorrect, PTL

(* However the documents change while a page is open, whatever is lost on  *)
(* the way to the hub: an order that costs money goes out only after the   *)
(* edition then current was shown to an administrator.                     *)
THEOREM OrdersRestOnReading == Spec => []OrdersWereRead
BY PartsOfDuties, AccountCorrect, PTL

(* Where a mailbox is shown green, Exchange confirmed its membership in    *)
(* the hour the entry names, or would not add it in words that speak of a  *)
(* member, and its key had signed not long before; however the rounds      *)
(* overlap and whichever copy of the table is stored last                  *)
(* (health_check.py).                                                      *)
THEOREM GreenEarned == Spec => []GreenIsEarned
BY PartsOfDuties, HealthCorrect, GreenFromInv, PTL

(* The mails of the day go out once, whatever restarts; and what they tell *)
(* of is counted in one of them, whatever is counted meanwhile.            *)
THEOREM Reported == Spec => []ReportedOnce
<1>1. DailyInv => OnceADay
  BY DEF DailyInv
<1>2. CountersInv => ToldOnce
  BY DEF CountersInv
<1> QED  BY <1>1, <1>2, PartsOfDuties, DailyCorrect, CountersCorrect, PTL DEF ReportedOnce
===============================================================================
