-------------------------- MODULE AppIdentity_proofs --------------------------
(***************************************************************************)
(* The identity of the gateway in the tenant: with what it has in hand it  *)
(* reaches Graph, for every number of apps, certificates, restarts and     *)
(* failing calls.                                                          *)
(***************************************************************************)
EXTENDS AppIdentity, FiniteSetTheorems, SequenceTheorems, WellFoundedInduction, TLAPS

(* A set of numbers that is not empty has a least one.                     *)
LEMMA Least ==
  ASSUME NEW S \in SUBSET Nat, S # {}
  PROVE  \E m \in S : \A k \in S : m <= k
<1>1. \E m \in S : \A k \in S : <<k, m>> \notin OpToRel(<, Nat)
  BY WFMin, NatLessThanWellFounded, Zenon
<1>2. \E m \in S : \A k \in S : ~(k < m)
  BY <1>1, Zenon DEF OpToRel
<1> QED  BY <1>2

USE IdentityAssumption

TaskRecord ==
  [at : {"idle", "create", "adopt", "upload", "pool", "write", "prove", "remove",
         "pool_look", "pool_upload", "append"},
   app : 0..MaxApp, cert : 0..MaxCert, todo : Seq(App)]

IdentityTables ==
  /\ registered \in [App -> 0..MaxCert] /\ accepted \in [App -> 0..MaxCert]
  /\ secretsAt \in [App -> SUBSET Secret] /\ task \in [Task -> TaskRecord]
IdentityNumbers ==
  /\ pfx \in 0..MaxCert /\ certs \in 0..MaxCert /\ pfx <= certs /\ clientId \in 0..MaxApp
  /\ setupFaults \in Nat /\ setupStops \in Nat
IdentitySets == pool \in Seq(App) /\ stored \subseteq App /\ bridged \subseteq stored
IdentityFlags == rotationsCrossed \in BOOLEAN /\ halfway \in BOOLEAN

(* An app is called by its place in the pool.                              *)
IdentityNames ==
  /\ called \in [App -> 0..(MaxApp + 1)]
  /\ \A i \in 1..Len(pool) : called[pool[i]] = i + 1
  /\ \A t \in Task : task[t].at \in {"pool_look", "pool_upload", "append"} =>
        \A i \in 1..Len(task[t].todo) : called[task[t].todo[i]] = i + 1
  /\ \A t \in Task : task[t].at \in {"pool_upload", "append"} =>
        called[task[t].app] = Len(task[t].todo) + 2

(* What a task has where it is.                                             *)
TaskReady == \A t \in Task :
  /\ task[t].at \in {"adopt", "upload", "pool", "write", "pool_upload", "append"} => task[t].app # 0
  /\ task[t].at \in {"pool", "prove", "remove"} => task[t].todo # <<>>
  /\ task[t].at \in {"upload", "pool", "write"} =>
       (clientId # 0 /\ task[t].cert <= certs)

Identified ==
  /\ IdentityTables /\ IdentityNumbers /\ IdentitySets /\ IdentityFlags
  /\ IdentityNames /\ TaskReady

(* The rest holds as long as nothing crossed and nothing ended halfway.     *)
Unharmed == ~rotationsCrossed /\ ~halfway
OneRotates == \A t, u \in Task : (Rotating(t) /\ Rotating(u)) => t = u

(* No certificate is spread that the gateway does not sign in with yet.     *)
Kept == \A t \in Task : task[t].at \notin {"pool", "write"}
Covered(a) == pfx # 0 /\ registered[a] = pfx
(* The app a setup has just taken over.                                     *)
TakenOver(a) == pool = <<>> /\ \E t \in Task : task[t].at = "upload" /\ task[t].app = a

(* Certificates are used in the order they were made.                       *)
AcceptedLater == \A a \in App : accepted[a] <= registered[a]
RegisteredLater == Kept => \A a \in App : registered[a] <= pfx
NewestUnderWay == \A t \in Task :
  /\ task[t].at \in {"upload", "pool", "write"} =>
       (pfx < task[t].cert /\ clientId = task[t].app)
  /\ task[t].at \in {"pool", "write"} => \A a \in App : registered[a] <= task[t].cert
(* The list and the certificate an app is added with are those of now.      *)
AddsToPool == \A t \in Task :
  /\ task[t].at \in {"pool_look", "pool_upload", "append"} =>
       (task[t].cert = pfx /\ pfx # 0 /\ task[t].todo = pool)
  /\ task[t].at = "append" => registered[task[t].app] = pfx
(* A rotation reaches every app that is in use.                             *)
Spreads == \A t \in Task : \A a \in InUse :
  /\ task[t].at = "write" => registered[a] = task[t].cert
  /\ task[t].at = "pool" =>
       (registered[a] = task[t].cert \/ a \in Elements(task[t].todo))
(* A secret in the settings is one of Entra.                                *)
SecretsWhole == \A a \in stored :
  \/ secretsAt[a] = Secret
  \/ \E u \in Task : task[u].at = "remove" /\ Head(task[u].todo) = a
(* Secrets go where the certificate covers the app, or is about to.         *)
ProvenFirst == Kept => \A u \in Task : \A a \in InUse :
  (task[u].at = "remove" /\ Head(task[u].todo) = a) => (Covered(a) \/ TakenOver(a))
InUseReach == Kept => \A a \in InUse : Covered(a) \/ a \in stored \/ TakenOver(a)

Reachable ==
  /\ OneRotates /\ AcceptedLater /\ RegisteredLater /\ NewestUnderWay /\ AddsToPool
  /\ Spreads /\ SecretsWhole /\ ProvenFirst /\ InUseReach

IdentityInv == Identified /\ (Unharmed => Reachable)

-----------------------------------------------------------------------------
(* Sequences of apps.                                                      *)
LEMMA ElementsOf ==
  ASSUME NEW s \in Seq(App)
  PROVE  /\ Elements(s) \subseteq App
         /\ s = <<>> => Elements(s) = {}
         /\ s # <<>> => /\ Head(s) \in App /\ Tail(s) \in Seq(App)
                        /\ Elements(s) = {Head(s)} \cup Elements(Tail(s))
<1>1. Elements(s) \subseteq App
  BY DEF Elements
<1>2. ASSUME s = <<>>  PROVE Elements(s) = {}
  BY <1>2 DEF Elements
<1>3. ASSUME s # <<>>
      PROVE  Head(s) \in App /\ Tail(s) \in Seq(App) /\ Elements(s) = {Head(s)} \cup Elements(Tail(s))
  <2>1. /\ Head(s) \in App /\ Tail(s) \in Seq(App) /\ Len(Tail(s)) = Len(s) - 1
        /\ \A i \in 1..Len(Tail(s)) : Tail(s)[i] = s[i + 1]
    BY <1>3, HeadTailProperties
  <2>2. Head(s) = s[1] /\ Len(s) \in Nat \ {0}
    BY <1>3
  <2>3. ASSUME NEW i \in 1..Len(s)  PROVE s[i] \in {Head(s)} \cup Elements(Tail(s))
    <3>1. CASE i = 1  BY <2>2, <3>1
    <3>2. CASE i # 1
      <4>1. i - 1 \in 1..Len(Tail(s)) /\ (i - 1) + 1 = i
        BY <3>2, <2>1, <2>2
      <4>2. Tail(s)[i - 1] = s[i]
        BY <4>1, <2>1
      <4> QED  BY <4>1, <4>2 DEF Elements
    <3> QED  BY <3>1, <3>2
  <2>4. ASSUME NEW x \in {Head(s)} \cup Elements(Tail(s))  PROVE x \in Elements(s)
    <3>1. CASE x = Head(s)
      BY <3>1, <2>2 DEF Elements
    <3>2. CASE x \in Elements(Tail(s))
      <4>1. PICK i \in 1..Len(Tail(s)) : x = Tail(s)[i]
        BY <3>2 DEF Elements
      <4>2. i + 1 \in 1..Len(s) /\ x = s[i + 1]
        BY <4>1, <2>1, <2>2
      <4> QED  BY <4>2 DEF Elements
    <3> QED  BY <2>4, <3>1, <3>2
  <2>5. Elements(s) \subseteq {Head(s)} \cup Elements(Tail(s))
    BY <2>3 DEF Elements
  <2> QED  BY <2>1, <2>4, <2>5
<1> QED  BY <1>1, <1>2, <1>3

LEMMA ElementsOfAppend ==
  ASSUME NEW s \in Seq(App), NEW a \in App
  PROVE  /\ Append(s, a) \in Seq(App) /\ Append(s, a) # <<>>
         /\ \A x \in Elements(Append(s, a)) : x = a \/ x \in Elements(s)
<1>1. /\ Append(s, a) \in Seq(App) /\ Append(s, a) # <<>> /\ Len(Append(s, a)) = Len(s) + 1
      /\ \A i \in 1..Len(s) : Append(s, a)[i] = s[i]
      /\ Append(s, a)[Len(s) + 1] = a
  BY AppendProperties
<1>2. ASSUME NEW x \in Elements(Append(s, a))  PROVE x = a \/ x \in Elements(s)
  <2>1. PICK i \in 1..Len(Append(s, a)) : x = Append(s, a)[i]
    BY DEF Elements
  <2>2. i \in 1..Len(s) \/ i = Len(s) + 1
    BY <1>1
  <2> QED  BY <1>1, <2>1, <2>2 DEF Elements
<1> QED  BY <1>1, <1>2

(* The registration a new app gets.                                         *)
LEMMA FreshIs ==
  ASSUME IdentityNames, CanRegister
  PROVE  FreshApp \in App /\ called[FreshApp] = 0
<1> DEFINE S == {a \in App : called[a] = 0}
<1>1. S \in SUBSET Nat /\ S # {}
  BY DEF CanRegister, App
<1>2. PICK m \in S : \A k \in S : m <= k
  BY <1>1, Least
<1>3. m \in App /\ called[m] = 0 /\ \A b \in App : called[b] = 0 => m <= b
  BY <1>2
<1> QED  BY <1>3 DEF FreshApp

(* There is an index for it: those of the pool are other apps.              *)
LEMMA IndexFits ==
  ASSUME NEW s \in Seq(App), NEW a \in App, called[a] = 0,
         \A i \in 1..Len(s) : called[s[i]] = i + 1
  PROVE  Len(s) + 2 <= MaxApp + 1
<1> DEFINE n == Len(s) + 1
           f == [i \in 1..n |-> IF i = n THEN a ELSE s[i]]
<1>1. n \in Nat /\ n >= 1
  OBVIOUS
<1>2. f \in [1..n -> App]
  OBVIOUS
<1>3. \A i \in 1..n : called[f[i]] = IF i = n THEN 0 ELSE i + 1
  OBVIOUS
<1>4. \A i, j \in 1..n : f[i] = f[j] => i = j
  <2> SUFFICES ASSUME NEW i \in 1..n, NEW j \in 1..n, f[i] = f[j]  PROVE i = j
    OBVIOUS
  <2>1. (IF i = n THEN 0 ELSE i + 1) = (IF j = n THEN 0 ELSE j + 1)
    BY <1>3
  <2> QED  BY <1>1, <2>1
<1>5. f \in Injection(1..n, App)
  <2> HIDE DEF f
  <2> QED  BY <1>2, <1>4 DEF Injection, IsInjective
<1>6. /\ IsFiniteSet(App) /\ Cardinality(App) = MaxApp
      /\ Cardinality(1..n) = n
  <2> HIDE DEF n
  <2> QED  BY <1>1, FS_Interval DEF App
<1>7. Cardinality(1..n) <= Cardinality(App)
  <2> HIDE DEF f, n
  <2> QED  BY <1>5, <1>6, FS_Injection
<1> QED  BY <1>6, <1>7

-----------------------------------------------------------------------------
(* One task moves.                                                          *)
Moves(t) == task' \in [Task -> TaskRecord] /\ \A u \in Task \ {t} : task'[u] = task[u]

(* The values of the tables.                                                *)
Ranges ==
  /\ \A a \in App : registered[a] \in Nat /\ accepted[a] \in Nat
  /\ \A u \in Task : task[u].cert \in Nat /\ task[u].todo \in Seq(App)
  /\ pfx \in Nat /\ certs \in Nat /\ pfx <= certs

LEMMA RangesHold ==
  ASSUME IdentityTables, IdentityNumbers
  PROVE  Ranges
<1>1. \A a \in App : registered[a] \in Nat /\ accepted[a] \in Nat
  BY DEF IdentityTables
<1>2. \A u \in Task : task[u].cert \in Nat /\ task[u].todo \in Seq(App)
  BY DEF IdentityTables, TaskRecord
<1>3. pfx \in Nat /\ certs \in Nat /\ pfx <= certs
  BY DEF IdentityNumbers
<1> QED  BY <1>1, <1>2, <1>3 DEF Ranges

LEMMA MovesTo ==
  ASSUME IdentityTables, NEW t \in Task, NEW r \in TaskRecord, task' = [task EXCEPT ![t] = r]
  PROVE  Moves(t) /\ task'[t] = r
BY DEF IdentityTables, Moves

(* The names hold where a task that adds no app moves.                      *)
LEMMA NamesStay ==
  ASSUME IdentityNames, NEW t \in Task, Moves(t),
         task'[t].at \notin {"pool_look", "pool_upload", "append"}, UNCHANGED <<called, pool>>
  PROVE  IdentityNames'
<1>1. \A i \in 1..Len(pool) : called[pool[i]] = i + 1
  BY DEF IdentityNames
<1>2. \A u \in Task : task'[u].at \in {"pool_look", "pool_upload", "append"} => task'[u] = task[u]
  BY DEF Moves
<1>3. \A u \in Task : task[u].at \in {"pool_look", "pool_upload", "append"} =>
        \A i \in 1..Len(task[u].todo) : called[task[u].todo[i]] = i + 1
  BY DEF IdentityNames
<1>4. \A u \in Task : task[u].at \in {"pool_upload", "append"} =>
        called[task[u].app] = Len(task[u].todo) + 2
  BY DEF IdentityNames
<1>5. called \in [App -> 0..(MaxApp + 1)]
  BY DEF IdentityNames
<1>6. \A i \in 1..Len(pool') : called'[pool'[i]] = i + 1
  BY <1>1
<1>7. ASSUME NEW u \in Task, task'[u].at \in {"pool_look", "pool_upload", "append"}
      PROVE  \A i \in 1..Len(task'[u].todo) : called'[task'[u].todo[i]] = i + 1
  BY <1>2, <1>3, <1>7
<1>8. ASSUME NEW u \in Task, task'[u].at \in {"pool_upload", "append"}
      PROVE  called'[task'[u].app] = Len(task'[u].todo) + 2
  BY <1>2, <1>4, <1>8
<1> QED  BY <1>5, <1>6, <1>7, <1>8 DEF IdentityNames

(* Whoever is reached stays reached where nothing is taken away from it.    *)
LEMMA ReachStays ==
  ASSUME ProvenFirst, InUseReach, Kept' => Kept, UNCHANGED <<pool, clientId>>,
         \A u \in Task : task'[u].at = "remove" =>
                          task[u].at = "remove" /\ Head(task'[u].todo) = Head(task[u].todo),
         \A a \in App : (Covered(a) \/ TakenOver(a)) => (Covered(a)' \/ TakenOver(a)'),
         \A a \in stored \ stored' : a \in InUse => (Kept => (Covered(a) \/ TakenOver(a))),
         InUse \subseteq App
  PROVE  ProvenFirst' /\ InUseReach'
<1>1. InUse' = InUse
  BY DEF InUse
<1> SUFFICES ASSUME Kept'  PROVE ProvenFirst' /\ InUseReach'
  BY DEF ProvenFirst, InUseReach
<1>2. Kept
  OBVIOUS
<1>3. ASSUME NEW u \in Task, NEW a \in InUse, task'[u].at = "remove", Head(task'[u].todo) = a
      PROVE  Covered(a)' \/ TakenOver(a)'
  <2>1. task[u].at = "remove" /\ Head(task[u].todo) = a
    BY <1>3
  <2>2. Covered(a) \/ TakenOver(a)
    BY <2>1, <1>2 DEF ProvenFirst
  <2> QED  BY <2>2
<1>4. ASSUME NEW a \in InUse  PROVE Covered(a)' \/ a \in stored' \/ TakenOver(a)'
  <2>1. Covered(a) \/ a \in stored \/ TakenOver(a)
    BY <1>2 DEF InUseReach
  <2> QED  BY <2>1, <1>2
<1>5. ProvenFirst'
  BY <1>1, <1>3 DEF ProvenFirst
<1>6. InUseReach'
  BY <1>1, <1>4 DEF InUseReach
<1> QED  BY <1>5, <1>6

LEMMA InUseIs ==
  ASSUME IdentityNumbers, IdentitySets
  PROVE  InUse \subseteq App
<1>1. Elements(pool) \subseteq App
  BY ElementsOf DEF IdentitySets
<1>2. {clientId} \ {0} \subseteq App
  BY DEF IdentityNumbers, App
<1> QED  BY <1>1, <1>2 DEF InUse

LEMMA IdleIs == Idle \in TaskRecord /\ Idle.at = "idle" /\ Idle.app = 0 /\ Idle.cert = 0 /\ Idle.todo = <<>>
<1>1. Idle \in TaskRecord
  BY DEF Idle, TaskRecord
<1> QED  BY <1>1 DEF Idle

(* The next app whose secrets go, or none.                                  *)
LEMMA NextIs ==
  ASSUME NEW r \in TaskRecord, r.todo # <<>>
  PROVE  /\ NextToProve(r) \in TaskRecord
         /\ NextToProve(r).at = "idle" \/ (NextToProve(r).at = "prove" /\ NextToProve(r).todo # <<>>)
<1>1. CASE Len(r.todo) <= 1
  <2>1. NextToProve(r) = Idle
    BY <1>1 DEF NextToProve
  <2> QED  BY <2>1, IdleIs
<1>2. CASE ~(Len(r.todo) <= 1)
  <2>1. r.todo \in Seq(App)
    BY DEF TaskRecord
  <2>2. Tail(r.todo) \in Seq(App) /\ Len(Tail(r.todo)) = Len(r.todo) - 1
    BY <2>1, HeadTailProperties
  <2>3. Tail(r.todo) # <<>>
    <3>1. Len(Tail(r.todo)) >= 1
      BY <2>1, <2>2, <1>2
    <3> QED  BY <3>1, <2>2
  <2>4. NextToProve(r) = [r EXCEPT !.at = "prove", !.todo = Tail(r.todo)]
    BY <1>2 DEF NextToProve
  <2> QED  BY <2>2, <2>3, <2>4 DEF TaskRecord
<1> QED  BY <1>1, <1>2

LEMMA LookForAppDoes ==
  ASSUME Identified, NEW t \in Task, LookForApp(t)
  PROVE  /\ task[t].at = "idle" /\ task'[t].at = "create"
         /\ Moves(t) /\ UNCHANGED <<called, registered, accepted, secretsAt, pfx, clientId, pool, stored, bridged, certs, setupFaults, setupStops, rotationsCrossed, halfway>>
<1>a. IdentityTables /\ IdentityNumbers /\ IdentitySets /\ IdentityFlags /\ IdentityNames /\ TaskReady
  BY DEF Identified
<1>1. task[t] = Idle
  BY DEF LookForApp
<1>2. PICK a \in IF Named(1) = {} THEN {0} ELSE Named(1) :
        task' = [task EXCEPT ![t] = [Idle EXCEPT !.at = "create", !.app = a]]
  BY DEF LookForApp
<1>3. a \in 0..MaxApp
  BY <1>2 DEF Named, App
<1>4. [Idle EXCEPT !.at = "create", !.app = a] \in TaskRecord
  BY <1>3, IdleIs DEF TaskRecord
<1>5. Moves(t) /\ task'[t] = [Idle EXCEPT !.at = "create", !.app = a]
  BY <1>2, <1>4, <1>a, MovesTo
<1>6. task[t].at = "idle" /\ task'[t].at = "create"
  BY <1>1, <1>3, <1>5, IdleIs DEF TaskRecord
<1> QED  BY <1>5, <1>6 DEF LookForApp, entra, gateway

LEMMA LookForAppKeeps ==
  ASSUME IdentityInv, NEW t \in Task, LookForApp(t)
  PROVE  IdentityInv'
<1>0. /\ task[t].at = "idle" /\ task'[t].at = "create"
      /\ Moves(t) /\ UNCHANGED <<called, registered, accepted, secretsAt, pfx, clientId, pool, stored, bridged, certs, setupFaults, setupStops, rotationsCrossed, halfway>>
  BY LookForAppDoes DEF IdentityInv
<1>a. /\ IdentityTables /\ IdentityNumbers /\ IdentitySets /\ IdentityFlags
      /\ IdentityNames /\ TaskReady
  BY DEF IdentityInv, Identified
<1>1. IdentityTables'
  BY <1>0, <1>a DEF IdentityTables, Moves
<1>2. IdentityNumbers'
  BY <1>0, <1>a DEF IdentityNumbers, TaskReady, IdentityTables, TaskRecord
<1>3. IdentitySets'
  BY <1>0, <1>a DEF IdentitySets
<1>4. IdentityFlags'
  BY <1>0, <1>a DEF IdentityFlags
<1>5. IdentityNames'
  BY <1>0, <1>a, NamesStay
<1>6. TaskReady'
  BY <1>0, <1>a DEF TaskReady, IdentityNumbers, Moves
<1>7. ASSUME Unharmed'  PROVE Reachable'
  <2>0. Unharmed
    BY <1>0, <1>7 DEF Unharmed
  <2>a. /\ OneRotates /\ AcceptedLater /\ RegisteredLater /\ NewestUnderWay /\ AddsToPool
        /\ Spreads /\ SecretsWhole /\ ProvenFirst /\ InUseReach
    BY <2>0 DEF IdentityInv, Reachable
  <2>b. Ranges
    BY <1>a, RangesHold
  <2>1. OneRotates'
    BY <1>0, <2>a, <2>b DEF Ranges, Moves, OneRotates, Rotating
  <2>2. AcceptedLater'
    BY <1>0, <2>a, <2>b DEF Ranges, Moves, AcceptedLater
  <2>3. RegisteredLater'
    BY <1>0, <2>a, <2>b DEF Ranges, Moves, RegisteredLater, Kept
  <2>4. NewestUnderWay'
    BY <1>0, <2>a, <2>b DEF Ranges, Moves, NewestUnderWay, OneRotates, Rotating
  <2>5. AddsToPool'
    BY <1>0, <2>a, <2>b DEF Ranges, Moves, AddsToPool, OneRotates, Rotating
  <2>6. Spreads'
    BY <1>0, <2>a, <2>b DEF Ranges, Moves, Spreads, InUse, OneRotates, Rotating
  <2>7. SecretsWhole'
    BY <1>0, <2>a, <2>b DEF Ranges, Moves, SecretsWhole
  <2>r. ProvenFirst' /\ InUseReach'
    <3>1. Kept' => Kept
      BY <1>0 DEF Kept, Moves
    <3>2. \A u \in Task : task'[u].at = "remove" =>
                            task[u].at = "remove" /\ Head(task'[u].todo) = Head(task[u].todo)
      BY <1>0 DEF Moves
    <3>3. ASSUME NEW a \in App, Covered(a) \/ TakenOver(a)  PROVE Covered(a)' \/ TakenOver(a)'
      <4>1. CASE Covered(a)
        BY <4>1, <1>0, <2>a, <2>b DEF Covered, AddsToPool, Ranges
      <4>2. CASE TakenOver(a)
        BY <4>2, <1>0, <2>a DEF Covered, TakenOver, Moves
      <4> QED  BY <3>3, <4>1, <4>2
    <3>4. \A a \in stored \ stored' : a \in InUse => (Kept => (Covered(a) \/ TakenOver(a)))
      BY <1>0, <2>a DEF ProvenFirst
    <3>5. InUse \subseteq App
      BY <1>a, InUseIs
    <3> QED  BY <1>0, <2>a, <3>1, <3>2, <3>3, <3>4, <3>5, ReachStays
  <2>8. ProvenFirst'
    BY <2>r
  <2>9. InUseReach'
    BY <2>r
  <2> QED  BY <2>1, <2>2, <2>3, <2>4, <2>5, <2>6, <2>7, <2>8, <2>9 DEF Reachable
<1> QED  BY <1>1, <1>2, <1>3, <1>4, <1>5, <1>6, <1>7 DEF IdentityInv, Identified

LEMMA CreateAppDoes ==
  ASSUME Identified, NEW t \in Task, CreateApp(t)
  PROVE  /\ task[t].at = "create" /\ task'[t].at = "adopt"
         /\ task'[t].app # 0
         /\ Moves(t) /\ UNCHANGED <<registered, accepted, secretsAt, pfx, clientId, pool, stored, bridged, certs, setupFaults, setupStops, rotationsCrossed, halfway>>
         /\ called' \in [App -> 0..(MaxApp + 1)] /\ \A a \in App : called[a] # 0 => called'[a] = called[a]
<1>a. IdentityTables /\ IdentityNumbers /\ IdentitySets /\ IdentityFlags /\ IdentityNames /\ TaskReady
  BY DEF Identified
<1>1. task[t] \in TaskRecord /\ task[t].at = "create"
  BY <1>a DEF CreateApp, IdentityTables
<1>2. CASE task[t].app # 0 /\ task' = To(t, "adopt") /\ UNCHANGED called
  <2>1. [task[t] EXCEPT !.at = "adopt"] \in TaskRecord
    BY <1>1 DEF TaskRecord
  <2>2. task' = [task EXCEPT ![t] = [task[t] EXCEPT !.at = "adopt"]]
    BY <1>2 DEF To
  <2>3. Moves(t) /\ task'[t] = [task[t] EXCEPT !.at = "adopt"]
    BY <2>1, <2>2, <1>a, MovesTo
  <2>4. task'[t].at = "adopt" /\ task'[t].app # 0
    BY <1>1, <1>2, <2>3 DEF TaskRecord
  <2> QED  BY <1>1, <1>2, <1>a, <2>3, <2>4 DEF CreateApp, gateway, IdentityNames
<1>3. CASE /\ task[t].app = 0 /\ CanRegister
           /\ called' = [called EXCEPT ![FreshApp] = 1]
           /\ task' = [task EXCEPT ![t] = [@ EXCEPT !.at = "adopt", !.app = FreshApp]]
  <2>0. FreshApp \in App /\ called[FreshApp] = 0 /\ FreshApp \in 0..MaxApp /\ FreshApp # 0
    BY <1>3, <1>a, FreshIs DEF App
  <2>1. [task[t] EXCEPT !.at = "adopt", !.app = FreshApp] \in TaskRecord
    BY <1>1, <2>0 DEF TaskRecord
  <2>2. task' = [task EXCEPT ![t] = [task[t] EXCEPT !.at = "adopt", !.app = FreshApp]]
    BY <1>3
  <2>3. Moves(t) /\ task'[t] = [task[t] EXCEPT !.at = "adopt", !.app = FreshApp]
    BY <2>1, <2>2, <1>a, MovesTo
  <2>4. task'[t].at = "adopt" /\ task'[t].app # 0
    BY <1>1, <2>0, <2>3 DEF TaskRecord
  <2>5. called' \in [App -> 0..(MaxApp + 1)] /\ \A a \in App : called[a] # 0 => called'[a] = called[a]
    BY <1>3, <1>a, <2>0 DEF IdentityNames
  <2> QED  BY <1>1, <2>3, <2>4, <2>5 DEF CreateApp, gateway
<1> QED  BY <1>2, <1>3 DEF CreateApp

LEMMA CreateAppKeeps ==
  ASSUME IdentityInv, NEW t \in Task, CreateApp(t)
  PROVE  IdentityInv'
<1>0. /\ task[t].at = "create" /\ task'[t].at = "adopt"
      /\ task'[t].app # 0
      /\ Moves(t) /\ UNCHANGED <<registered, accepted, secretsAt, pfx, clientId, pool, stored, bridged, certs, setupFaults, setupStops, rotationsCrossed, halfway>>
      /\ called' \in [App -> 0..(MaxApp + 1)] /\ \A a \in App : called[a] # 0 => called'[a] = called[a]
  BY CreateAppDoes DEF IdentityInv
<1>a. /\ IdentityTables /\ IdentityNumbers /\ IdentitySets /\ IdentityFlags
      /\ IdentityNames /\ TaskReady
  BY DEF IdentityInv, Identified
<1>1. IdentityTables'
  BY <1>0, <1>a DEF IdentityTables, Moves
<1>2. IdentityNumbers'
  BY <1>0, <1>a DEF IdentityNumbers, TaskReady, IdentityTables, TaskRecord
<1>3. IdentitySets'
  BY <1>0, <1>a DEF IdentitySets
<1>4. IdentityFlags'
  BY <1>0, <1>a DEF IdentityFlags
<1>5. IdentityNames'
  <2>1. ASSUME NEW s \in Seq(App), \A i \in 1..Len(s) : called[s[i]] = i + 1
        PROVE  \A i \in 1..Len(s) : called'[s[i]] = i + 1
    <3> SUFFICES ASSUME NEW i \in 1..Len(s)  PROVE called'[s[i]] = i + 1
      OBVIOUS
    <3>1. s[i] \in App /\ called[s[i]] = i + 1 /\ i + 1 # 0
      BY <2>1
    <3> QED  BY <3>1, <1>0
  <2>2. \A i \in 1..Len(pool) : called'[pool[i]] = i + 1
    BY <2>1, <1>a DEF IdentityNames, IdentitySets
  <2>3. ASSUME NEW u \in Task, task'[u].at \in {"pool_look", "pool_upload", "append"}
        PROVE  /\ u # t /\ task'[u] = task[u]
               /\ \A i \in 1..Len(task[u].todo) : called'[task[u].todo[i]] = i + 1
    <3>1. u # t /\ task'[u] = task[u] /\ task[u].todo \in Seq(App)
      BY <2>3, <1>0, <1>a DEF Moves, IdentityTables, TaskRecord
    <3> QED  BY <2>1, <2>3, <3>1, <1>a DEF IdentityNames
  <2>4. ASSUME NEW u \in Task, task'[u].at \in {"pool_upload", "append"}
        PROVE  called'[task'[u].app] = Len(task'[u].todo) + 2
    <3>1. /\ task'[u] = task[u] /\ task[u] \in TaskRecord /\ task[u].app # 0
          /\ called[task[u].app] = Len(task[u].todo) + 2
      BY <2>3, <2>4, <1>a DEF IdentityNames, IdentityTables, TaskReady
    <3>2. task[u].app \in App /\ called[task[u].app] # 0
      BY <3>1 DEF TaskRecord, App
    <3> QED  BY <1>0, <3>1, <3>2
  <2> QED  BY <1>0, <2>2, <2>3, <2>4 DEF IdentityNames
<1>6. TaskReady'
  BY <1>0, <1>a DEF TaskReady, IdentityNumbers, Moves
<1>7. ASSUME Unharmed'  PROVE Reachable'
  <2>0. Unharmed
    BY <1>0, <1>7 DEF Unharmed
  <2>a. /\ OneRotates /\ AcceptedLater /\ RegisteredLater /\ NewestUnderWay /\ AddsToPool
        /\ Spreads /\ SecretsWhole /\ ProvenFirst /\ InUseReach
    BY <2>0 DEF IdentityInv, Reachable
  <2>b. Ranges
    BY <1>a, RangesHold
  <2>1. OneRotates'
    BY <1>0, <2>a, <2>b DEF Ranges, Moves, OneRotates, Rotating
  <2>2. AcceptedLater'
    BY <1>0, <2>a, <2>b DEF Ranges, Moves, AcceptedLater
  <2>3. RegisteredLater'
    BY <1>0, <2>a, <2>b DEF Ranges, Moves, RegisteredLater, Kept
  <2>4. NewestUnderWay'
    BY <1>0, <2>a, <2>b DEF Ranges, Moves, NewestUnderWay, OneRotates, Rotating
  <2>5. AddsToPool'
    BY <1>0, <2>a, <2>b DEF Ranges, Moves, AddsToPool, OneRotates, Rotating
  <2>6. Spreads'
    BY <1>0, <2>a, <2>b DEF Ranges, Moves, Spreads, InUse, OneRotates, Rotating
  <2>7. SecretsWhole'
    BY <1>0, <2>a, <2>b DEF Ranges, Moves, SecretsWhole
  <2>r. ProvenFirst' /\ InUseReach'
    <3>1. Kept' => Kept
      BY <1>0 DEF Kept, Moves
    <3>2. \A u \in Task : task'[u].at = "remove" =>
                            task[u].at = "remove" /\ Head(task'[u].todo) = Head(task[u].todo)
      BY <1>0 DEF Moves
    <3>3. ASSUME NEW a \in App, Covered(a) \/ TakenOver(a)  PROVE Covered(a)' \/ TakenOver(a)'
      <4>1. CASE Covered(a)
        BY <4>1, <1>0, <2>a, <2>b DEF Covered, AddsToPool, Ranges
      <4>2. CASE TakenOver(a)
        BY <4>2, <1>0, <2>a DEF Covered, TakenOver, Moves
      <4> QED  BY <3>3, <4>1, <4>2
    <3>4. \A a \in stored \ stored' : a \in InUse => (Kept => (Covered(a) \/ TakenOver(a)))
      BY <1>0, <2>a DEF ProvenFirst
    <3>5. InUse \subseteq App
      BY <1>a, InUseIs
    <3> QED  BY <1>0, <2>a, <3>1, <3>2, <3>3, <3>4, <3>5, ReachStays
  <2>8. ProvenFirst'
    BY <2>r
  <2>9. InUseReach'
    BY <2>r
  <2> QED  BY <2>1, <2>2, <2>3, <2>4, <2>5, <2>6, <2>7, <2>8, <2>9 DEF Reachable
<1> QED  BY <1>1, <1>2, <1>3, <1>4, <1>5, <1>6, <1>7 DEF IdentityInv, Identified

LEMMA AdoptDoes ==
  ASSUME Identified, NEW t \in Task, Adopt(t)
  PROVE  /\ task[t].at = "adopt" /\ task'[t].at = "upload" /\ task'[t].app = task[t].app
         /\ task'[t].cert = certs + 1 /\ certs < MaxCert /\ certs' = certs + 1 /\ clientId' = task[t].app
         /\ bridged' = {} /\ rotationsCrossed' \in BOOLEAN
         /\ (~rotationsCrossed' => (~rotationsCrossed /\ \A u \in Task \ {t} : ~Rotating(u)))
         /\ Moves(t) /\ UNCHANGED <<called, registered, accepted, secretsAt, pfx, pool, stored, setupFaults, setupStops, halfway>>
<1>a. IdentityTables /\ IdentityNumbers /\ IdentitySets /\ IdentityFlags /\ IdentityNames /\ TaskReady
  BY DEF Identified
<1>1. task[t] \in TaskRecord /\ task[t].at = "adopt" /\ certs < MaxCert
  BY <1>a DEF Adopt, IdentityTables
<1>2. [task[t] EXCEPT !.at = "upload", !.cert = certs + 1] \in TaskRecord
  <2>1. certs + 1 \in 0..MaxCert
    BY <1>1, <1>a DEF IdentityNumbers
  <2> QED  BY <1>1, <2>1 DEF TaskRecord
<1>3. task' = [task EXCEPT ![t] = [task[t] EXCEPT !.at = "upload", !.cert = certs + 1]]
  BY DEF Adopt
<1>4. Moves(t) /\ task'[t] = [task[t] EXCEPT !.at = "upload", !.cert = certs + 1]
  BY <1>2, <1>3, <1>a, MovesTo
<1>5. /\ task'[t].at = "upload" /\ task'[t].app = task[t].app /\ task'[t].cert = certs + 1
  BY <1>1, <1>4 DEF TaskRecord
<1>6. rotationsCrossed' \in BOOLEAN /\ (~rotationsCrossed' => (~rotationsCrossed /\ \A u \in Task \ {t} : ~Rotating(u)))
  BY <1>a DEF Adopt, NotesCrossing, IdentityFlags
<1> QED  BY <1>1, <1>4, <1>5, <1>6 DEF Adopt, entra, BridgedEmptied

LEMMA AdoptKeeps ==
  ASSUME IdentityInv, NEW t \in Task, Adopt(t)
  PROVE  IdentityInv'
<1>0. /\ task[t].at = "adopt" /\ task'[t].at = "upload" /\ task'[t].app = task[t].app
      /\ task'[t].cert = certs + 1 /\ certs < MaxCert /\ certs' = certs + 1 /\ clientId' = task[t].app
      /\ bridged' = {} /\ rotationsCrossed' \in BOOLEAN
      /\ (~rotationsCrossed' => (~rotationsCrossed /\ \A u \in Task \ {t} : ~Rotating(u)))
      /\ Moves(t) /\ UNCHANGED <<called, registered, accepted, secretsAt, pfx, pool, stored, setupFaults, setupStops, halfway>>
  BY AdoptDoes DEF IdentityInv
<1>a. /\ IdentityTables /\ IdentityNumbers /\ IdentitySets /\ IdentityFlags
      /\ IdentityNames /\ TaskReady
  BY DEF IdentityInv, Identified
<1>1. IdentityTables'
  BY <1>0, <1>a DEF IdentityTables, Moves
<1>2. IdentityNumbers'
  BY <1>0, <1>a DEF IdentityNumbers, TaskReady, IdentityTables, TaskRecord
<1>3. IdentitySets'
  BY <1>0, <1>a DEF IdentitySets
<1>4. IdentityFlags'
  BY <1>0, <1>a DEF IdentityFlags
<1>5. IdentityNames'
  BY <1>0, <1>a, NamesStay
<1>6. TaskReady'
  <2>1. \A u \in Task \ {t} : task'[u] = task[u] /\ task[u].cert \in Nat
    BY <1>0, <1>a, RangesHold DEF Moves, Ranges
  <2>2. certs \in Nat
    BY <1>a DEF IdentityNumbers
  <2> QED  BY <1>0, <1>a, <2>1, <2>2 DEF TaskReady
<1>7. ASSUME Unharmed'  PROVE Reachable'
  <2>0. Unharmed /\ \A u \in Task \ {t} : ~Rotating(u)
    BY <1>0, <1>7 DEF Unharmed
  <2>a. /\ OneRotates /\ AcceptedLater /\ RegisteredLater /\ NewestUnderWay /\ AddsToPool
        /\ Spreads /\ SecretsWhole /\ ProvenFirst /\ InUseReach
    BY <2>0 DEF IdentityInv, Reachable
  <2>b. Ranges
    BY <1>a, RangesHold
  <2>1. OneRotates'
    BY <1>0, <2>a, <2>b, <2>0 DEF Ranges, Moves, OneRotates, Rotating
  <2>2. AcceptedLater'
    BY <1>0, <2>a, <2>b, <2>0 DEF Ranges, Moves, AcceptedLater
  <2>3. RegisteredLater'
    BY <1>0, <2>a, <2>b, <2>0 DEF Ranges, Moves, RegisteredLater, Kept
  <2>4. NewestUnderWay'
    BY <1>0, <2>a, <2>b, <2>0 DEF Ranges, Moves, NewestUnderWay, OneRotates, Rotating
  <2>5. AddsToPool'
    BY <1>0, <2>a, <2>b, <2>0 DEF Ranges, Moves, AddsToPool, OneRotates, Rotating
  <2>6. Spreads'
    BY <1>0, <2>a, <2>b, <2>0 DEF Ranges, Moves, Spreads, InUse, OneRotates, Rotating
  <2>7. SecretsWhole'
    BY <1>0, <2>a, <2>b, <2>0 DEF Ranges, Moves, SecretsWhole
  <2>8. ProvenFirst'
    BY <1>0, <2>a, <2>b, <2>0 DEF Ranges, Moves, ProvenFirst, Kept, Covered, TakenOver, InUse
  <2>9. InUseReach'
    BY <1>0, <2>a, <2>b, <2>0 DEF Ranges, Moves, InUseReach, Kept, Covered, TakenOver, InUse
  <2> QED  BY <2>1, <2>2, <2>3, <2>4, <2>5, <2>6, <2>7, <2>8, <2>9 DEF Reachable
<1> QED  BY <1>1, <1>2, <1>3, <1>4, <1>5, <1>6, <1>7 DEF IdentityInv, Identified

LEMMA UploadDoes ==
  ASSUME Identified, NEW t \in Task, Upload(t)
  PROVE  /\ task[t].at = "upload" /\ task'[t].at = (IF pool = <<>> THEN "write" ELSE "pool")
         /\ task'[t].todo = pool /\ task'[t].app = task[t].app /\ task'[t].cert = task[t].cert
         /\ task[t].app \in App /\ registered' \in [App -> 0..MaxCert] /\ registered'[task[t].app] = task[t].cert
         /\ (\A a \in App : a # task[t].app => registered'[a] = registered[a])
         /\ Moves(t) /\ UNCHANGED <<called, accepted, secretsAt, pfx, clientId, pool, stored, bridged, certs, setupFaults, setupStops, rotationsCrossed, halfway>>
<1>a. IdentityTables /\ IdentityNumbers /\ IdentitySets /\ IdentityFlags /\ IdentityNames /\ TaskReady
  BY DEF Identified
<1>1. task[t] \in TaskRecord /\ task[t].at = "upload" /\ task[t].app # 0
  BY <1>a DEF Upload, IdentityTables, TaskReady
<1>2. Uploads(task[t], pool) \in TaskRecord
  BY <1>1, <1>a DEF TaskRecord, Uploads, IdentitySets
<1>3. task' = [task EXCEPT ![t] = Uploads(task[t], pool)]
  BY DEF Upload
<1>4. Moves(t) /\ task'[t] = Uploads(task[t], pool)
  BY <1>2, <1>3, <1>a, MovesTo
<1>5. /\ task'[t].at = (IF pool = <<>> THEN "write" ELSE "pool")
      /\ task'[t].todo = pool /\ task'[t].app = task[t].app /\ task'[t].cert = task[t].cert
  BY <1>1, <1>4 DEF TaskRecord, Uploads
<1>6. task[t].app \in App
  BY <1>1 DEF TaskRecord, App
<1>7. /\ registered' \in [App -> 0..MaxCert] /\ registered'[task[t].app] = task[t].cert
      /\ \A a \in App : a # task[t].app => registered'[a] = registered[a]
  BY <1>1, <1>6, <1>a DEF Upload, RegisterApp, IdentityTables, TaskRecord
<1> QED  BY <1>1, <1>4, <1>5, <1>6, <1>7 DEF Upload, RegisterApp, gateway

LEMMA UploadKeeps ==
  ASSUME IdentityInv, NEW t \in Task, Upload(t)
  PROVE  IdentityInv'
<1>0. /\ task[t].at = "upload" /\ task'[t].at = (IF pool = <<>> THEN "write" ELSE "pool")
      /\ task'[t].todo = pool /\ task'[t].app = task[t].app /\ task'[t].cert = task[t].cert
      /\ task[t].app \in App /\ registered' \in [App -> 0..MaxCert] /\ registered'[task[t].app] = task[t].cert
      /\ (\A a \in App : a # task[t].app => registered'[a] = registered[a])
      /\ Moves(t) /\ UNCHANGED <<called, accepted, secretsAt, pfx, clientId, pool, stored, bridged, certs, setupFaults, setupStops, rotationsCrossed, halfway>>
  BY UploadDoes DEF IdentityInv
<1>a. /\ IdentityTables /\ IdentityNumbers /\ IdentitySets /\ IdentityFlags
      /\ IdentityNames /\ TaskReady
  BY DEF IdentityInv, Identified
<1>1. IdentityTables'
  BY <1>0, <1>a DEF IdentityTables, Moves
<1>2. IdentityNumbers'
  BY <1>0, <1>a DEF IdentityNumbers, TaskReady, IdentityTables, TaskRecord
<1>3. IdentitySets'
  BY <1>0, <1>a DEF IdentitySets
<1>4. IdentityFlags'
  BY <1>0, <1>a DEF IdentityFlags
<1>5. IdentityNames'
  BY <1>0, <1>a, NamesStay
<1>6. TaskReady'
  BY <1>0, <1>a DEF TaskReady, IdentityNumbers, Moves
<1>7. ASSUME Unharmed'  PROVE Reachable'
  <2>0. Unharmed
    BY <1>0, <1>7 DEF Unharmed
  <2>a. /\ OneRotates /\ AcceptedLater /\ RegisteredLater /\ NewestUnderWay /\ AddsToPool
        /\ Spreads /\ SecretsWhole /\ ProvenFirst /\ InUseReach
    BY <2>0 DEF IdentityInv, Reachable
  <2>b. Ranges
    BY <1>a, RangesHold
  <2>1. OneRotates'
    BY <1>0, <2>a, <2>b DEF Ranges, Moves, OneRotates, Rotating
  <2>2. AcceptedLater'
    <3>1. Kept
      BY <1>0, <2>a DEF OneRotates, Rotating, Kept
    <3>2. \A a \in App : registered[a] <= registered'[a]
      BY <1>0, <2>a, <2>b, <3>1 DEF RegisteredLater, NewestUnderWay, Ranges
    <3>3. \A a \in App : registered'[a] \in Nat
      BY <1>0
    <3> QED  BY <1>0, <2>a, <2>b, <3>2, <3>3 DEF AcceptedLater, Ranges
  <2>3. RegisteredLater'
    BY <1>0, <2>a, <2>b DEF Ranges, Moves, RegisteredLater, Kept
  <2>4. NewestUnderWay'
    <3>1. \A u \in Task \ {t} : task'[u] = task[u] /\ ~Rotating(u)
      BY <1>0, <2>a DEF OneRotates, Rotating, Moves
    <3>2. Kept
      BY <1>0, <2>a DEF OneRotates, Rotating, Kept
    <3>3. pfx < task[t].cert /\ clientId = task[t].app
      BY <1>0, <2>a DEF NewestUnderWay
    <3>4. \A a \in App : registered'[a] <= task[t].cert
      BY <1>0, <2>a, <2>b, <3>2, <3>3 DEF RegisteredLater, Ranges
    <3>5. \A u \in Task \ {t} : task'[u].at \notin {"upload", "pool", "write"}
      BY <3>1 DEF Rotating
    <3> QED  BY <1>0, <3>3, <3>4, <3>5 DEF NewestUnderWay
  <2>5. AddsToPool'
    BY <1>0, <2>a, <2>b DEF Ranges, Moves, AddsToPool, OneRotates, Rotating
  <2>6. Spreads'
    <3>1. \A u \in Task \ {t} : task'[u] = task[u] /\ ~Rotating(u)
      BY <1>0, <2>a DEF OneRotates, Rotating, Moves
    <3>2. \A u \in Task \ {t} : task'[u].at \notin {"pool", "write"}
      BY <3>1 DEF Rotating
    <3>3. InUse' = InUse
      BY <1>0 DEF InUse
    <3>4. ASSUME pool = <<>>, NEW a \in InUse  PROVE registered'[a] = task[t].cert
      <4>1. a = task[t].app
        BY <3>4, <1>0, <2>a DEF InUse, NewestUnderWay
      <4> QED  BY <4>1, <1>0
    <3>5. ASSUME pool # <<>>, NEW a \in InUse  PROVE a \in Elements(task'[t].todo)
      BY <3>5, <1>0 DEF InUse
    <3> QED  BY <1>0, <3>2, <3>3, <3>4, <3>5 DEF Spreads
  <2>7. SecretsWhole'
    BY <1>0, <2>a, <2>b DEF Ranges, Moves, SecretsWhole
  <2>8. ProvenFirst'
    BY <1>0, <2>a, <2>b DEF Ranges, Moves, ProvenFirst, Kept, Covered, TakenOver, InUse
  <2>9. InUseReach'
    BY <1>0, <2>a, <2>b DEF Ranges, Moves, InUseReach, Kept, Covered, TakenOver, InUse
  <2> QED  BY <2>1, <2>2, <2>3, <2>4, <2>5, <2>6, <2>7, <2>8, <2>9 DEF Reachable
<1> QED  BY <1>1, <1>2, <1>3, <1>4, <1>5, <1>6, <1>7 DEF IdentityInv, Identified

LEMMA UploadNextDoes ==
  ASSUME Identified, NEW t \in Task, UploadNext(t)
  PROVE  /\ task[t].at = "pool" /\ task'[t].at = (IF Tail(task[t].todo) = <<>> THEN "write" ELSE "pool")
         /\ task[t].todo \in Seq(App) /\ Tail(task[t].todo) \in Seq(App) /\ Head(task[t].todo) \in App
         /\ Elements(task[t].todo) = {Head(task[t].todo)} \cup Elements(Tail(task[t].todo))
         /\ (Tail(task[t].todo) = <<>> => Elements(Tail(task[t].todo)) = {})
         /\ task'[t].todo = Tail(task[t].todo) /\ task'[t].app = task[t].app /\ task'[t].cert = task[t].cert
         /\ registered' \in [App -> 0..MaxCert] /\ registered'[Head(task[t].todo)] = task[t].cert
         /\ (\A a \in App : a # Head(task[t].todo) => registered'[a] = registered[a])
         /\ Moves(t) /\ UNCHANGED <<called, accepted, secretsAt, pfx, clientId, pool, stored, bridged, certs, setupFaults, setupStops, rotationsCrossed, halfway>>
<1>a. IdentityTables /\ IdentityNumbers /\ IdentitySets /\ IdentityFlags /\ IdentityNames /\ TaskReady
  BY DEF Identified
<1>1. task[t] \in TaskRecord /\ task[t].at = "pool" /\ task[t].todo # <<>> /\ task[t].todo \in Seq(App)
  BY <1>a DEF UploadNext, IdentityTables, TaskReady, TaskRecord
<1>b. /\ Tail(task[t].todo) \in Seq(App) /\ Head(task[t].todo) \in App
      /\ Elements(task[t].todo) = {Head(task[t].todo)} \cup Elements(Tail(task[t].todo))
      /\ (Tail(task[t].todo) = <<>> => Elements(Tail(task[t].todo)) = {})
  BY <1>1, ElementsOf
<1>2. Uploads(task[t], Tail(task[t].todo)) \in TaskRecord
  BY <1>1, <1>b DEF TaskRecord, Uploads
<1>3. task' = [task EXCEPT ![t] = Uploads(task[t], Tail(task[t].todo))]
  BY DEF UploadNext
<1>4. Moves(t) /\ task'[t] = Uploads(task[t], Tail(task[t].todo))
  BY <1>2, <1>3, <1>a, MovesTo
<1>5. /\ task'[t].at = (IF Tail(task[t].todo) = <<>> THEN "write" ELSE "pool")
      /\ task'[t].todo = Tail(task[t].todo) /\ task'[t].app = task[t].app /\ task'[t].cert = task[t].cert
  BY <1>1, <1>4 DEF TaskRecord, Uploads
<1>7. /\ registered' \in [App -> 0..MaxCert] /\ registered'[Head(task[t].todo)] = task[t].cert
      /\ \A a \in App : a # Head(task[t].todo) => registered'[a] = registered[a]
  BY <1>1, <1>b, <1>a DEF UploadNext, RegisterApp, IdentityTables, TaskRecord
<1> QED  BY <1>1, <1>b, <1>4, <1>5, <1>7 DEF UploadNext, RegisterApp, gateway

LEMMA UploadNextKeeps ==
  ASSUME IdentityInv, NEW t \in Task, UploadNext(t)
  PROVE  IdentityInv'
<1>0. /\ task[t].at = "pool" /\ task'[t].at = (IF Tail(task[t].todo) = <<>> THEN "write" ELSE "pool")
      /\ task[t].todo \in Seq(App) /\ Tail(task[t].todo) \in Seq(App) /\ Head(task[t].todo) \in App
      /\ Elements(task[t].todo) = {Head(task[t].todo)} \cup Elements(Tail(task[t].todo))
      /\ (Tail(task[t].todo) = <<>> => Elements(Tail(task[t].todo)) = {})
      /\ task'[t].todo = Tail(task[t].todo) /\ task'[t].app = task[t].app /\ task'[t].cert = task[t].cert
      /\ registered' \in [App -> 0..MaxCert] /\ registered'[Head(task[t].todo)] = task[t].cert
      /\ (\A a \in App : a # Head(task[t].todo) => registered'[a] = registered[a])
      /\ Moves(t) /\ UNCHANGED <<called, accepted, secretsAt, pfx, clientId, pool, stored, bridged, certs, setupFaults, setupStops, rotationsCrossed, halfway>>
  BY UploadNextDoes DEF IdentityInv
<1>a. /\ IdentityTables /\ IdentityNumbers /\ IdentitySets /\ IdentityFlags
      /\ IdentityNames /\ TaskReady
  BY DEF IdentityInv, Identified
<1>1. IdentityTables'
  BY <1>0, <1>a DEF IdentityTables, Moves
<1>2. IdentityNumbers'
  BY <1>0, <1>a DEF IdentityNumbers, TaskReady, IdentityTables, TaskRecord
<1>3. IdentitySets'
  BY <1>0, <1>a DEF IdentitySets
<1>4. IdentityFlags'
  BY <1>0, <1>a DEF IdentityFlags
<1>5. IdentityNames'
  BY <1>0, <1>a, NamesStay
<1>6. TaskReady'
  BY <1>0, <1>a DEF TaskReady, IdentityNumbers, Moves
<1>7. ASSUME Unharmed'  PROVE Reachable'
  <2>0. Unharmed
    BY <1>0, <1>7 DEF Unharmed
  <2>a. /\ OneRotates /\ AcceptedLater /\ RegisteredLater /\ NewestUnderWay /\ AddsToPool
        /\ Spreads /\ SecretsWhole /\ ProvenFirst /\ InUseReach
    BY <2>0 DEF IdentityInv, Reachable
  <2>b. Ranges
    BY <1>a, RangesHold
  <2>1. OneRotates'
    <3>1. \A u \in Task : Rotating(u)' => Rotating(u)
      BY <1>0 DEF Rotating, Moves
    <3> QED  BY <3>1, <2>a DEF OneRotates
  <2>2. AcceptedLater'
    <3>p. PICK h \in App : /\ registered'[h] = task[t].cert
                            /\ \A a \in App : a # h => registered'[a] = registered[a]
      BY <1>0
    <3>q. accepted' = accepted /\ \A a \in App : registered[a] <= task[t].cert
      BY <1>0, <2>a DEF NewestUnderWay
    <3>1. \A a \in App : registered[a] <= registered'[a] /\ registered'[a] \in Nat
      BY <2>b, <3>p, <3>q DEF Ranges
    <3> QED  BY <2>a, <2>b, <3>q, <3>1 DEF AcceptedLater, Ranges
  <2>3. RegisteredLater'
    BY <1>0, <2>a, <2>b DEF Ranges, Moves, RegisteredLater, Kept
  <2>4. NewestUnderWay'
    <3>1. \A u \in Task \ {t} : task'[u] = task[u] /\ ~Rotating(u)
      BY <1>0, <2>a DEF OneRotates, Rotating, Moves
    <3>p. PICK h \in App : /\ registered'[h] = task[t].cert
                            /\ \A a \in App : a # h => registered'[a] = registered[a]
      BY <1>0
    <3>q. accepted' = accepted /\ \A a \in App : registered[a] <= task[t].cert
      BY <1>0, <2>a DEF NewestUnderWay
    <3>3. pfx < task[t].cert /\ clientId = task[t].app /\ \A a \in App : registered[a] <= task[t].cert
      BY <1>0, <2>a DEF NewestUnderWay
    <3>4. \A a \in App : registered'[a] <= task[t].cert
      BY <2>b, <3>p, <3>q DEF Ranges
    <3>5. \A u \in Task \ {t} : task'[u].at \notin {"upload", "pool", "write"}
      BY <3>1 DEF Rotating
    <3> QED  BY <1>0, <3>3, <3>4, <3>5 DEF NewestUnderWay
  <2>5. AddsToPool'
    <3>1. \A u \in Task \ {t} : task'[u] = task[u] /\ ~Rotating(u)
      BY <1>0, <2>a DEF OneRotates, Rotating, Moves
    <3>2. \A u \in Task : task'[u].at \notin {"pool_look", "pool_upload", "append"}
      BY <1>0, <3>1 DEF Rotating
    <3> QED  BY <3>2 DEF AddsToPool
  <2>6. Spreads'
    <3>1. \A u \in Task \ {t} : task'[u] = task[u] /\ ~Rotating(u)
      BY <1>0, <2>a DEF OneRotates, Rotating, Moves
    <3>2. \A u \in Task \ {t} : task'[u].at \notin {"pool", "write"}
      BY <3>1 DEF Rotating
    <3>3. InUse' = InUse /\ InUse \subseteq App
      BY <1>0, <1>a, InUseIs DEF InUse
    <3>4. ASSUME NEW a \in InUse  PROVE registered'[a] = task[t].cert \/ a \in Elements(Tail(task[t].todo))
      <4>1. registered[a] = task[t].cert \/ a \in Elements(task[t].todo)
        BY <1>0, <2>a DEF Spreads
      <4>2. CASE a = Head(task[t].todo)
        BY <4>2, <1>0
      <4>3. CASE a # Head(task[t].todo)
        BY <4>1, <4>3, <1>0, <3>3
      <4> QED  BY <4>2, <4>3
    <3>5. ASSUME NEW a \in InUse
          PROVE  /\ task'[t].at = "write" => registered'[a] = task'[t].cert
                 /\ task'[t].at = "pool" => (registered'[a] = task'[t].cert \/ a \in Elements(task'[t].todo))
      <4>1. CASE Tail(task[t].todo) = <<>>
        BY <4>1, <3>4, <1>0
      <4>2. CASE Tail(task[t].todo) # <<>>
        BY <4>2, <3>4, <1>0
      <4> QED  BY <4>1, <4>2
    <3> QED  BY <3>2, <3>3, <3>5 DEF Spreads
  <2>7. SecretsWhole'
    BY <1>0, <2>a, <2>b DEF Ranges, Moves, SecretsWhole
  <2>8. ProvenFirst'
    BY <1>0, <2>a, <2>b DEF Ranges, Moves, ProvenFirst, Kept, Covered, TakenOver, InUse
  <2>9. InUseReach'
    BY <1>0, <2>a, <2>b DEF Ranges, Moves, InUseReach, Kept, Covered, TakenOver, InUse
  <2> QED  BY <2>1, <2>2, <2>3, <2>4, <2>5, <2>6, <2>7, <2>8, <2>9 DEF Reachable
<1> QED  BY <1>1, <1>2, <1>3, <1>4, <1>5, <1>6, <1>7 DEF IdentityInv, Identified

LEMMA WritePfxDoes ==
  ASSUME Identified, NEW t \in Task, WritePfx(t)
  PROVE  /\ task[t].at = "write" /\ task'[t].at = "prove" /\ task'[t].todo # <<>>
         /\ pfx' = task[t].cert /\ bridged' = {}
         /\ task[t].cert \in 0..MaxCert
         /\ Moves(t) /\ UNCHANGED <<called, registered, accepted, secretsAt, clientId, pool, stored, certs, setupFaults, setupStops, rotationsCrossed, halfway>>
<1>a. IdentityTables /\ IdentityNumbers /\ IdentitySets /\ IdentityFlags /\ IdentityNames /\ TaskReady
  BY DEF Identified
<1>1. task[t] \in TaskRecord /\ task[t].at = "write" /\ clientId # 0
  BY <1>a DEF WritePfx, IdentityTables, TaskReady
<1>b. <<clientId>> \o pool \in Seq(App) /\ <<clientId>> \o pool # <<>>
  <2>1. <<clientId>> \in Seq(App) /\ pool \in Seq(App) /\ Len(<<clientId>>) = 1
    BY <1>1, <1>a DEF IdentityNumbers, IdentitySets, App
  <2> QED  BY <2>1, ConcatProperties
<1>2. [task[t] EXCEPT !.at = "prove", !.todo = <<clientId>> \o pool] \in TaskRecord
  BY <1>1, <1>b DEF TaskRecord
<1>3. task' = [task EXCEPT ![t] = [task[t] EXCEPT !.at = "prove", !.todo = <<clientId>> \o pool]]
  BY DEF WritePfx
<1>4. Moves(t) /\ task'[t] = [task[t] EXCEPT !.at = "prove", !.todo = <<clientId>> \o pool]
  BY <1>2, <1>3, <1>a, MovesTo
<1>5. task'[t].at = "prove" /\ task'[t].todo # <<>> /\ task[t].cert \in 0..MaxCert
  BY <1>1, <1>b, <1>4 DEF TaskRecord
<1> QED  BY <1>1, <1>4, <1>5 DEF WritePfx, entra, BridgedEmptied

LEMMA WritePfxKeeps ==
  ASSUME IdentityInv, NEW t \in Task, WritePfx(t)
  PROVE  IdentityInv'
<1>0. /\ task[t].at = "write" /\ task'[t].at = "prove" /\ task'[t].todo # <<>>
      /\ pfx' = task[t].cert /\ bridged' = {}
      /\ task[t].cert \in 0..MaxCert
      /\ Moves(t) /\ UNCHANGED <<called, registered, accepted, secretsAt, clientId, pool, stored, certs, setupFaults, setupStops, rotationsCrossed, halfway>>
  BY WritePfxDoes DEF IdentityInv
<1>a. /\ IdentityTables /\ IdentityNumbers /\ IdentitySets /\ IdentityFlags
      /\ IdentityNames /\ TaskReady
  BY DEF IdentityInv, Identified
<1>1. IdentityTables'
  BY <1>0, <1>a DEF IdentityTables, Moves
<1>2. IdentityNumbers'
  <2>1. task[t].cert \in 0..MaxCert /\ task[t].cert <= certs
    BY <1>0, <1>a DEF TaskReady
  <2> QED  BY <1>0, <1>a, <2>1 DEF IdentityNumbers
<1>3. IdentitySets'
  BY <1>0, <1>a DEF IdentitySets
<1>4. IdentityFlags'
  BY <1>0, <1>a DEF IdentityFlags
<1>5. IdentityNames'
  BY <1>0, <1>a, NamesStay
<1>6. TaskReady'
  BY <1>0, <1>a DEF TaskReady, IdentityNumbers, Moves
<1>7. ASSUME Unharmed'  PROVE Reachable'
  <2>0. Unharmed
    BY <1>0, <1>7 DEF Unharmed
  <2>a. /\ OneRotates /\ AcceptedLater /\ RegisteredLater /\ NewestUnderWay /\ AddsToPool
        /\ Spreads /\ SecretsWhole /\ ProvenFirst /\ InUseReach
    BY <2>0 DEF IdentityInv, Reachable
  <2>b. Ranges
    BY <1>a, RangesHold
  <2>1. OneRotates'
    BY <1>0, <2>a, <2>b DEF Ranges, Moves, OneRotates, Rotating
  <2>2. AcceptedLater'
    BY <1>0, <2>a, <2>b DEF Ranges, Moves, AcceptedLater
  <2>3. RegisteredLater'
    BY <1>0, <2>a DEF NewestUnderWay, RegisteredLater
  <2>4. NewestUnderWay'
    <3>1. \A u \in Task \ {t} : task'[u] = task[u] /\ ~Rotating(u)
      BY <1>0, <2>a DEF OneRotates, Rotating, Moves
    <3>2. \A u \in Task : ~Rotating(u)'
      BY <1>0, <3>1 DEF Rotating
    <3> QED  BY <3>2 DEF NewestUnderWay, Rotating
  <2>5. AddsToPool'
    <3>1. \A u \in Task \ {t} : task'[u] = task[u] /\ ~Rotating(u)
      BY <1>0, <2>a DEF OneRotates, Rotating, Moves
    <3>2. \A u \in Task : ~Rotating(u)'
      BY <1>0, <3>1 DEF Rotating
    <3> QED  BY <3>2 DEF AddsToPool, Rotating
  <2>6. Spreads'
    BY <1>0, <2>a, <2>b DEF Ranges, Moves, Spreads, InUse, OneRotates, Rotating
  <2>7. SecretsWhole'
    BY <1>0, <2>a, <2>b DEF Ranges, Moves, SecretsWhole
  <2>8. ProvenFirst'
    <3>c. /\ \A a \in InUse : registered[a] = task[t].cert
          /\ pfx < task[t].cert
      BY <1>0, <2>a DEF Spreads, NewestUnderWay
    <3>d. \A a \in InUse' : Covered(a)'
      BY <1>0, <2>b, <3>c DEF InUse, Covered, Ranges
    <3> QED  BY <3>d DEF ProvenFirst
  <2>9. InUseReach'
    <3>c. /\ \A a \in InUse : registered[a] = task[t].cert
          /\ pfx < task[t].cert
      BY <1>0, <2>a DEF Spreads, NewestUnderWay
    <3>d. \A a \in InUse' : Covered(a)'
      BY <1>0, <2>b, <3>c DEF InUse, Covered, Ranges
    <3> QED  BY <3>d DEF InUseReach
  <2> QED  BY <2>1, <2>2, <2>3, <2>4, <2>5, <2>6, <2>7, <2>8, <2>9 DEF Reachable
<1> QED  BY <1>1, <1>2, <1>3, <1>4, <1>5, <1>6, <1>7 DEF IdentityInv, Identified

LEMMA SetupFailsDoes ==
  ASSUME Identified, NEW t \in Task, SetupFails(t)
  PROVE  /\ task[t].at \in {"create", "upload", "pool", "pool_look", "pool_upload"} /\ task'[t].at = "idle"
         /\ setupFaults' = setupFaults + 1 /\ halfway' \in BOOLEAN
         /\ (~halfway' => (~halfway /\ ~LeavesHalf(t)))
         /\ Moves(t) /\ UNCHANGED <<called, registered, accepted, secretsAt, pfx, clientId, pool, stored, bridged, certs, setupStops, rotationsCrossed>>
<1>a. IdentityTables /\ IdentityNumbers /\ IdentitySets /\ IdentityFlags /\ IdentityNames /\ TaskReady
  BY DEF Identified
<1>1. task[t].at \in {"create", "upload", "pool", "pool_look", "pool_upload"} /\ task' = [task EXCEPT ![t] = Idle]
  BY DEF SetupFails
<1>2. Moves(t) /\ task'[t].at = "idle"
  BY <1>1, <1>a, IdleIs, MovesTo
<1>3. halfway' \in BOOLEAN /\ (~halfway' => (~halfway /\ ~LeavesHalf(t)))
  BY <1>a DEF SetupFails, IdentityFlags
<1> QED  BY <1>1, <1>2, <1>3 DEF SetupFails, entra, gateway

LEMMA SetupFailsKeeps ==
  ASSUME IdentityInv, NEW t \in Task, SetupFails(t)
  PROVE  IdentityInv'
<1>0. /\ task[t].at \in {"create", "upload", "pool", "pool_look", "pool_upload"} /\ task'[t].at = "idle"
      /\ setupFaults' = setupFaults + 1 /\ halfway' \in BOOLEAN
      /\ (~halfway' => (~halfway /\ ~LeavesHalf(t)))
      /\ Moves(t) /\ UNCHANGED <<called, registered, accepted, secretsAt, pfx, clientId, pool, stored, bridged, certs, setupStops, rotationsCrossed>>
  BY SetupFailsDoes DEF IdentityInv
<1>a. /\ IdentityTables /\ IdentityNumbers /\ IdentitySets /\ IdentityFlags
      /\ IdentityNames /\ TaskReady
  BY DEF IdentityInv, Identified
<1>1. IdentityTables'
  BY <1>0, <1>a DEF IdentityTables, Moves
<1>2. IdentityNumbers'
  BY <1>0, <1>a DEF IdentityNumbers, TaskReady, IdentityTables, TaskRecord
<1>3. IdentitySets'
  BY <1>0, <1>a DEF IdentitySets
<1>4. IdentityFlags'
  BY <1>0, <1>a DEF IdentityFlags
<1>5. IdentityNames'
  BY <1>0, <1>a, NamesStay
<1>6. TaskReady'
  BY <1>0, <1>a DEF TaskReady, IdentityNumbers, Moves
<1>7. ASSUME Unharmed'  PROVE Reachable'
  <2>0. Unharmed /\ task[t].at \notin {"pool", "write"} /\ (task[t].at = "upload" => Covered(task[t].app))
    BY <1>0, <1>7 DEF Unharmed, LeavesHalf, Covered
  <2>a. /\ OneRotates /\ AcceptedLater /\ RegisteredLater /\ NewestUnderWay /\ AddsToPool
        /\ Spreads /\ SecretsWhole /\ ProvenFirst /\ InUseReach
    BY <2>0 DEF IdentityInv, Reachable
  <2>b. Ranges
    BY <1>a, RangesHold
  <2>1. OneRotates'
    BY <1>0, <2>a, <2>b, <2>0 DEF Ranges, Moves, OneRotates, Rotating
  <2>2. AcceptedLater'
    BY <1>0, <2>a, <2>b, <2>0 DEF Ranges, Moves, AcceptedLater
  <2>3. RegisteredLater'
    BY <1>0, <2>a, <2>b, <2>0 DEF Ranges, Moves, RegisteredLater, Kept
  <2>4. NewestUnderWay'
    BY <1>0, <2>a, <2>b, <2>0 DEF Ranges, Moves, NewestUnderWay, OneRotates, Rotating
  <2>5. AddsToPool'
    BY <1>0, <2>a, <2>b, <2>0 DEF Ranges, Moves, AddsToPool, OneRotates, Rotating
  <2>6. Spreads'
    BY <1>0, <2>a, <2>b, <2>0 DEF Ranges, Moves, Spreads, InUse, OneRotates, Rotating
  <2>7. SecretsWhole'
    BY <1>0, <2>a, <2>b, <2>0 DEF Ranges, Moves, SecretsWhole
  <2>r. ProvenFirst' /\ InUseReach'
    <3>1. Kept' => Kept
      BY <1>0, <2>0 DEF Kept, Moves
    <3>2. \A u \in Task : task'[u].at = "remove" =>
                            task[u].at = "remove" /\ Head(task'[u].todo) = Head(task[u].todo)
      BY <1>0 DEF Moves
    <3>3. ASSUME NEW a \in App, Covered(a) \/ TakenOver(a)  PROVE Covered(a)' \/ TakenOver(a)'
      <4>1. CASE Covered(a)
        BY <4>1, <1>0, <2>a, <2>b, <2>0 DEF Covered, AddsToPool, Ranges
      <4>2. CASE TakenOver(a)
        BY <4>2, <1>0, <2>a, <2>0 DEF Covered, TakenOver, Moves
      <4> QED  BY <3>3, <4>1, <4>2
    <3>4. \A a \in stored \ stored' : a \in InUse => (Kept => (Covered(a) \/ TakenOver(a)))
      BY <1>0, <2>a DEF ProvenFirst
    <3>5. InUse \subseteq App
      BY <1>a, InUseIs
    <3> QED  BY <1>0, <2>a, <3>1, <3>2, <3>3, <3>4, <3>5, ReachStays
  <2>8. ProvenFirst'
    BY <2>r
  <2>9. InUseReach'
    BY <2>r
  <2> QED  BY <2>1, <2>2, <2>3, <2>4, <2>5, <2>6, <2>7, <2>8, <2>9 DEF Reachable
<1> QED  BY <1>1, <1>2, <1>3, <1>4, <1>5, <1>6, <1>7 DEF IdentityInv, Identified

LEMMA ProveDoes ==
  ASSUME Identified, NEW t \in Task, Prove(t)
  PROVE  /\ task[t].at = "prove" /\ task'[t].at = "remove" /\ task'[t].todo = task[t].todo /\ task[t].todo # <<>>
         /\ Head(task[t].todo) \in App /\ pfx # 0 /\ accepted[Head(task[t].todo)] = pfx
         /\ Moves(t) /\ UNCHANGED <<called, registered, accepted, secretsAt, pfx, clientId, pool, stored, bridged, certs, setupFaults, setupStops, rotationsCrossed, halfway>>
<1>a. IdentityTables /\ IdentityNumbers /\ IdentitySets /\ IdentityFlags /\ IdentityNames /\ TaskReady
  BY DEF Identified
<1>1. task[t] \in TaskRecord /\ task[t].at = "prove" /\ task[t].todo # <<>> /\ task[t].todo \in Seq(App)
  BY <1>a DEF Prove, IdentityTables, TaskReady, TaskRecord
<1>2. [task[t] EXCEPT !.at = "remove"] \in TaskRecord
  BY <1>1 DEF TaskRecord
<1>3. task' = [task EXCEPT ![t] = [task[t] EXCEPT !.at = "remove"]]
  BY DEF Prove, To
<1>4. Moves(t) /\ task'[t] = [task[t] EXCEPT !.at = "remove"]
  BY <1>2, <1>3, <1>a, MovesTo
<1>5. task'[t].at = "remove" /\ task'[t].todo = task[t].todo
  BY <1>1, <1>4 DEF TaskRecord
<1>6. Head(task[t].todo) \in App
  BY <1>1, ElementsOf
<1> QED  BY <1>1, <1>4, <1>5, <1>6 DEF Prove, entra, gateway, CertWorks

LEMMA ProveKeeps ==
  ASSUME IdentityInv, NEW t \in Task, Prove(t)
  PROVE  IdentityInv'
<1>0. /\ task[t].at = "prove" /\ task'[t].at = "remove" /\ task'[t].todo = task[t].todo /\ task[t].todo # <<>>
      /\ Head(task[t].todo) \in App /\ pfx # 0 /\ accepted[Head(task[t].todo)] = pfx
      /\ Moves(t) /\ UNCHANGED <<called, registered, accepted, secretsAt, pfx, clientId, pool, stored, bridged, certs, setupFaults, setupStops, rotationsCrossed, halfway>>
  BY ProveDoes DEF IdentityInv
<1>a. /\ IdentityTables /\ IdentityNumbers /\ IdentitySets /\ IdentityFlags
      /\ IdentityNames /\ TaskReady
  BY DEF IdentityInv, Identified
<1>1. IdentityTables'
  BY <1>0, <1>a DEF IdentityTables, Moves
<1>2. IdentityNumbers'
  BY <1>0, <1>a DEF IdentityNumbers, TaskReady, IdentityTables, TaskRecord
<1>3. IdentitySets'
  BY <1>0, <1>a DEF IdentitySets
<1>4. IdentityFlags'
  BY <1>0, <1>a DEF IdentityFlags
<1>5. IdentityNames'
  BY <1>0, <1>a, NamesStay
<1>6. TaskReady'
  BY <1>0, <1>a DEF TaskReady, IdentityNumbers, Moves
<1>7. ASSUME Unharmed'  PROVE Reachable'
  <2>0. Unharmed
    BY <1>0, <1>7 DEF Unharmed
  <2>a. /\ OneRotates /\ AcceptedLater /\ RegisteredLater /\ NewestUnderWay /\ AddsToPool
        /\ Spreads /\ SecretsWhole /\ ProvenFirst /\ InUseReach
    BY <2>0 DEF IdentityInv, Reachable
  <2>b. Ranges
    BY <1>a, RangesHold
  <2>1. OneRotates'
    BY <1>0, <2>a, <2>b DEF Ranges, Moves, OneRotates, Rotating
  <2>2. AcceptedLater'
    BY <1>0, <2>a, <2>b DEF Ranges, Moves, AcceptedLater
  <2>3. RegisteredLater'
    BY <1>0, <2>a, <2>b DEF Ranges, Moves, RegisteredLater, Kept
  <2>4. NewestUnderWay'
    BY <1>0, <2>a, <2>b DEF Ranges, Moves, NewestUnderWay, OneRotates, Rotating
  <2>5. AddsToPool'
    BY <1>0, <2>a, <2>b DEF Ranges, Moves, AddsToPool, OneRotates, Rotating
  <2>6. Spreads'
    BY <1>0, <2>a, <2>b DEF Ranges, Moves, Spreads, InUse, OneRotates, Rotating
  <2>7. SecretsWhole'
    BY <1>0, <2>a, <2>b DEF Ranges, Moves, SecretsWhole
  <2>8. ProvenFirst'
    <3>1. ASSUME Kept'
          PROVE  Kept /\ Covered(Head(task[t].todo))
      <4>1. Kept
        BY <3>1, <1>0 DEF Kept, Moves
      <4>2. /\ accepted[Head(task[t].todo)] <= registered[Head(task[t].todo)]
            /\ registered[Head(task[t].todo)] <= pfx
        BY <1>0, <2>a, <4>1 DEF AcceptedLater, RegisteredLater
      <4>3. registered[Head(task[t].todo)] = pfx
        BY <4>2, <1>0, <2>b DEF Ranges
      <4> QED  BY <4>1, <4>3, <1>0 DEF Covered
    <3>2. \A a \in App : /\ Covered(a) => Covered(a)'
                         /\ TakenOver(a) => TakenOver(a)'
      <4>1. \A a \in App : Covered(a) => Covered(a)'
        BY <1>0 DEF Covered
      <4>2. \A a \in App : TakenOver(a) => TakenOver(a)'
        BY <1>0 DEF TakenOver, Moves
      <4> QED  BY <4>1, <4>2
    <3>3. InUse' = InUse /\ InUse \subseteq App
      BY <1>0, <1>a, InUseIs DEF InUse
    <3> SUFFICES ASSUME Kept', NEW u \in Task, NEW a \in InUse, task'[u].at = "remove", Head(task'[u].todo) = a
                 PROVE  Covered(a)' \/ TakenOver(a)'
      BY <3>3 DEF ProvenFirst
    <3>4. CASE u = t
      BY <3>1, <3>2, <3>4, <1>0
    <3>5. CASE u # t
      <4>1. task[u].at = "remove" /\ Head(task[u].todo) = a
        BY <3>5, <1>0 DEF Moves
      <4>2. Covered(a) \/ TakenOver(a)
        BY <4>1, <3>1, <2>a DEF ProvenFirst
      <4> QED  BY <4>2, <3>2, <3>3
    <3> QED  BY <3>4, <3>5
  <2>9. InUseReach'
    BY <1>0, <2>a, <2>b DEF Ranges, Moves, InUseReach, Kept, Covered, TakenOver, InUse
  <2> QED  BY <2>1, <2>2, <2>3, <2>4, <2>5, <2>6, <2>7, <2>8, <2>9 DEF Reachable
<1> QED  BY <1>1, <1>2, <1>3, <1>4, <1>5, <1>6, <1>7 DEF IdentityInv, Identified

LEMMA GiveUpDoes ==
  ASSUME Identified, NEW t \in Task, GiveUp(t)
  PROVE  /\ task[t].at = "prove"
         /\ (task'[t].at = "idle" \/ (task'[t].at = "prove" /\ task'[t].todo # <<>>))
         /\ Moves(t) /\ UNCHANGED <<called, registered, accepted, secretsAt, pfx, clientId, pool, stored, bridged, certs, setupFaults, setupStops, rotationsCrossed, halfway>>
<1>a. IdentityTables /\ IdentityNumbers /\ IdentitySets /\ IdentityFlags /\ IdentityNames /\ TaskReady
  BY DEF Identified
<1>1. task[t] \in TaskRecord /\ task[t].at = "prove" /\ task[t].todo # <<>> /\ task[t].todo \in Seq(App)
  BY <1>a DEF GiveUp, IdentityTables, TaskReady, TaskRecord
<1>2. NextToProve(task[t]) \in TaskRecord
      /\ (NextToProve(task[t]).at = "idle" \/ (NextToProve(task[t]).at = "prove" /\ NextToProve(task[t]).todo # <<>>))
  BY <1>1, NextIs
<1>3. task' = [task EXCEPT ![t] = NextToProve(task[t])]
  BY DEF GiveUp, NextApp
<1>4. Moves(t) /\ task'[t] = NextToProve(task[t])
  BY <1>2, <1>3, <1>a, MovesTo
<1> QED  BY <1>1, <1>2, <1>4 DEF GiveUp, entra, gateway

LEMMA GiveUpKeeps ==
  ASSUME IdentityInv, NEW t \in Task, GiveUp(t)
  PROVE  IdentityInv'
<1>0. /\ task[t].at = "prove"
      /\ (task'[t].at = "idle" \/ (task'[t].at = "prove" /\ task'[t].todo # <<>>))
      /\ Moves(t) /\ UNCHANGED <<called, registered, accepted, secretsAt, pfx, clientId, pool, stored, bridged, certs, setupFaults, setupStops, rotationsCrossed, halfway>>
  BY GiveUpDoes DEF IdentityInv
<1>a. /\ IdentityTables /\ IdentityNumbers /\ IdentitySets /\ IdentityFlags
      /\ IdentityNames /\ TaskReady
  BY DEF IdentityInv, Identified
<1>1. IdentityTables'
  BY <1>0, <1>a DEF IdentityTables, Moves
<1>2. IdentityNumbers'
  BY <1>0, <1>a DEF IdentityNumbers, TaskReady, IdentityTables, TaskRecord
<1>3. IdentitySets'
  BY <1>0, <1>a DEF IdentitySets
<1>4. IdentityFlags'
  BY <1>0, <1>a DEF IdentityFlags
<1>5. IdentityNames'
  BY <1>0, <1>a, NamesStay
<1>6. TaskReady'
  BY <1>0, <1>a DEF TaskReady, IdentityNumbers, Moves
<1>7. ASSUME Unharmed'  PROVE Reachable'
  <2>0. Unharmed
    BY <1>0, <1>7 DEF Unharmed
  <2>a. /\ OneRotates /\ AcceptedLater /\ RegisteredLater /\ NewestUnderWay /\ AddsToPool
        /\ Spreads /\ SecretsWhole /\ ProvenFirst /\ InUseReach
    BY <2>0 DEF IdentityInv, Reachable
  <2>b. Ranges
    BY <1>a, RangesHold
  <2>1. OneRotates'
    BY <1>0, <2>a, <2>b DEF Ranges, Moves, OneRotates, Rotating
  <2>2. AcceptedLater'
    BY <1>0, <2>a, <2>b DEF Ranges, Moves, AcceptedLater
  <2>3. RegisteredLater'
    BY <1>0, <2>a, <2>b DEF Ranges, Moves, RegisteredLater, Kept
  <2>4. NewestUnderWay'
    BY <1>0, <2>a, <2>b DEF Ranges, Moves, NewestUnderWay, OneRotates, Rotating
  <2>5. AddsToPool'
    BY <1>0, <2>a, <2>b DEF Ranges, Moves, AddsToPool, OneRotates, Rotating
  <2>6. Spreads'
    BY <1>0, <2>a, <2>b DEF Ranges, Moves, Spreads, InUse, OneRotates, Rotating
  <2>7. SecretsWhole'
    BY <1>0, <2>a, <2>b DEF Ranges, Moves, SecretsWhole
  <2>r. ProvenFirst' /\ InUseReach'
    <3>1. Kept' => Kept
      BY <1>0 DEF Kept, Moves
    <3>2. \A u \in Task : task'[u].at = "remove" =>
                            task[u].at = "remove" /\ Head(task'[u].todo) = Head(task[u].todo)
      BY <1>0 DEF Moves
    <3>3. ASSUME NEW a \in App, Covered(a) \/ TakenOver(a)  PROVE Covered(a)' \/ TakenOver(a)'
      <4>1. CASE Covered(a)
        BY <4>1, <1>0, <2>a, <2>b DEF Covered, AddsToPool, Ranges
      <4>2. CASE TakenOver(a)
        BY <4>2, <1>0, <2>a DEF Covered, TakenOver, Moves
      <4> QED  BY <3>3, <4>1, <4>2
    <3>4. \A a \in stored \ stored' : a \in InUse => (Kept => (Covered(a) \/ TakenOver(a)))
      BY <1>0, <2>a DEF ProvenFirst
    <3>5. InUse \subseteq App
      BY <1>a, InUseIs
    <3> QED  BY <1>0, <2>a, <3>1, <3>2, <3>3, <3>4, <3>5, ReachStays
  <2>8. ProvenFirst'
    BY <2>r
  <2>9. InUseReach'
    BY <2>r
  <2> QED  BY <2>1, <2>2, <2>3, <2>4, <2>5, <2>6, <2>7, <2>8, <2>9 DEF Reachable
<1> QED  BY <1>1, <1>2, <1>3, <1>4, <1>5, <1>6, <1>7 DEF IdentityInv, Identified

LEMMA RemoveSecretDoes ==
  ASSUME Identified, NEW t \in Task, RemoveSecret(t)
  PROVE  /\ task[t].at = "remove" /\ task' = task /\ secretsAt' \in [App -> SUBSET Secret]
         /\ (\A a \in App : a # Head(task[t].todo) => secretsAt'[a] = secretsAt[a])
         /\ UNCHANGED <<called, registered, accepted, pfx, clientId, pool, stored, bridged, certs, setupFaults, setupStops, rotationsCrossed, halfway>>
<1>a. IdentityTables /\ IdentityNumbers /\ IdentitySets /\ IdentityFlags /\ IdentityNames /\ TaskReady
  BY DEF Identified
<1>1. task[t].at = "remove" /\ task' = task
  BY DEF RemoveSecret
<1>2. Head(task[t].todo) \in App
  <2>1. task[t].todo # <<>> /\ task[t].todo \in Seq(App)
    BY <1>1, <1>a DEF IdentityTables, TaskReady, TaskRecord
  <2> QED  BY <2>1, ElementsOf
<1>3. PICK s : secretsAt' = [secretsAt EXCEPT ![Head(task[t].todo)] = @ \ {s}]
  BY DEF RemoveSecret
<1> QED  BY <1>1, <1>2, <1>3, <1>a DEF RemoveSecret, gateway, IdentityTables

LEMMA RemoveSecretKeeps ==
  ASSUME IdentityInv, NEW t \in Task, RemoveSecret(t)
  PROVE  IdentityInv'
<1>0. /\ task[t].at = "remove" /\ task' = task /\ secretsAt' \in [App -> SUBSET Secret]
      /\ (\A a \in App : a # Head(task[t].todo) => secretsAt'[a] = secretsAt[a])
      /\ UNCHANGED <<called, registered, accepted, pfx, clientId, pool, stored, bridged, certs, setupFaults, setupStops, rotationsCrossed, halfway>>
  BY RemoveSecretDoes DEF IdentityInv
<1>a. /\ IdentityTables /\ IdentityNumbers /\ IdentitySets /\ IdentityFlags
      /\ IdentityNames /\ TaskReady
  BY DEF IdentityInv, Identified
<1>1. IdentityTables'
  BY <1>0, <1>a DEF IdentityTables, Moves
<1>2. IdentityNumbers'
  BY <1>0, <1>a DEF IdentityNumbers, TaskReady, IdentityTables, TaskRecord
<1>3. IdentitySets'
  BY <1>0, <1>a DEF IdentitySets
<1>4. IdentityFlags'
  BY <1>0, <1>a DEF IdentityFlags
<1>5. IdentityNames'
  BY <1>0, <1>a DEF IdentityNames, Moves
<1>6. TaskReady'
  BY <1>0, <1>a DEF TaskReady, IdentityNumbers, Moves
<1>7. ASSUME Unharmed'  PROVE Reachable'
  <2>0. Unharmed
    BY <1>0, <1>7 DEF Unharmed
  <2>a. /\ OneRotates /\ AcceptedLater /\ RegisteredLater /\ NewestUnderWay /\ AddsToPool
        /\ Spreads /\ SecretsWhole /\ ProvenFirst /\ InUseReach
    BY <2>0 DEF IdentityInv, Reachable
  <2>b. Ranges
    BY <1>a, RangesHold
  <2>1. OneRotates'
    BY <1>0, <2>a, <2>b DEF Ranges, Moves, OneRotates, Rotating
  <2>2. AcceptedLater'
    BY <1>0, <2>a, <2>b DEF Ranges, Moves, AcceptedLater
  <2>3. RegisteredLater'
    BY <1>0, <2>a, <2>b DEF Ranges, Moves, RegisteredLater, Kept
  <2>4. NewestUnderWay'
    BY <1>0, <2>a, <2>b DEF Ranges, Moves, NewestUnderWay, OneRotates, Rotating
  <2>5. AddsToPool'
    BY <1>0, <2>a, <2>b DEF Ranges, Moves, AddsToPool, OneRotates, Rotating
  <2>6. Spreads'
    BY <1>0, <2>a, <2>b DEF Ranges, Moves, Spreads, InUse, OneRotates, Rotating
  <2>7. SecretsWhole'
    <3> SUFFICES ASSUME NEW a \in stored
                 PROVE  \/ secretsAt'[a] = Secret
                        \/ \E u \in Task : task[u].at = "remove" /\ Head(task[u].todo) = a
      BY <1>0 DEF SecretsWhole
    <3>1. a \in App
      BY <1>a DEF IdentitySets
    <3>2. CASE a = Head(task[t].todo)
      BY <3>2, <1>0
    <3>3. CASE a # Head(task[t].todo)
      BY <3>1, <3>3, <1>0, <2>a DEF SecretsWhole
    <3> QED  BY <3>2, <3>3
  <2>r. ProvenFirst' /\ InUseReach'
    <3>1. Kept' => Kept
      BY <1>0 DEF Kept, Moves
    <3>2. \A u \in Task : task'[u].at = "remove" =>
                            task[u].at = "remove" /\ Head(task'[u].todo) = Head(task[u].todo)
      BY <1>0 DEF Moves
    <3>3. ASSUME NEW a \in App, Covered(a) \/ TakenOver(a)  PROVE Covered(a)' \/ TakenOver(a)'
      <4>1. CASE Covered(a)
        BY <4>1, <1>0, <2>a, <2>b DEF Covered, AddsToPool, Ranges
      <4>2. CASE TakenOver(a)
        BY <4>2, <1>0, <2>a DEF Covered, TakenOver, Moves
      <4> QED  BY <3>3, <4>1, <4>2
    <3>4. \A a \in stored \ stored' : a \in InUse => (Kept => (Covered(a) \/ TakenOver(a)))
      BY <1>0, <2>a DEF ProvenFirst
    <3>5. InUse \subseteq App
      BY <1>a, InUseIs
    <3> QED  BY <1>0, <2>a, <3>1, <3>2, <3>3, <3>4, <3>5, ReachStays
  <2>8. ProvenFirst'
    BY <2>r
  <2>9. InUseReach'
    BY <2>r
  <2> QED  BY <2>1, <2>2, <2>3, <2>4, <2>5, <2>6, <2>7, <2>8, <2>9 DEF Reachable
<1> QED  BY <1>1, <1>2, <1>3, <1>4, <1>5, <1>6, <1>7 DEF IdentityInv, Identified

LEMMA ForgetSecretDoes ==
  ASSUME Identified, NEW t \in Task, ForgetSecret(t)
  PROVE  /\ task[t].at = "remove" /\ stored' = stored \ {Head(task[t].todo)} /\ bridged' = {}
         /\ (task'[t].at = "idle" \/ (task'[t].at = "prove" /\ task'[t].todo # <<>>))
         /\ Moves(t) /\ UNCHANGED <<called, registered, accepted, secretsAt, pfx, clientId, pool, certs, setupFaults, setupStops, rotationsCrossed, halfway>>
<1>a. IdentityTables /\ IdentityNumbers /\ IdentitySets /\ IdentityFlags /\ IdentityNames /\ TaskReady
  BY DEF Identified
<1>1. task[t] \in TaskRecord /\ task[t].at = "remove" /\ task[t].todo # <<>> /\ task[t].todo \in Seq(App)
  BY <1>a DEF ForgetSecret, IdentityTables, TaskReady, TaskRecord
<1>2. NextToProve(task[t]) \in TaskRecord
      /\ (NextToProve(task[t]).at = "idle" \/ (NextToProve(task[t]).at = "prove" /\ NextToProve(task[t]).todo # <<>>))
  BY <1>1, NextIs
<1>3. task' = [task EXCEPT ![t] = NextToProve(task[t])]
  BY DEF ForgetSecret, NextApp
<1>4. Moves(t) /\ task'[t] = NextToProve(task[t])
  BY <1>2, <1>3, <1>a, MovesTo
<1> QED  BY <1>1, <1>2, <1>4 DEF ForgetSecret, entra, BridgedEmptied

LEMMA ForgetSecretKeeps ==
  ASSUME IdentityInv, NEW t \in Task, ForgetSecret(t)
  PROVE  IdentityInv'
<1>0. /\ task[t].at = "remove" /\ stored' = stored \ {Head(task[t].todo)} /\ bridged' = {}
      /\ (task'[t].at = "idle" \/ (task'[t].at = "prove" /\ task'[t].todo # <<>>))
      /\ Moves(t) /\ UNCHANGED <<called, registered, accepted, secretsAt, pfx, clientId, pool, certs, setupFaults, setupStops, rotationsCrossed, halfway>>
  BY ForgetSecretDoes DEF IdentityInv
<1>a. /\ IdentityTables /\ IdentityNumbers /\ IdentitySets /\ IdentityFlags
      /\ IdentityNames /\ TaskReady
  BY DEF IdentityInv, Identified
<1>1. IdentityTables'
  BY <1>0, <1>a DEF IdentityTables, Moves
<1>2. IdentityNumbers'
  BY <1>0, <1>a DEF IdentityNumbers, TaskReady, IdentityTables, TaskRecord
<1>3. IdentitySets'
  BY <1>0, <1>a DEF IdentitySets
<1>4. IdentityFlags'
  BY <1>0, <1>a DEF IdentityFlags
<1>5. IdentityNames'
  BY <1>0, <1>a, NamesStay
<1>6. TaskReady'
  BY <1>0, <1>a DEF TaskReady, IdentityNumbers, Moves
<1>7. ASSUME Unharmed'  PROVE Reachable'
  <2>0. Unharmed
    BY <1>0, <1>7 DEF Unharmed
  <2>a. /\ OneRotates /\ AcceptedLater /\ RegisteredLater /\ NewestUnderWay /\ AddsToPool
        /\ Spreads /\ SecretsWhole /\ ProvenFirst /\ InUseReach
    BY <2>0 DEF IdentityInv, Reachable
  <2>b. Ranges
    BY <1>a, RangesHold
  <2>1. OneRotates'
    BY <1>0, <2>a, <2>b DEF Ranges, Moves, OneRotates, Rotating
  <2>2. AcceptedLater'
    BY <1>0, <2>a, <2>b DEF Ranges, Moves, AcceptedLater
  <2>3. RegisteredLater'
    BY <1>0, <2>a, <2>b DEF Ranges, Moves, RegisteredLater, Kept
  <2>4. NewestUnderWay'
    BY <1>0, <2>a, <2>b DEF Ranges, Moves, NewestUnderWay, OneRotates, Rotating
  <2>5. AddsToPool'
    BY <1>0, <2>a, <2>b DEF Ranges, Moves, AddsToPool, OneRotates, Rotating
  <2>6. Spreads'
    BY <1>0, <2>a, <2>b DEF Ranges, Moves, Spreads, InUse, OneRotates, Rotating
  <2>7. SecretsWhole'
    BY <1>0, <2>a, <2>b DEF Ranges, Moves, SecretsWhole
  <2>r. ProvenFirst' /\ InUseReach'
    <3>1. Kept' => Kept
      BY <1>0 DEF Kept, Moves
    <3>2. \A u \in Task : task'[u].at = "remove" =>
                            task[u].at = "remove" /\ Head(task'[u].todo) = Head(task[u].todo)
      BY <1>0 DEF Moves
    <3>3. ASSUME NEW a \in App, Covered(a) \/ TakenOver(a)  PROVE Covered(a)' \/ TakenOver(a)'
      <4>1. CASE Covered(a)
        BY <4>1, <1>0, <2>a, <2>b DEF Covered, AddsToPool, Ranges
      <4>2. CASE TakenOver(a)
        BY <4>2, <1>0, <2>a DEF Covered, TakenOver, Moves
      <4> QED  BY <3>3, <4>1, <4>2
    <3>4. \A a \in stored \ stored' : a \in InUse => (Kept => (Covered(a) \/ TakenOver(a)))
      BY <1>0, <2>a DEF ProvenFirst
    <3>5. InUse \subseteq App
      BY <1>a, InUseIs
    <3> QED  BY <1>0, <2>a, <3>1, <3>2, <3>3, <3>4, <3>5, ReachStays
  <2>8. ProvenFirst'
    BY <2>r
  <2>9. InUseReach'
    BY <2>r
  <2> QED  BY <2>1, <2>2, <2>3, <2>4, <2>5, <2>6, <2>7, <2>8, <2>9 DEF Reachable
<1> QED  BY <1>1, <1>2, <1>3, <1>4, <1>5, <1>6, <1>7 DEF IdentityInv, Identified

LEMMA SecretRemovalFailsDoes ==
  ASSUME Identified, NEW t \in Task, SecretRemovalFails(t)
  PROVE  /\ task[t].at = "remove" /\ setupFaults' = setupFaults + 1 /\ halfway' \in BOOLEAN
         /\ (~halfway' => (~halfway /\ ~LeavesHalf(t)))
         /\ (task'[t].at = "idle" \/ (task'[t].at = "prove" /\ task'[t].todo # <<>>))
         /\ Moves(t) /\ UNCHANGED <<called, registered, accepted, secretsAt, pfx, clientId, pool, stored, bridged, certs, setupStops, rotationsCrossed>>
<1>a. IdentityTables /\ IdentityNumbers /\ IdentitySets /\ IdentityFlags /\ IdentityNames /\ TaskReady
  BY DEF Identified
<1>1. task[t] \in TaskRecord /\ task[t].at = "remove" /\ task[t].todo # <<>> /\ task[t].todo \in Seq(App)
  BY <1>a DEF SecretRemovalFails, IdentityTables, TaskReady, TaskRecord
<1>2. NextToProve(task[t]) \in TaskRecord
      /\ (NextToProve(task[t]).at = "idle" \/ (NextToProve(task[t]).at = "prove" /\ NextToProve(task[t]).todo # <<>>))
  BY <1>1, NextIs
<1>3. task' = [task EXCEPT ![t] = NextToProve(task[t])]
  BY DEF SecretRemovalFails, NextApp
<1>4. Moves(t) /\ task'[t] = NextToProve(task[t])
  BY <1>2, <1>3, <1>a, MovesTo
<1>5. halfway' \in BOOLEAN /\ (~halfway' => ~halfway /\ ~LeavesHalf(t))
  BY <1>a DEF SecretRemovalFails, IdentityFlags
<1> QED  BY <1>1, <1>2, <1>4, <1>5 DEF SecretRemovalFails, entra, gateway

LEMMA SecretRemovalFailsKeeps ==
  ASSUME IdentityInv, NEW t \in Task, SecretRemovalFails(t)
  PROVE  IdentityInv'
<1>0. /\ task[t].at = "remove" /\ setupFaults' = setupFaults + 1 /\ halfway' \in BOOLEAN
      /\ (~halfway' => (~halfway /\ ~LeavesHalf(t)))
      /\ (task'[t].at = "idle" \/ (task'[t].at = "prove" /\ task'[t].todo # <<>>))
      /\ Moves(t) /\ UNCHANGED <<called, registered, accepted, secretsAt, pfx, clientId, pool, stored, bridged, certs, setupStops, rotationsCrossed>>
  BY SecretRemovalFailsDoes DEF IdentityInv
<1>a. /\ IdentityTables /\ IdentityNumbers /\ IdentitySets /\ IdentityFlags
      /\ IdentityNames /\ TaskReady
  BY DEF IdentityInv, Identified
<1>1. IdentityTables'
  BY <1>0, <1>a DEF IdentityTables, Moves
<1>2. IdentityNumbers'
  BY <1>0, <1>a DEF IdentityNumbers, TaskReady, IdentityTables, TaskRecord
<1>3. IdentitySets'
  BY <1>0, <1>a DEF IdentitySets
<1>4. IdentityFlags'
  BY <1>0, <1>a DEF IdentityFlags
<1>5. IdentityNames'
  BY <1>0, <1>a, NamesStay
<1>6. TaskReady'
  BY <1>0, <1>a DEF TaskReady, IdentityNumbers, Moves
<1>7. ASSUME Unharmed'  PROVE Reachable'
  <2>0. Unharmed /\ secretsAt[Head(task[t].todo)] = Secret
    BY <1>0, <1>7 DEF Unharmed, LeavesHalf
  <2>a. /\ OneRotates /\ AcceptedLater /\ RegisteredLater /\ NewestUnderWay /\ AddsToPool
        /\ Spreads /\ SecretsWhole /\ ProvenFirst /\ InUseReach
    BY <2>0 DEF IdentityInv, Reachable
  <2>b. Ranges
    BY <1>a, RangesHold
  <2>1. OneRotates'
    BY <1>0, <2>a, <2>b, <2>0 DEF Ranges, Moves, OneRotates, Rotating
  <2>2. AcceptedLater'
    BY <1>0, <2>a, <2>b, <2>0 DEF Ranges, Moves, AcceptedLater
  <2>3. RegisteredLater'
    BY <1>0, <2>a, <2>b, <2>0 DEF Ranges, Moves, RegisteredLater, Kept
  <2>4. NewestUnderWay'
    BY <1>0, <2>a, <2>b, <2>0 DEF Ranges, Moves, NewestUnderWay, OneRotates, Rotating
  <2>5. AddsToPool'
    BY <1>0, <2>a, <2>b, <2>0 DEF Ranges, Moves, AddsToPool, OneRotates, Rotating
  <2>6. Spreads'
    BY <1>0, <2>a, <2>b, <2>0 DEF Ranges, Moves, Spreads, InUse, OneRotates, Rotating
  <2>7. SecretsWhole'
    BY <1>0, <2>a, <2>b, <2>0 DEF Ranges, Moves, SecretsWhole
  <2>r. ProvenFirst' /\ InUseReach'
    <3>1. Kept' => Kept
      BY <1>0, <2>0 DEF Kept, Moves
    <3>2. \A u \in Task : task'[u].at = "remove" =>
                            task[u].at = "remove" /\ Head(task'[u].todo) = Head(task[u].todo)
      BY <1>0 DEF Moves
    <3>3. ASSUME NEW a \in App, Covered(a) \/ TakenOver(a)  PROVE Covered(a)' \/ TakenOver(a)'
      <4>1. CASE Covered(a)
        BY <4>1, <1>0, <2>a, <2>b, <2>0 DEF Covered, AddsToPool, Ranges
      <4>2. CASE TakenOver(a)
        BY <4>2, <1>0, <2>a, <2>0 DEF Covered, TakenOver, Moves
      <4> QED  BY <3>3, <4>1, <4>2
    <3>4. \A a \in stored \ stored' : a \in InUse => (Kept => (Covered(a) \/ TakenOver(a)))
      BY <1>0, <2>a DEF ProvenFirst
    <3>5. InUse \subseteq App
      BY <1>a, InUseIs
    <3> QED  BY <1>0, <2>a, <3>1, <3>2, <3>3, <3>4, <3>5, ReachStays
  <2>8. ProvenFirst'
    BY <2>r
  <2>9. InUseReach'
    BY <2>r
  <2> QED  BY <2>1, <2>2, <2>3, <2>4, <2>5, <2>6, <2>7, <2>8, <2>9 DEF Reachable
<1> QED  BY <1>1, <1>2, <1>3, <1>4, <1>5, <1>6, <1>7 DEF IdentityInv, Identified

LEMMA BeginPoolAppDoes ==
  ASSUME Identified, NEW t \in Task, BeginPoolApp(t)
  PROVE  /\ task[t].at = "idle" /\ task'[t].at = "pool_look" /\ pfx # 0
         /\ task'[t].todo = pool /\ task'[t].cert = pfx /\ rotationsCrossed' \in BOOLEAN
         /\ (~rotationsCrossed' => (~rotationsCrossed /\ \A u \in Task \ {t} : ~Rotating(u)))
         /\ Moves(t) /\ UNCHANGED <<called, registered, accepted, secretsAt, pfx, clientId, pool, stored, bridged, certs, setupFaults, setupStops, halfway>>
<1>a. IdentityTables /\ IdentityNumbers /\ IdentitySets /\ IdentityFlags /\ IdentityNames /\ TaskReady
  BY DEF Identified
<1> DEFINE r == [at |-> "pool_look", app |-> 0, cert |-> pfx, todo |-> pool]
<1>1. task[t].at = "idle" /\ pfx # 0 /\ task' = [task EXCEPT ![t] = r]
  BY IdleIs DEF BeginPoolApp
<1>2. r \in TaskRecord
  BY <1>a DEF TaskRecord, IdentitySets, IdentityNumbers
<1>3. r.at = "pool_look" /\ r.todo = pool /\ r.cert = pfx
  OBVIOUS
<1>4. Moves(t) /\ task'[t] = r
  <2> HIDE DEF r
  <2> QED  BY <1>1, <1>2, <1>a, MovesTo
<1>5. rotationsCrossed' \in BOOLEAN /\ (~rotationsCrossed' => (~rotationsCrossed /\ \A u \in Task \ {t} : ~Rotating(u)))
  BY <1>a DEF BeginPoolApp, NotesCrossing, IdentityFlags
<1> HIDE DEF r
<1> QED  BY <1>1, <1>3, <1>4, <1>5 DEF BeginPoolApp, entra, gateway

LEMMA BeginPoolAppKeeps ==
  ASSUME IdentityInv, NEW t \in Task, BeginPoolApp(t)
  PROVE  IdentityInv'
<1>0. /\ task[t].at = "idle" /\ task'[t].at = "pool_look" /\ pfx # 0
      /\ task'[t].todo = pool /\ task'[t].cert = pfx /\ rotationsCrossed' \in BOOLEAN
      /\ (~rotationsCrossed' => (~rotationsCrossed /\ \A u \in Task \ {t} : ~Rotating(u)))
      /\ Moves(t) /\ UNCHANGED <<called, registered, accepted, secretsAt, pfx, clientId, pool, stored, bridged, certs, setupFaults, setupStops, halfway>>
  BY BeginPoolAppDoes DEF IdentityInv
<1>a. /\ IdentityTables /\ IdentityNumbers /\ IdentitySets /\ IdentityFlags
      /\ IdentityNames /\ TaskReady
  BY DEF IdentityInv, Identified
<1>1. IdentityTables'
  BY <1>0, <1>a DEF IdentityTables, Moves
<1>2. IdentityNumbers'
  BY <1>0, <1>a DEF IdentityNumbers, TaskReady, IdentityTables, TaskRecord
<1>3. IdentitySets'
  BY <1>0, <1>a DEF IdentitySets
<1>4. IdentityFlags'
  BY <1>0, <1>a DEF IdentityFlags
<1>5. IdentityNames'
  <2>1. \A i \in 1..Len(pool) : called[pool[i]] = i + 1
    BY <1>a DEF IdentityNames
  <2>2. ASSUME NEW u \in Task, task'[u].at \in {"pool_look", "pool_upload", "append"}
        PROVE  \A i \in 1..Len(task'[u].todo) : called[task'[u].todo[i]] = i + 1
    <3>1. CASE u = t  BY <3>1, <2>1, <1>0
    <3>2. CASE u # t
      <4>1. task'[u] = task[u]
        BY <3>2, <1>0 DEF Moves
      <4> QED  BY <4>1, <2>2, <1>a DEF IdentityNames
    <3> QED  BY <3>1, <3>2
  <2>3. ASSUME NEW u \in Task, task'[u].at \in {"pool_upload", "append"}
        PROVE  called[task'[u].app] = Len(task'[u].todo) + 2
    <3>1. task'[u] = task[u]
      BY <2>3, <1>0 DEF Moves
    <3> QED  BY <3>1, <2>3, <1>a DEF IdentityNames
  <2>4. called \in [App -> 0..(MaxApp + 1)]
    BY <1>a DEF IdentityNames
  <2> QED  BY <1>0, <2>1, <2>2, <2>3, <2>4 DEF IdentityNames
<1>6. TaskReady'
  BY <1>0, <1>a DEF TaskReady, IdentityNumbers, Moves
<1>7. ASSUME Unharmed'  PROVE Reachable'
  <2>0. Unharmed /\ \A u \in Task \ {t} : ~Rotating(u)
    BY <1>0, <1>7 DEF Unharmed
  <2>a. /\ OneRotates /\ AcceptedLater /\ RegisteredLater /\ NewestUnderWay /\ AddsToPool
        /\ Spreads /\ SecretsWhole /\ ProvenFirst /\ InUseReach
    BY <2>0 DEF IdentityInv, Reachable
  <2>b. Ranges
    BY <1>a, RangesHold
  <2>1. OneRotates'
    BY <1>0, <2>a, <2>b, <2>0 DEF Ranges, Moves, OneRotates, Rotating
  <2>2. AcceptedLater'
    BY <1>0, <2>a, <2>b, <2>0 DEF Ranges, Moves, AcceptedLater
  <2>3. RegisteredLater'
    BY <1>0, <2>a, <2>b, <2>0 DEF Ranges, Moves, RegisteredLater, Kept
  <2>4. NewestUnderWay'
    BY <1>0, <2>a, <2>b, <2>0 DEF Ranges, Moves, NewestUnderWay, OneRotates, Rotating
  <2>5. AddsToPool'
    BY <1>0, <2>a, <2>b, <2>0 DEF Ranges, Moves, AddsToPool, OneRotates, Rotating
  <2>6. Spreads'
    BY <1>0, <2>a, <2>b, <2>0 DEF Ranges, Moves, Spreads, InUse, OneRotates, Rotating
  <2>7. SecretsWhole'
    BY <1>0, <2>a, <2>b, <2>0 DEF Ranges, Moves, SecretsWhole
  <2>r. ProvenFirst' /\ InUseReach'
    <3>1. Kept' => Kept
      BY <1>0, <2>0 DEF Kept, Moves
    <3>2. \A u \in Task : task'[u].at = "remove" =>
                            task[u].at = "remove" /\ Head(task'[u].todo) = Head(task[u].todo)
      BY <1>0 DEF Moves
    <3>3. ASSUME NEW a \in App, Covered(a) \/ TakenOver(a)  PROVE Covered(a)' \/ TakenOver(a)'
      <4>1. CASE Covered(a)
        BY <4>1, <1>0, <2>a, <2>b, <2>0 DEF Covered, AddsToPool, Ranges
      <4>2. CASE TakenOver(a)
        BY <4>2, <1>0, <2>a, <2>0 DEF Covered, TakenOver, Moves
      <4> QED  BY <3>3, <4>1, <4>2
    <3>4. \A a \in stored \ stored' : a \in InUse => (Kept => (Covered(a) \/ TakenOver(a)))
      BY <1>0, <2>a DEF ProvenFirst
    <3>5. InUse \subseteq App
      BY <1>a, InUseIs
    <3> QED  BY <1>0, <2>a, <3>1, <3>2, <3>3, <3>4, <3>5, ReachStays
  <2>8. ProvenFirst'
    BY <2>r
  <2>9. InUseReach'
    BY <2>r
  <2> QED  BY <2>1, <2>2, <2>3, <2>4, <2>5, <2>6, <2>7, <2>8, <2>9 DEF Reachable
<1> QED  BY <1>1, <1>2, <1>3, <1>4, <1>5, <1>6, <1>7 DEF IdentityInv, Identified

LEMMA CreatePoolAppDoes ==
  ASSUME Identified, NEW t \in Task, CreatePoolApp(t)
  PROVE  /\ task[t].at = "pool_look" /\ task'[t].at = "pool_upload" /\ task'[t].app \in App
         /\ task'[t].todo = task[t].todo /\ task'[t].cert = task[t].cert
         /\ called' \in [App -> 0..(MaxApp + 1)] /\ (\A a \in App : called[a] # 0 => called'[a] = called[a])
         /\ called'[task'[t].app] = Len(task[t].todo) + 2
         /\ Moves(t) /\ UNCHANGED <<registered, accepted, secretsAt, pfx, clientId, pool, stored, bridged, certs, setupFaults, setupStops, rotationsCrossed, halfway>>
<1>a. IdentityTables /\ IdentityNumbers /\ IdentitySets /\ IdentityFlags /\ IdentityNames /\ TaskReady
  BY DEF Identified
<1> DEFINE n == Len(task[t].todo) + 2
<1>1. task[t] \in TaskRecord /\ task[t].at = "pool_look" /\ task[t].todo \in Seq(App)
  BY <1>a DEF CreatePoolApp, IdentityTables, TaskRecord
<1>2. ASSUME NEW a \in App, task' = [task EXCEPT ![t] = [@ EXCEPT !.at = "pool_upload", !.app = a]]
      PROVE  /\ Moves(t) /\ task'[t].at = "pool_upload" /\ task'[t].app = a
             /\ task'[t].todo = task[t].todo /\ task'[t].cert = task[t].cert
  <2>1. [task[t] EXCEPT !.at = "pool_upload", !.app = a] \in TaskRecord
    <3>1. a \in 0..MaxApp
      BY DEF App
    <3> QED  BY <1>1, <3>1 DEF TaskRecord
  <2>2. task' = [task EXCEPT ![t] = [task[t] EXCEPT !.at = "pool_upload", !.app = a]]
    BY <1>2
  <2>3. Moves(t) /\ task'[t] = [task[t] EXCEPT !.at = "pool_upload", !.app = a]
    BY <2>1, <2>2, <1>a, MovesTo
  <2> QED  BY <1>1, <2>3 DEF TaskRecord
<1>3. called \in [App -> 0..(MaxApp + 1)] /\ n \in Nat /\ n # 0
  BY <1>1, <1>a DEF IdentityNames
<1>4. CASE \E a \in Named(n) :
             /\ task' = [task EXCEPT ![t] = [@ EXCEPT !.at = "pool_upload", !.app = a]]
             /\ UNCHANGED called
  <2>1. PICK a \in App : /\ called[a] = n
                         /\ task' = [task EXCEPT ![t] = [@ EXCEPT !.at = "pool_upload", !.app = a]]
                         /\ called' = called
    BY <1>4 DEF Named
  <2> QED  BY <1>1, <1>2, <1>3, <2>1 DEF CreatePoolApp, gateway
<1>5. CASE /\ CanRegister /\ called' = [called EXCEPT ![FreshApp] = n]
           /\ task' = [task EXCEPT ![t] = [@ EXCEPT !.at = "pool_upload", !.app = FreshApp]]
  <2>1. FreshApp \in App /\ called[FreshApp] = 0
    BY <1>5, <1>a, FreshIs
  <2>2. \A i \in 1..Len(task[t].todo) : called[task[t].todo[i]] = i + 1
    BY <1>1, <1>a DEF IdentityNames
  <2>3. n \in 0..(MaxApp + 1)
    <3>1. n <= MaxApp + 1
      BY <1>1, <2>1, <2>2, IndexFits
    <3> QED  BY <1>3, <3>1
  <2>4. /\ called' \in [App -> 0..(MaxApp + 1)] /\ called'[FreshApp] = n
        /\ \A a \in App : called[a] # 0 => called'[a] = called[a]
    BY <1>3, <1>5, <2>1, <2>3
  <2>5. /\ Moves(t) /\ task'[t].at = "pool_upload" /\ task'[t].app = FreshApp
        /\ task'[t].todo = task[t].todo /\ task'[t].cert = task[t].cert
    BY <1>2, <1>5, <2>1
  <2> QED  BY <1>1, <2>1, <2>4, <2>5 DEF CreatePoolApp, gateway
<1> QED  BY <1>4, <1>5 DEF CreatePoolApp

LEMMA CreatePoolAppKeeps ==
  ASSUME IdentityInv, NEW t \in Task, CreatePoolApp(t)
  PROVE  IdentityInv'
<1>0. /\ task[t].at = "pool_look" /\ task'[t].at = "pool_upload" /\ task'[t].app \in App
      /\ task'[t].todo = task[t].todo /\ task'[t].cert = task[t].cert
      /\ called' \in [App -> 0..(MaxApp + 1)] /\ (\A a \in App : called[a] # 0 => called'[a] = called[a])
      /\ called'[task'[t].app] = Len(task[t].todo) + 2
      /\ Moves(t) /\ UNCHANGED <<registered, accepted, secretsAt, pfx, clientId, pool, stored, bridged, certs, setupFaults, setupStops, rotationsCrossed, halfway>>
  BY CreatePoolAppDoes DEF IdentityInv
<1>a. /\ IdentityTables /\ IdentityNumbers /\ IdentitySets /\ IdentityFlags
      /\ IdentityNames /\ TaskReady
  BY DEF IdentityInv, Identified
<1>1. IdentityTables'
  BY <1>0, <1>a DEF IdentityTables, Moves
<1>2. IdentityNumbers'
  BY <1>0, <1>a DEF IdentityNumbers, TaskReady, IdentityTables, TaskRecord
<1>3. IdentitySets'
  BY <1>0, <1>a DEF IdentitySets
<1>4. IdentityFlags'
  BY <1>0, <1>a DEF IdentityFlags
<1>5. IdentityNames'
  <2>1. ASSUME NEW s \in Seq(App), \A i \in 1..Len(s) : called[s[i]] = i + 1
        PROVE  \A i \in 1..Len(s) : called'[s[i]] = i + 1
    <3> SUFFICES ASSUME NEW i \in 1..Len(s)  PROVE called'[s[i]] = i + 1
      OBVIOUS
    <3>1. s[i] \in App /\ called[s[i]] = i + 1 /\ i + 1 # 0
      BY <2>1
    <3> QED  BY <3>1, <1>0
  <2>2. \A i \in 1..Len(pool) : called'[pool[i]] = i + 1
    BY <2>1, <1>a DEF IdentityNames, IdentitySets
  <2>3. ASSUME NEW u \in Task, task'[u].at \in {"pool_look", "pool_upload", "append"}
        PROVE  \A i \in 1..Len(task'[u].todo) : called'[task'[u].todo[i]] = i + 1
    <3>1. task[u].at \in {"pool_look", "pool_upload", "append"} /\ task'[u].todo = task[u].todo
      BY <2>3, <1>0 DEF Moves
    <3>2. task[u].todo \in Seq(App) /\ \A i \in 1..Len(task[u].todo) : called[task[u].todo[i]] = i + 1
      BY <3>1, <1>a DEF IdentityNames, IdentityTables, TaskRecord
    <3> QED  BY <2>1, <3>1, <3>2
  <2>4. ASSUME NEW u \in Task, task'[u].at \in {"pool_upload", "append"}
        PROVE  called'[task'[u].app] = Len(task'[u].todo) + 2
    <3>1. CASE u = t  BY <3>1, <1>0
    <3>2. CASE u # t
      <4>1. /\ task'[u] = task[u] /\ task[u] \in TaskRecord /\ task[u].app # 0
            /\ called[task[u].app] = Len(task[u].todo) + 2 /\ task[u].todo \in Seq(App)
        BY <3>2, <2>4, <1>0, <1>a DEF IdentityNames, IdentityTables, TaskReady, Moves, TaskRecord
      <4>2. task[u].app \in App /\ called[task[u].app] # 0
        BY <4>1 DEF TaskRecord, App
      <4> QED  BY <1>0, <4>1, <4>2
    <3> QED  BY <3>1, <3>2
  <2> QED  BY <1>0, <2>2, <2>3, <2>4 DEF IdentityNames
<1>6. TaskReady'
  <2>1. task'[t].app # 0
    BY <1>0 DEF App
  <2> QED  BY <1>0, <1>a, <2>1 DEF TaskReady, Moves
<1>7. ASSUME Unharmed'  PROVE Reachable'
  <2>0. Unharmed
    BY <1>0, <1>7 DEF Unharmed
  <2>a. /\ OneRotates /\ AcceptedLater /\ RegisteredLater /\ NewestUnderWay /\ AddsToPool
        /\ Spreads /\ SecretsWhole /\ ProvenFirst /\ InUseReach
    BY <2>0 DEF IdentityInv, Reachable
  <2>b. Ranges
    BY <1>a, RangesHold
  <2>1. OneRotates'
    BY <1>0, <2>a, <2>b DEF Ranges, Moves, OneRotates, Rotating
  <2>2. AcceptedLater'
    BY <1>0, <2>a, <2>b DEF Ranges, Moves, AcceptedLater
  <2>3. RegisteredLater'
    BY <1>0, <2>a, <2>b DEF Ranges, Moves, RegisteredLater, Kept
  <2>4. NewestUnderWay'
    BY <1>0, <2>a, <2>b DEF Ranges, Moves, NewestUnderWay, OneRotates, Rotating
  <2>5. AddsToPool'
    BY <1>0, <2>a, <2>b DEF Ranges, Moves, AddsToPool, OneRotates, Rotating
  <2>6. Spreads'
    BY <1>0, <2>a, <2>b DEF Ranges, Moves, Spreads, InUse, OneRotates, Rotating
  <2>7. SecretsWhole'
    BY <1>0, <2>a, <2>b DEF Ranges, Moves, SecretsWhole
  <2>r. ProvenFirst' /\ InUseReach'
    <3>1. Kept' => Kept
      BY <1>0 DEF Kept, Moves
    <3>2. \A u \in Task : task'[u].at = "remove" =>
                            task[u].at = "remove" /\ Head(task'[u].todo) = Head(task[u].todo)
      BY <1>0 DEF Moves
    <3>3. ASSUME NEW a \in App, Covered(a) \/ TakenOver(a)  PROVE Covered(a)' \/ TakenOver(a)'
      <4>1. CASE Covered(a)
        BY <4>1, <1>0, <2>a, <2>b DEF Covered, AddsToPool, Ranges
      <4>2. CASE TakenOver(a)
        BY <4>2, <1>0, <2>a DEF Covered, TakenOver, Moves
      <4> QED  BY <3>3, <4>1, <4>2
    <3>4. \A a \in stored \ stored' : a \in InUse => (Kept => (Covered(a) \/ TakenOver(a)))
      BY <1>0, <2>a DEF ProvenFirst
    <3>5. InUse \subseteq App
      BY <1>a, InUseIs
    <3> QED  BY <1>0, <2>a, <3>1, <3>2, <3>3, <3>4, <3>5, ReachStays
  <2>8. ProvenFirst'
    BY <2>r
  <2>9. InUseReach'
    BY <2>r
  <2> QED  BY <2>1, <2>2, <2>3, <2>4, <2>5, <2>6, <2>7, <2>8, <2>9 DEF Reachable
<1> QED  BY <1>1, <1>2, <1>3, <1>4, <1>5, <1>6, <1>7 DEF IdentityInv, Identified

LEMMA UploadPoolAppDoes ==
  ASSUME Identified, NEW t \in Task, UploadPoolApp(t)
  PROVE  /\ task[t].at = "pool_upload" /\ task'[t].at = "append"
         /\ task'[t].app = task[t].app /\ task'[t].todo = task[t].todo /\ task'[t].cert = task[t].cert
         /\ task[t].app \in App /\ registered' \in [App -> 0..MaxCert] /\ registered'[task[t].app] = task[t].cert
         /\ (\A a \in App : a # task[t].app => registered'[a] = registered[a])
         /\ Moves(t) /\ UNCHANGED <<called, accepted, secretsAt, pfx, clientId, pool, stored, bridged, certs, setupFaults, setupStops, rotationsCrossed, halfway>>
<1>a. IdentityTables /\ IdentityNumbers /\ IdentitySets /\ IdentityFlags /\ IdentityNames /\ TaskReady
  BY DEF Identified
<1>1. task[t] \in TaskRecord /\ task[t].at = "pool_upload" /\ task[t].app # 0
  BY <1>a DEF UploadPoolApp, IdentityTables, TaskReady
<1>2. [task[t] EXCEPT !.at = "append"] \in TaskRecord
  BY <1>1 DEF TaskRecord
<1>3. task' = [task EXCEPT ![t] = [task[t] EXCEPT !.at = "append"]]
  BY DEF UploadPoolApp, To
<1>4. Moves(t) /\ task'[t] = [task[t] EXCEPT !.at = "append"]
  BY <1>2, <1>3, <1>a, MovesTo
<1>5. /\ task'[t].at = "append" /\ task'[t].app = task[t].app
      /\ task'[t].todo = task[t].todo /\ task'[t].cert = task[t].cert
  BY <1>1, <1>4 DEF TaskRecord
<1>6. task[t].app \in App
  BY <1>1 DEF TaskRecord, App
<1>7. /\ registered' \in [App -> 0..MaxCert] /\ registered'[task[t].app] = task[t].cert
      /\ \A a \in App : a # task[t].app => registered'[a] = registered[a]
  BY <1>1, <1>6, <1>a DEF UploadPoolApp, RegisterApp, IdentityTables, TaskRecord
<1> QED  BY <1>1, <1>4, <1>5, <1>6, <1>7 DEF UploadPoolApp, RegisterApp, gateway

LEMMA UploadPoolAppKeeps ==
  ASSUME IdentityInv, NEW t \in Task, UploadPoolApp(t)
  PROVE  IdentityInv'
<1>0. /\ task[t].at = "pool_upload" /\ task'[t].at = "append"
      /\ task'[t].app = task[t].app /\ task'[t].todo = task[t].todo /\ task'[t].cert = task[t].cert
      /\ task[t].app \in App /\ registered' \in [App -> 0..MaxCert] /\ registered'[task[t].app] = task[t].cert
      /\ (\A a \in App : a # task[t].app => registered'[a] = registered[a])
      /\ Moves(t) /\ UNCHANGED <<called, accepted, secretsAt, pfx, clientId, pool, stored, bridged, certs, setupFaults, setupStops, rotationsCrossed, halfway>>
  BY UploadPoolAppDoes DEF IdentityInv
<1>a. /\ IdentityTables /\ IdentityNumbers /\ IdentitySets /\ IdentityFlags
      /\ IdentityNames /\ TaskReady
  BY DEF IdentityInv, Identified
<1>1. IdentityTables'
  BY <1>0, <1>a DEF IdentityTables, Moves
<1>2. IdentityNumbers'
  BY <1>0, <1>a DEF IdentityNumbers, TaskReady, IdentityTables, TaskRecord
<1>3. IdentitySets'
  BY <1>0, <1>a DEF IdentitySets
<1>4. IdentityFlags'
  BY <1>0, <1>a DEF IdentityFlags
<1>5. IdentityNames'
  <2>1. \A u \in Task :
                          /\ task'[u].todo = task[u].todo /\ task'[u].app = task[u].app
                          /\ task'[u].at \in {"pool_look", "pool_upload", "append"} =>
                               task[u].at \in {"pool_look", "pool_upload", "append"}
                          /\ task'[u].at \in {"pool_upload", "append"} =>
                               task[u].at \in {"pool_upload", "append"}
    BY <1>0 DEF Moves
  <2>2. /\ called \in [App -> 0..(MaxApp + 1)]
        /\ \A i \in 1..Len(pool) : called[pool[i]] = i + 1
    BY <1>a DEF IdentityNames
  <2>3. ASSUME NEW u \in Task, task'[u].at \in {"pool_look", "pool_upload", "append"}
        PROVE  \A i \in 1..Len(task'[u].todo) : called[task'[u].todo[i]] = i + 1
    <3>1. task[u].at \in {"pool_look", "pool_upload", "append"} /\ task'[u].todo = task[u].todo
      BY <2>1, <2>3
    <3>2. \A i \in 1..Len(task[u].todo) : called[task[u].todo[i]] = i + 1
      BY <3>1, <1>a DEF IdentityNames
    <3> QED  BY <3>1, <3>2
  <2>4. ASSUME NEW u \in Task, task'[u].at \in {"pool_upload", "append"}
        PROVE  called[task'[u].app] = Len(task'[u].todo) + 2
    <3>1. task[u].at \in {"pool_upload", "append"} /\ task'[u].todo = task[u].todo /\ task'[u].app = task[u].app
      BY <2>1, <2>4
    <3>2. called[task[u].app] = Len(task[u].todo) + 2
      BY <3>1, <1>a DEF IdentityNames
    <3> QED  BY <3>1, <3>2
  <2> QED  BY <1>0, <2>2, <2>3, <2>4 DEF IdentityNames
<1>6. TaskReady'
  BY <1>0, <1>a DEF TaskReady, IdentityNumbers, Moves
<1>7. ASSUME Unharmed'  PROVE Reachable'
  <2>0. Unharmed
    BY <1>0, <1>7 DEF Unharmed
  <2>a. /\ OneRotates /\ AcceptedLater /\ RegisteredLater /\ NewestUnderWay /\ AddsToPool
        /\ Spreads /\ SecretsWhole /\ ProvenFirst /\ InUseReach
    BY <2>0 DEF IdentityInv, Reachable
  <2>b. Ranges
    BY <1>a, RangesHold
  <2>1. OneRotates'
    BY <1>0, <2>a, <2>b DEF Ranges, Moves, OneRotates, Rotating
  <2>2. AcceptedLater'
    <3>1. Kept
      BY <1>0, <2>a DEF OneRotates, Rotating, Kept
    <3>2. task[t].cert = pfx
      BY <1>0, <2>a DEF AddsToPool
    <3>3. \A a \in App : registered[a] <= registered'[a] /\ registered'[a] \in Nat
      BY <1>0, <2>a, <2>b, <3>1, <3>2 DEF RegisteredLater, Ranges
    <3> QED  BY <1>0, <2>a, <2>b, <3>3 DEF AcceptedLater, Ranges
  <2>3. RegisteredLater'
    <3>1. Kept
      BY <1>0, <2>a DEF OneRotates, Rotating, Kept
    <3>2. task[t].cert = pfx
      BY <1>0, <2>a DEF AddsToPool
    <3>3. \A a \in App : registered'[a] <= pfx
      BY <1>0, <2>a, <2>b, <3>1, <3>2 DEF RegisteredLater, Ranges
    <3> QED  BY <1>0, <3>3 DEF RegisteredLater
  <2>4. NewestUnderWay'
    BY <1>0, <2>a, <2>b DEF Ranges, Moves, NewestUnderWay, OneRotates, Rotating
  <2>5. AddsToPool'
    BY <1>0, <2>a, <2>b DEF Ranges, Moves, AddsToPool, OneRotates, Rotating
  <2>6. Spreads'
    BY <1>0, <2>a, <2>b DEF Ranges, Moves, Spreads, InUse, OneRotates, Rotating
  <2>7. SecretsWhole'
    BY <1>0, <2>a, <2>b DEF Ranges, Moves, SecretsWhole
  <2>r. ProvenFirst' /\ InUseReach'
    <3>1. Kept' => Kept
      BY <1>0 DEF Kept, Moves
    <3>2. \A u \in Task : task'[u].at = "remove" =>
                            task[u].at = "remove" /\ Head(task'[u].todo) = Head(task[u].todo)
      BY <1>0 DEF Moves
    <3>3. ASSUME NEW a \in App, Covered(a) \/ TakenOver(a)  PROVE Covered(a)' \/ TakenOver(a)'
      <4>1. CASE Covered(a)
        BY <4>1, <1>0, <2>a, <2>b DEF Covered, AddsToPool, Ranges
      <4>2. CASE TakenOver(a)
        BY <4>2, <1>0, <2>a DEF Covered, TakenOver, Moves
      <4> QED  BY <3>3, <4>1, <4>2
    <3>4. \A a \in stored \ stored' : a \in InUse => (Kept => (Covered(a) \/ TakenOver(a)))
      BY <1>0, <2>a DEF ProvenFirst
    <3>5. InUse \subseteq App
      BY <1>a, InUseIs
    <3> QED  BY <1>0, <2>a, <3>1, <3>2, <3>3, <3>4, <3>5, ReachStays
  <2>8. ProvenFirst'
    BY <2>r
  <2>9. InUseReach'
    BY <2>r
  <2> QED  BY <2>1, <2>2, <2>3, <2>4, <2>5, <2>6, <2>7, <2>8, <2>9 DEF Reachable
<1> QED  BY <1>1, <1>2, <1>3, <1>4, <1>5, <1>6, <1>7 DEF IdentityInv, Identified

LEMMA AppendPoolAppDoes ==
  ASSUME Identified, NEW t \in Task, AppendPoolApp(t)
  PROVE  /\ task[t].at = "append" /\ task'[t].at = "idle" /\ bridged' = {}
         /\ task[t].app \in App /\ pool' = Append(task[t].todo, task[t].app)
         /\ task[t].todo \in Seq(App) /\ pool' \in Seq(App) /\ pool' # <<>>
         /\ (\A a \in Elements(pool') : a = task[t].app \/ a \in Elements(task[t].todo))
         /\ (\A i \in 1..Len(pool') : called[pool'[i]] = i + 1)
         /\ Moves(t) /\ UNCHANGED <<called, registered, accepted, secretsAt, pfx, clientId, stored, certs, setupFaults, setupStops, rotationsCrossed, halfway>>
<1>a. IdentityTables /\ IdentityNumbers /\ IdentitySets /\ IdentityFlags /\ IdentityNames /\ TaskReady
  BY DEF Identified
<1>1. task[t] \in TaskRecord /\ task[t].at = "append" /\ task[t].app # 0
  BY <1>a DEF AppendPoolApp, IdentityTables, TaskReady
<1>2. task' = [task EXCEPT ![t] = Idle]
  BY DEF AppendPoolApp
<1>3. Moves(t) /\ task'[t].at = "idle"
  BY <1>2, <1>a, IdleIs, MovesTo
<1>4. task[t].app \in App /\ task[t].todo \in Seq(App)
  BY <1>1 DEF TaskRecord, App
<1>5. /\ \A i \in 1..Len(task[t].todo) : called[task[t].todo[i]] = i + 1
      /\ called[task[t].app] = Len(task[t].todo) + 2
  BY <1>1, <1>a DEF IdentityNames
<1> DEFINE s == task[t].todo
           q == Append(s, task[t].app)
<1>6. /\ q \in Seq(App) /\ q # <<>> /\ Len(q) = Len(s) + 1
      /\ \A i \in 1..Len(s) : q[i] = s[i]
      /\ q[Len(s) + 1] = task[t].app
  BY <1>4, AppendProperties
<1>7. ASSUME NEW i \in 1..Len(q)  PROVE called[q[i]] = i + 1
  <2>0. i \in 1..Len(s) \/ i = Len(s) + 1
    BY <1>4, <1>6
  <2>1. CASE i \in 1..Len(s)
    BY <1>5, <1>6, <2>1
  <2>2. CASE i = Len(s) + 1
    BY <1>4, <1>5, <1>6, <2>2
  <2> QED  BY <2>0, <2>1, <2>2
<1>8. \A a \in Elements(q) : a = task[t].app \/ a \in Elements(s)
  BY <1>4, ElementsOfAppend
<1>9. pool' = q
  BY DEF AppendPoolApp
<1>10. task[t].at = "append" /\ bridged' = {} /\ UNCHANGED <<called, registered, accepted, secretsAt, pfx, clientId, stored, certs, setupFaults, setupStops, rotationsCrossed, halfway>>
  BY DEF AppendPoolApp, entra, BridgedEmptied
<1> HIDE DEF q
<1> QED  BY <1>3, <1>4, <1>6, <1>7, <1>8, <1>9, <1>10 DEF q

LEMMA AppendPoolAppKeeps ==
  ASSUME IdentityInv, NEW t \in Task, AppendPoolApp(t)
  PROVE  IdentityInv'
<1>0. /\ task[t].at = "append" /\ task'[t].at = "idle" /\ bridged' = {}
      /\ task[t].app \in App /\ pool' = Append(task[t].todo, task[t].app)
      /\ task[t].todo \in Seq(App) /\ pool' \in Seq(App) /\ pool' # <<>>
      /\ (\A a \in Elements(pool') : a = task[t].app \/ a \in Elements(task[t].todo))
      /\ (\A i \in 1..Len(pool') : called[pool'[i]] = i + 1)
      /\ Moves(t) /\ UNCHANGED <<called, registered, accepted, secretsAt, pfx, clientId, stored, certs, setupFaults, setupStops, rotationsCrossed, halfway>>
  BY AppendPoolAppDoes DEF IdentityInv
<1>a. /\ IdentityTables /\ IdentityNumbers /\ IdentitySets /\ IdentityFlags
      /\ IdentityNames /\ TaskReady
  BY DEF IdentityInv, Identified
<1>1. IdentityTables'
  BY <1>0, <1>a DEF IdentityTables, Moves
<1>2. IdentityNumbers'
  BY <1>0, <1>a DEF IdentityNumbers, TaskReady, IdentityTables, TaskRecord
<1>3. IdentitySets'
  BY <1>0, <1>a DEF IdentitySets
<1>4. IdentityFlags'
  BY <1>0, <1>a DEF IdentityFlags
<1>5. IdentityNames'
  <2>1. /\ called \in [App -> 0..(MaxApp + 1)]
        /\ \A u \in Task : task'[u].at \in {"pool_look", "pool_upload", "append"} => task'[u] = task[u]
    BY <1>0, <1>a DEF IdentityNames, Moves
  <2>3. ASSUME NEW u \in Task, task'[u].at \in {"pool_look", "pool_upload", "append"}
        PROVE  \A i \in 1..Len(task'[u].todo) : called[task'[u].todo[i]] = i + 1
    BY <2>1, <2>3, <1>a DEF IdentityNames
  <2>4. ASSUME NEW u \in Task, task'[u].at \in {"pool_upload", "append"}
        PROVE  called[task'[u].app] = Len(task'[u].todo) + 2
    BY <2>1, <2>4, <1>a DEF IdentityNames
  <2> QED  BY <1>0, <2>1, <2>3, <2>4 DEF IdentityNames
<1>6. TaskReady'
  BY <1>0, <1>a DEF TaskReady, IdentityNumbers, Moves
<1>7. ASSUME Unharmed'  PROVE Reachable'
  <2>0. Unharmed
    BY <1>0, <1>7 DEF Unharmed
  <2>a. /\ OneRotates /\ AcceptedLater /\ RegisteredLater /\ NewestUnderWay /\ AddsToPool
        /\ Spreads /\ SecretsWhole /\ ProvenFirst /\ InUseReach
    BY <2>0 DEF IdentityInv, Reachable
  <2>b. Ranges
    BY <1>a, RangesHold
  <2>1. OneRotates'
    BY <1>0, <2>a, <2>b DEF Ranges, Moves, OneRotates, Rotating
  <2>2. AcceptedLater'
    BY <1>0, <2>a, <2>b DEF Ranges, Moves, AcceptedLater
  <2>3. RegisteredLater'
    BY <1>0, <2>a, <2>b DEF Ranges, Moves, RegisteredLater, Kept
  <2>4. NewestUnderWay'
    BY <1>0, <2>a, <2>b DEF Ranges, Moves, NewestUnderWay, OneRotates, Rotating
  <2>5. AddsToPool'
    BY <1>0, <2>a, <2>b DEF Ranges, Moves, AddsToPool, OneRotates, Rotating
  <2>6. Spreads'
    BY <1>0, <2>a, <2>b DEF Ranges, Moves, Spreads, InUse, OneRotates, Rotating
  <2>7. SecretsWhole'
    BY <1>0, <2>a, <2>b DEF Ranges, Moves, SecretsWhole
  <2>8. ProvenFirst'
    <3>1. Kept /\ \A u \in Task \ {t} : task[u].at # "upload"
      BY <1>0, <2>a DEF OneRotates, Rotating, Kept
    <3>2. pool = task[t].todo /\ Covered(task[t].app)
      BY <1>0, <2>a DEF AddsToPool, Covered
    <3>3. \A a \in App : ~TakenOver(a)
      BY <1>0, <3>1 DEF TakenOver
    <3>4. \A a \in InUse' : a = task[t].app \/ a \in InUse
      <4>1. InUse' = Elements(pool')
        BY <1>0 DEF InUse
      <4>2. ASSUME NEW a \in Elements(pool), a \notin InUse  PROVE FALSE
        <5>1. pool = <<>>
          BY <4>2 DEF InUse
        <5>2. Elements(pool) = {}
          BY <5>1, <1>0, <3>2, ElementsOf
        <5> QED  BY <4>2, <5>2
      <4> QED  BY <1>0, <3>2, <4>1, <4>2
    <3>5. InUse \subseteq App
      BY <1>a, InUseIs
    <3>6. \A a \in App : Covered(a) => Covered(a)'
      BY <1>0 DEF Covered
    <3> SUFFICES ASSUME NEW u \in Task, NEW a \in InUse', task'[u].at = "remove", Head(task'[u].todo) = a
                 PROVE  Covered(a)'
      BY DEF ProvenFirst
    <3>7. task[u].at = "remove" /\ Head(task[u].todo) = a
      BY <1>0 DEF Moves
    <3>8. Covered(a) /\ a \in App
      BY <1>0, <2>a, <3>1, <3>2, <3>3, <3>4, <3>5, <3>7 DEF ProvenFirst
    <3> QED  BY <3>6, <3>8
  <2>9. InUseReach'
    <3>1. Kept /\ \A u \in Task \ {t} : task[u].at # "upload"
      BY <1>0, <2>a DEF OneRotates, Rotating, Kept
    <3>2. pool = task[t].todo /\ Covered(task[t].app)
      BY <1>0, <2>a DEF AddsToPool, Covered
    <3>3. \A a \in App : ~TakenOver(a)
      BY <1>0, <3>1 DEF TakenOver
    <3>4. \A a \in InUse' : a = task[t].app \/ a \in InUse
      <4>1. InUse' = Elements(pool')
        BY <1>0 DEF InUse
      <4>2. ASSUME NEW a \in Elements(pool), a \notin InUse  PROVE FALSE
        <5>1. pool = <<>>
          BY <4>2 DEF InUse
        <5>2. Elements(pool) = {}
          BY <5>1, <1>0, <3>2, ElementsOf
        <5> QED  BY <4>2, <5>2
      <4> QED  BY <1>0, <3>2, <4>1, <4>2
    <3>5. InUse \subseteq App
      BY <1>a, InUseIs
    <3>6. \A a \in App : Covered(a) => Covered(a)'
      BY <1>0 DEF Covered
    <3> SUFFICES ASSUME NEW a \in InUse'  PROVE Covered(a)' \/ a \in stored
      BY <1>0 DEF InUseReach
    <3>8. a \in App /\ (Covered(a) \/ a \in stored)
      BY <1>0, <2>a, <3>1, <3>2, <3>3, <3>4, <3>5 DEF InUseReach
    <3> QED  BY <3>6, <3>8
  <2> QED  BY <2>1, <2>2, <2>3, <2>4, <2>5, <2>6, <2>7, <2>8, <2>9 DEF Reachable
<1> QED  BY <1>1, <1>2, <1>3, <1>4, <1>5, <1>6, <1>7 DEF IdentityInv, Identified

LEMMA FallBackDoes ==
  ASSUME Identified, NEW a \in App, FallBack(a)
  PROVE  /\ a \in stored /\ bridged' = bridged \cup {a} /\ task' = task
         /\ UNCHANGED <<called, registered, accepted, secretsAt, pfx, clientId, pool, stored, certs, setupFaults, setupStops, rotationsCrossed, halfway>>
<1>a. IdentityTables /\ IdentityNumbers /\ IdentitySets /\ IdentityFlags /\ IdentityNames /\ TaskReady
  BY DEF Identified
<1> QED  BY DEF FallBack, entra

LEMMA FallBackKeeps ==
  ASSUME IdentityInv, NEW a \in App, FallBack(a)
  PROVE  IdentityInv'
<1>0. /\ a \in stored /\ bridged' = bridged \cup {a} /\ task' = task
      /\ UNCHANGED <<called, registered, accepted, secretsAt, pfx, clientId, pool, stored, certs, setupFaults, setupStops, rotationsCrossed, halfway>>
  BY FallBackDoes DEF IdentityInv
<1>a. /\ IdentityTables /\ IdentityNumbers /\ IdentitySets /\ IdentityFlags
      /\ IdentityNames /\ TaskReady
  BY DEF IdentityInv, Identified
<1>1. IdentityTables'
  BY <1>0, <1>a DEF IdentityTables, Moves
<1>2. IdentityNumbers'
  BY <1>0, <1>a DEF IdentityNumbers, TaskReady, IdentityTables, TaskRecord
<1>3. IdentitySets'
  BY <1>0, <1>a DEF IdentitySets
<1>4. IdentityFlags'
  BY <1>0, <1>a DEF IdentityFlags
<1>5. IdentityNames'
  BY <1>0, <1>a DEF IdentityNames, Moves
<1>6. TaskReady'
  BY <1>0, <1>a DEF TaskReady, IdentityNumbers, Moves
<1>7. ASSUME Unharmed'  PROVE Reachable'
  <2>0. Unharmed
    BY <1>0, <1>7 DEF Unharmed
  <2>a. /\ OneRotates /\ AcceptedLater /\ RegisteredLater /\ NewestUnderWay /\ AddsToPool
        /\ Spreads /\ SecretsWhole /\ ProvenFirst /\ InUseReach
    BY <2>0 DEF IdentityInv, Reachable
  <2>b. Ranges
    BY <1>a, RangesHold
  <2>1. OneRotates'
    BY <1>0, <2>a, <2>b DEF Ranges, Moves, OneRotates, Rotating
  <2>2. AcceptedLater'
    BY <1>0, <2>a, <2>b DEF Ranges, Moves, AcceptedLater
  <2>3. RegisteredLater'
    BY <1>0, <2>a, <2>b DEF Ranges, Moves, RegisteredLater, Kept
  <2>4. NewestUnderWay'
    BY <1>0, <2>a, <2>b DEF Ranges, Moves, NewestUnderWay, OneRotates, Rotating
  <2>5. AddsToPool'
    BY <1>0, <2>a, <2>b DEF Ranges, Moves, AddsToPool, OneRotates, Rotating
  <2>6. Spreads'
    BY <1>0, <2>a, <2>b DEF Ranges, Moves, Spreads, InUse, OneRotates, Rotating
  <2>7. SecretsWhole'
    BY <1>0, <2>a, <2>b DEF Ranges, Moves, SecretsWhole
  <2>8. ProvenFirst'
    BY <1>0, <2>a, <2>b DEF Ranges, Moves, ProvenFirst, Kept, Covered, TakenOver, InUse
  <2>9. InUseReach'
    BY <1>0, <2>a, <2>b DEF Ranges, Moves, InUseReach, Kept, Covered, TakenOver, InUse
  <2> QED  BY <2>1, <2>2, <2>3, <2>4, <2>5, <2>6, <2>7, <2>8, <2>9 DEF Reachable
<1> QED  BY <1>1, <1>2, <1>3, <1>4, <1>5, <1>6, <1>7 DEF IdentityInv, Identified

LEMMA DistributedDoes ==
  ASSUME Identified, NEW a \in App, Distributed(a)
  PROVE  /\ accepted' = [accepted EXCEPT ![a] = registered[a]] /\ task' = task
         /\ UNCHANGED <<called, registered, secretsAt, pfx, clientId, pool, stored, bridged, certs, setupFaults, setupStops, rotationsCrossed, halfway>>
<1>a. IdentityTables /\ IdentityNumbers /\ IdentitySets /\ IdentityFlags /\ IdentityNames /\ TaskReady
  BY DEF Identified
<1> QED  BY DEF Distributed, gateway

LEMMA DistributedKeeps ==
  ASSUME IdentityInv, NEW a \in App, Distributed(a)
  PROVE  IdentityInv'
<1>0. /\ accepted' = [accepted EXCEPT ![a] = registered[a]] /\ task' = task
      /\ UNCHANGED <<called, registered, secretsAt, pfx, clientId, pool, stored, bridged, certs, setupFaults, setupStops, rotationsCrossed, halfway>>
  BY DistributedDoes DEF IdentityInv
<1>a. /\ IdentityTables /\ IdentityNumbers /\ IdentitySets /\ IdentityFlags
      /\ IdentityNames /\ TaskReady
  BY DEF IdentityInv, Identified
<1>1. IdentityTables'
  BY <1>0, <1>a DEF IdentityTables, Moves
<1>2. IdentityNumbers'
  BY <1>0, <1>a DEF IdentityNumbers, TaskReady, IdentityTables, TaskRecord
<1>3. IdentitySets'
  BY <1>0, <1>a DEF IdentitySets
<1>4. IdentityFlags'
  BY <1>0, <1>a DEF IdentityFlags
<1>5. IdentityNames'
  BY <1>0, <1>a DEF IdentityNames, Moves
<1>6. TaskReady'
  BY <1>0, <1>a DEF TaskReady, IdentityNumbers, Moves
<1>7. ASSUME Unharmed'  PROVE Reachable'
  <2>0. Unharmed
    BY <1>0, <1>7 DEF Unharmed
  <2>a. /\ OneRotates /\ AcceptedLater /\ RegisteredLater /\ NewestUnderWay /\ AddsToPool
        /\ Spreads /\ SecretsWhole /\ ProvenFirst /\ InUseReach
    BY <2>0 DEF IdentityInv, Reachable
  <2>b. Ranges
    BY <1>a, RangesHold
  <2>1. OneRotates'
    BY <1>0, <2>a, <2>b DEF Ranges, Moves, OneRotates, Rotating
  <2>2. AcceptedLater'
    BY <1>0, <2>a, <2>b DEF Ranges, Moves, AcceptedLater
  <2>3. RegisteredLater'
    BY <1>0, <2>a, <2>b DEF Ranges, Moves, RegisteredLater, Kept
  <2>4. NewestUnderWay'
    BY <1>0, <2>a, <2>b DEF Ranges, Moves, NewestUnderWay, OneRotates, Rotating
  <2>5. AddsToPool'
    BY <1>0, <2>a, <2>b DEF Ranges, Moves, AddsToPool, OneRotates, Rotating
  <2>6. Spreads'
    BY <1>0, <2>a, <2>b DEF Ranges, Moves, Spreads, InUse, OneRotates, Rotating
  <2>7. SecretsWhole'
    BY <1>0, <2>a, <2>b DEF Ranges, Moves, SecretsWhole
  <2>8. ProvenFirst'
    BY <1>0, <2>a, <2>b DEF Ranges, Moves, ProvenFirst, Kept, Covered, TakenOver, InUse
  <2>9. InUseReach'
    BY <1>0, <2>a, <2>b DEF Ranges, Moves, InUseReach, Kept, Covered, TakenOver, InUse
  <2> QED  BY <2>1, <2>2, <2>3, <2>4, <2>5, <2>6, <2>7, <2>8, <2>9 DEF Reachable
<1> QED  BY <1>1, <1>2, <1>3, <1>4, <1>5, <1>6, <1>7 DEF IdentityInv, Identified

LEMMA GenerateByHandDoes ==
  ASSUME Identified, GenerateByHand
  PROVE  /\ pfx = 0 /\ certs < MaxCert /\ certs' = certs + 1 /\ pfx' = certs + 1 /\ bridged' = {} /\ task' = task
         /\ halfway' = TRUE /\ UNCHANGED <<called, registered, accepted, secretsAt, clientId, pool, stored, setupFaults, setupStops, rotationsCrossed>>
<1>a. IdentityTables /\ IdentityNumbers /\ IdentitySets /\ IdentityFlags /\ IdentityNames /\ TaskReady
  BY DEF Identified
<1> QED  BY DEF GenerateByHand, entra, BridgedEmptied

LEMMA GenerateByHandKeeps ==
  ASSUME IdentityInv, GenerateByHand
  PROVE  IdentityInv'
<1>0. /\ pfx = 0 /\ certs < MaxCert /\ certs' = certs + 1 /\ pfx' = certs + 1 /\ bridged' = {} /\ task' = task
      /\ halfway' = TRUE /\ UNCHANGED <<called, registered, accepted, secretsAt, clientId, pool, stored, setupFaults, setupStops, rotationsCrossed>>
  BY GenerateByHandDoes DEF IdentityInv
<1>a. /\ IdentityTables /\ IdentityNumbers /\ IdentitySets /\ IdentityFlags
      /\ IdentityNames /\ TaskReady
  BY DEF IdentityInv, Identified
<1>1. IdentityTables'
  BY <1>0, <1>a DEF IdentityTables, Moves
<1>2. IdentityNumbers'
  BY <1>0, <1>a DEF IdentityNumbers, TaskReady, IdentityTables, TaskRecord
<1>3. IdentitySets'
  BY <1>0, <1>a DEF IdentitySets
<1>4. IdentityFlags'
  BY <1>0, <1>a DEF IdentityFlags
<1>5. IdentityNames'
  BY <1>0, <1>a DEF IdentityNames, Moves
<1>6. TaskReady'
  <2>1. \A u \in Task : task[u].cert \in Nat
    BY <1>a, RangesHold DEF Ranges
  <2>2. certs \in Nat
    BY <1>a DEF IdentityNumbers
  <2> QED  BY <1>0, <1>a, <2>1, <2>2 DEF TaskReady
<1>7. ASSUME Unharmed'  PROVE Reachable'
  BY <1>0, <1>7 DEF Unharmed
<1> QED  BY <1>1, <1>2, <1>3, <1>4, <1>5, <1>6, <1>7 DEF IdentityInv, Identified

LEMMA SetupRestartDoes ==
  ASSUME Identified, SetupRestart
  PROVE  /\ task' \in [Task -> TaskRecord] /\ (\A u \in Task : task'[u].at = "idle") /\ bridged' = {}
         /\ setupStops' = setupStops + 1 /\ halfway' \in BOOLEAN
         /\ (~halfway' => (~halfway /\ \A u \in Task : ~LeavesHalf(u)))
         /\ UNCHANGED <<called, registered, accepted, secretsAt, pfx, clientId, pool, stored, certs, setupFaults, rotationsCrossed>>
<1>a. IdentityTables /\ IdentityNumbers /\ IdentitySets /\ IdentityFlags /\ IdentityNames /\ TaskReady
  BY DEF Identified
<1>1. halfway' \in BOOLEAN /\ (~halfway' => (~halfway /\ \A u \in Task : ~LeavesHalf(u)))
  BY <1>a DEF SetupRestart, IdentityFlags
<1>2. task' = [u \in Task |-> Idle]
  BY DEF SetupRestart
<1>3. task' \in [Task -> TaskRecord] /\ \A u \in Task : task'[u].at = "idle"
  BY <1>2, IdleIs
<1> QED  BY <1>1, <1>3 DEF SetupRestart, entra, BridgedEmptied

LEMMA SetupRestartKeeps ==
  ASSUME IdentityInv, SetupRestart
  PROVE  IdentityInv'
<1>0. /\ task' \in [Task -> TaskRecord] /\ (\A u \in Task : task'[u].at = "idle") /\ bridged' = {}
      /\ setupStops' = setupStops + 1 /\ halfway' \in BOOLEAN
      /\ (~halfway' => (~halfway /\ \A u \in Task : ~LeavesHalf(u)))
      /\ UNCHANGED <<called, registered, accepted, secretsAt, pfx, clientId, pool, stored, certs, setupFaults, rotationsCrossed>>
  BY SetupRestartDoes DEF IdentityInv
<1>a. /\ IdentityTables /\ IdentityNumbers /\ IdentitySets /\ IdentityFlags
      /\ IdentityNames /\ TaskReady
  BY DEF IdentityInv, Identified
<1>1. IdentityTables'
  BY <1>0, <1>a DEF IdentityTables, Moves
<1>2. IdentityNumbers'
  BY <1>0, <1>a DEF IdentityNumbers, TaskReady, IdentityTables, TaskRecord
<1>3. IdentitySets'
  BY <1>0, <1>a DEF IdentitySets
<1>4. IdentityFlags'
  BY <1>0, <1>a DEF IdentityFlags
<1>5. IdentityNames'
  BY <1>0, <1>a DEF IdentityNames, Moves
<1>6. TaskReady'
  BY <1>0, <1>a DEF TaskReady, IdentityNumbers, Moves
<1>7. ASSUME Unharmed'  PROVE Reachable'
  <2>0. Unharmed /\ \A u \in Task :
                                   /\ task[u].at \notin {"pool", "write"}
                                   /\ task[u].at = "upload" => Covered(task[u].app)
                                   /\ task[u].at = "remove" => secretsAt[Head(task[u].todo)] = Secret
    BY <1>0, <1>7 DEF Unharmed, LeavesHalf, Covered
  <2>a. /\ OneRotates /\ AcceptedLater /\ RegisteredLater /\ NewestUnderWay /\ AddsToPool
        /\ Spreads /\ SecretsWhole /\ ProvenFirst /\ InUseReach
    BY <2>0 DEF IdentityInv, Reachable
  <2>b. Ranges
    BY <1>a, RangesHold
  <2>1. OneRotates'
    BY <1>0, <2>a, <2>b, <2>0 DEF Ranges, Moves, OneRotates, Rotating
  <2>2. AcceptedLater'
    BY <1>0, <2>a, <2>b, <2>0 DEF Ranges, Moves, AcceptedLater
  <2>3. RegisteredLater'
    BY <1>0, <2>a, <2>b, <2>0 DEF Ranges, Moves, RegisteredLater, Kept
  <2>4. NewestUnderWay'
    BY <1>0, <2>a, <2>b, <2>0 DEF Ranges, Moves, NewestUnderWay, OneRotates, Rotating
  <2>5. AddsToPool'
    BY <1>0, <2>a, <2>b, <2>0 DEF Ranges, Moves, AddsToPool, OneRotates, Rotating
  <2>6. Spreads'
    BY <1>0, <2>a, <2>b, <2>0 DEF Ranges, Moves, Spreads, InUse, OneRotates, Rotating
  <2>7. SecretsWhole'
    BY <1>0, <2>a, <2>0 DEF SecretsWhole
  <2>8. ProvenFirst'
    BY <1>0 DEF ProvenFirst
  <2>9. InUseReach'
    <3>1. Kept
      BY <2>0 DEF Kept
    <3>2. InUse' = InUse
      BY <1>0 DEF InUse
    <3> SUFFICES ASSUME NEW a \in InUse  PROVE Covered(a)' \/ a \in stored'
      BY <3>2 DEF InUseReach
    <3>3. Covered(a) \/ a \in stored \/ TakenOver(a)
      BY <2>a, <3>1 DEF InUseReach
    <3>4. TakenOver(a) => Covered(a)
      BY <2>0 DEF TakenOver
    <3>5. Covered(a)' = Covered(a)
      BY <1>0 DEF Covered
    <3> QED  BY <1>0, <3>3, <3>4, <3>5
  <2> QED  BY <2>1, <2>2, <2>3, <2>4, <2>5, <2>6, <2>7, <2>8, <2>9 DEF Reachable
<1> QED  BY <1>1, <1>2, <1>3, <1>4, <1>5, <1>6, <1>7 DEF IdentityInv, Identified
LEMMA StutterKeeps ==
  ASSUME IdentityInv, UNCHANGED identityVars
  PROVE  IdentityInv'
<1>1. Identified'
  BY DEF IdentityInv, Identified, identityVars, entra, gateway, IdentityTables, IdentityNumbers,
         IdentitySets, IdentityFlags, IdentityNames, TaskReady
<1>2. Reachable => Reachable'
  BY DEF identityVars, entra, gateway, Reachable, OneRotates, Rotating, AcceptedLater,
         RegisteredLater, NewestUnderWay, AddsToPool, Spreads, SecretsWhole, ProvenFirst,
         InUseReach, Kept, Covered, TakenOver, InUse
<1>3. Unharmed' = Unharmed
  BY DEF identityVars, Unharmed
<1> QED  BY <1>1, <1>2, <1>3 DEF IdentityInv

-----------------------------------------------------------------------------
LEMMA IdentityStarts == IdentityInit => IdentityInv
<1> SUFFICES ASSUME IdentityInit  PROVE IdentityInv
  OBVIOUS
<1>1. /\ accepted = registered /\ bridged = {}
      /\ task = [t \in Task |-> Idle] /\ setupFaults = 0 /\ setupStops = 0
      /\ rotationsCrossed = FALSE /\ halfway = FALSE
  BY DEF IdentityInit
<1>2. task \in [Task -> TaskRecord] /\ \A t \in Task : task[t].at = "idle"
  BY <1>1, IdleIs
<1>3. 0 \in 0..MaxCert /\ 1 \in 0..MaxCert /\ 0 \in 0..MaxApp /\ 1 \in 0..MaxApp /\ 1 \in App /\ 2 \in App
  BY DEF App
<1>4. \/ /\ called = [a \in App |-> 0] /\ registered = called
         /\ secretsAt = [a \in App |-> {}]
         /\ pfx = 0 /\ clientId = 0 /\ pool = <<>> /\ stored = {} /\ certs = 0
      \/ /\ \E pooled \in BOOLEAN :
               /\ called = [a \in App |-> IF a = 1 THEN 1 ELSE IF a = 2 /\ pooled THEN 2 ELSE 0]
               /\ pool = IF pooled THEN <<2>> ELSE <<>>
         /\ registered = [a \in App |-> IF a = 1 THEN 1 ELSE 0]
         /\ secretsAt = [a \in App |-> IF called[a] = 0 THEN {} ELSE Secret]
         /\ pfx = 1 /\ clientId = 1 /\ stored = {1} \cup Elements(pool) /\ certs = 1
  BY DEF IdentityInit
<1>5. /\ registered \in [App -> 0..MaxCert] /\ secretsAt \in [App -> SUBSET Secret]
      /\ called \in [App -> 0..(MaxApp + 1)] /\ pool \in Seq(App)
      /\ \A i \in 1..Len(pool) : called[pool[i]] = i + 1
      /\ \A a \in App : registered[a] <= pfx
      /\ \A a \in stored : a \in App /\ secretsAt[a] = Secret
      /\ InUse \subseteq stored
  <2>1. CASE /\ called = [a \in App |-> 0] /\ registered = called
             /\ secretsAt = [a \in App |-> {}]
             /\ pfx = 0 /\ clientId = 0 /\ pool = <<>> /\ stored = {} /\ certs = 0
    BY <2>1, <1>3 DEF InUse
  <2>2. ASSUME NEW pooled \in BOOLEAN,
               called = [a \in App |-> IF a = 1 THEN 1 ELSE IF a = 2 /\ pooled THEN 2 ELSE 0],
               pool = IF pooled THEN << 2 >> ELSE <<>>,
               registered = [a \in App |-> IF a = 1 THEN 1 ELSE 0],
               secretsAt = [a \in App |-> IF called[a] = 0 THEN {} ELSE Secret],
               pfx = 1 /\ clientId = 1 /\ stored = {1} \cup Elements(pool)
        PROVE  /\ registered \in [App -> 0..MaxCert] /\ secretsAt \in [App -> SUBSET Secret]
               /\ called \in [App -> 0..(MaxApp + 1)] /\ pool \in Seq(App)
               /\ \A i \in 1..Len(pool) : called[pool[i]] = i + 1
               /\ \A a \in App : registered[a] <= pfx
               /\ \A a \in stored : a \in App /\ secretsAt[a] = Secret
               /\ InUse \subseteq stored
    <3>1. registered \in [App -> 0..MaxCert] /\ \A a \in App : registered[a] <= pfx
      BY <2>2, <1>3
    <3>2. secretsAt \in [App -> SUBSET Secret]
      BY <2>2
    <3>3. called \in [App -> 0..(MaxApp + 1)]
      <4>1. 0 \in 0..(MaxApp + 1) /\ 1 \in 0..(MaxApp + 1) /\ 2 \in 0..(MaxApp + 1)
        OBVIOUS
      <4> QED  BY <4>1, <2>2
    <3>4. CASE pooled
      <4>1. pool = <<2>> /\ called[2] = 2 /\ called[1] = 1
        BY <3>4, <2>2, <1>3
      <4>2. pool \in Seq(App) /\ Elements(pool) = {2} /\ pool # <<>>
        BY <4>1, <1>3 DEF Elements
      <4>3. \A i \in 1..Len(pool) : called[pool[i]] = i + 1
        BY <4>1
      <4>4. \A a \in stored : a \in App /\ secretsAt[a] = Secret
        BY <4>1, <4>2, <2>2, <1>3
      <4> QED  BY <3>1, <3>2, <3>3, <4>2, <4>3, <4>4, <2>2 DEF InUse
    <3>5. CASE ~pooled
      <4>1. pool = <<>> /\ called[1] = 1
        BY <3>5, <2>2, <1>3
      <4>2. pool \in Seq(App) /\ Elements(pool) = {}
        BY <4>1 DEF Elements
      <4>3. \A a \in stored : a \in App /\ secretsAt[a] = Secret
        BY <4>1, <4>2, <2>2, <1>3
      <4> QED  BY <3>1, <3>2, <3>3, <4>1, <4>2, <4>3, <2>2 DEF InUse
    <3> QED  BY <3>4, <3>5
  <2> QED  BY <1>4, <2>1, <2>2
<1>6. IdentityTables
  BY <1>1, <1>2, <1>5 DEF IdentityTables
<1>7. IdentityNumbers
  BY <1>1, <1>3, <1>4 DEF IdentityNumbers
<1>8. IdentitySets
  BY <1>1, <1>5 DEF IdentitySets
<1>9. IdentityFlags
  BY <1>1 DEF IdentityFlags
<1>10. IdentityNames
  BY <1>2, <1>5 DEF IdentityNames
<1>11. TaskReady
  BY <1>2 DEF TaskReady
<1>12. Reachable
  <2>1. OneRotates
    BY <1>2 DEF OneRotates, Rotating
  <2>2. \A a \in App : registered[a] \in Nat
    BY <1>5
  <2>3. AcceptedLater
    BY <1>1, <2>2 DEF AcceptedLater
  <2>4. RegisteredLater
    BY <1>5 DEF RegisteredLater
  <2>5. NewestUnderWay /\ AddsToPool /\ Spreads /\ ProvenFirst
    BY <1>2 DEF NewestUnderWay, AddsToPool, Spreads, ProvenFirst
  <2>6. SecretsWhole
    BY <1>5 DEF SecretsWhole
  <2>7. InUseReach
    BY <1>5 DEF InUseReach
  <2> QED  BY <2>1, <2>3, <2>4, <2>5, <2>6, <2>7 DEF Reachable
<1> QED  BY <1>6, <1>7, <1>8, <1>9, <1>10, <1>11, <1>12 DEF IdentityInv, Identified

LEMMA IdentityStep == IdentityInv /\ [IdentityNext]_identityVars => IdentityInv'
<1> SUFFICES ASSUME IdentityInv, [IdentityNext]_identityVars  PROVE IdentityInv'
  OBVIOUS
<1>1. ASSUME NEW a \in App, FallBack(a) \/ Distributed(a)  PROVE IdentityInv'
  BY <1>1, FallBackKeeps, DistributedKeeps
<1>2. ASSUME NEW t \in Task,
             \/ LookForApp(t) \/ CreateApp(t) \/ Adopt(t) \/ Upload(t) \/ UploadNext(t)
             \/ WritePfx(t) \/ Prove(t) \/ GiveUp(t) \/ RemoveSecret(t) \/ ForgetSecret(t)
             \/ SecretRemovalFails(t)
      PROVE  IdentityInv'
  BY <1>2, LookForAppKeeps, CreateAppKeeps, AdoptKeeps, UploadKeeps, UploadNextKeeps, WritePfxKeeps,
     ProveKeeps, GiveUpKeeps, RemoveSecretKeeps, ForgetSecretKeeps, SecretRemovalFailsKeeps
<1>3. ASSUME NEW t \in Task,
             BeginPoolApp(t) \/ CreatePoolApp(t) \/ UploadPoolApp(t) \/ AppendPoolApp(t) \/ SetupFails(t)
      PROVE  IdentityInv'
  BY <1>3, BeginPoolAppKeeps, CreatePoolAppKeeps, UploadPoolAppKeeps, AppendPoolAppKeeps, SetupFailsKeeps
<1>4. CASE GenerateByHand \/ SetupRestart
  BY <1>4, GenerateByHandKeeps, SetupRestartKeeps
<1>5. CASE UNCHANGED identityVars
  BY <1>5, StutterKeeps
<1>6. SetupRun \subseteq Task /\ PoolAdder \subseteq Task
  BY DEF Task
<1> QED  BY <1>1, <1>2, <1>3, <1>4, <1>5, <1>6 DEF IdentityNext

(* A certificate that was proven stays accepted, for what Entra distributes  *)
(* later is newer; and no removal is about a key that is not written yet.    *)
ProvenStays == \A t \in Task :
  /\ task[t].at \in {"prove", "remove"} => task[t].cert <= pfx
  /\ (task[t].at = "remove" /\ task[t].cert = pfx) =>
       (pfx # 0 /\ accepted[Head(task[t].todo)] >= pfx)
ProvenInv == Unharmed => ProvenStays

LEMMA NextCert ==
  ASSUME NEW r \in TaskRecord, NextToProve(r).at # "idle"
  PROVE  NextToProve(r).cert = r.cert /\ NextToProve(r).at = "prove"
<1>1. ~(Len(r.todo) <= 1)
  BY IdleIs DEF NextToProve
<1>2. NextToProve(r) = [r EXCEPT !.at = "prove", !.todo = Tail(r.todo)]
  BY <1>1 DEF NextToProve
<1> QED  BY <1>2 DEF TaskRecord

(* A task that moves anywhere but to a proof or a removal.                   *)
LEMMA ProvenElsewhere ==
  ASSUME ProvenStays, NEW t \in Task, Moves(t), task'[t].at \notin {"prove", "remove"},
         UNCHANGED <<accepted, pfx>>
  PROVE  ProvenStays'
<1>1. ASSUME NEW u \in Task, u # t
      PROVE  task'[u] = task[u]
  BY <1>1 DEF Moves
<1> QED  BY <1>1 DEF ProvenStays

(* A task that goes on to the proof for its next app.                        *)
LEMMA ProvenOnward ==
  ASSUME Identified, ProvenStays, NEW t \in Task, NextApp(t), task[t].at \in {"prove", "remove"},
         UNCHANGED <<accepted, pfx>>
  PROVE  ProvenStays'
<1>1. task[t] \in TaskRecord /\ task[t].todo # <<>> /\ IdentityTables
  BY DEF Identified, IdentityTables, TaskReady
<1>2. NextToProve(task[t]) \in TaskRecord
  BY <1>1, NextIs
<1>3. Moves(t) /\ task'[t] = NextToProve(task[t])
  BY <1>1, <1>2, MovesTo DEF NextApp
<1>4. CASE task'[t].at = "idle"
  BY <1>3, <1>4, ProvenElsewhere
<1>5. CASE task'[t].at # "idle"
  <2>1. task'[t].cert = task[t].cert /\ task'[t].at = "prove"
    BY <1>1, <1>3, <1>5, NextCert
  <2>2. \A u \in Task : u # t => task'[u] = task[u]
    BY <1>3 DEF Moves
  <2> QED  BY <2>1, <2>2 DEF ProvenStays
<1> QED  BY <1>4, <1>5

LEMMA ProvenStep == IdentityInv /\ ProvenInv /\ [IdentityNext]_identityVars => ProvenInv'
<1> SUFFICES ASSUME IdentityInv, ProvenInv, [IdentityNext]_identityVars, Unharmed'  PROVE ProvenStays'
  BY DEF ProvenInv
<1>a. Identified /\ IdentityTables /\ TaskReady
  BY DEF IdentityInv, Identified
<1>b. Ranges
  BY <1>a, RangesHold DEF Identified
<1>1. ASSUME Unharmed, NEW t \in Task,
             \/ LookForApp(t) \/ CreateApp(t) \/ Adopt(t) \/ Upload(t) \/ UploadNext(t) \/ SetupFails(t)
             \/ BeginPoolApp(t) \/ CreatePoolApp(t) \/ UploadPoolApp(t) \/ AppendPoolApp(t)
      PROVE  ProvenStays'
  <2>1. Moves(t) /\ task'[t].at \notin {"prove", "remove"} /\ UNCHANGED <<accepted, pfx>>
    BY <1>1, <1>a, LookForAppDoes, CreateAppDoes, AdoptDoes, UploadDoes, UploadNextDoes, SetupFailsDoes,
       BeginPoolAppDoes, CreatePoolAppDoes, UploadPoolAppDoes, AppendPoolAppDoes
  <2> QED  BY <1>1, <2>1, ProvenElsewhere DEF ProvenInv
<1>2. ASSUME Unharmed, NEW t \in Task, WritePfx(t)
      PROVE  ProvenStays'
  <2>1. /\ task[t].at = "write" /\ task'[t].at = "prove" /\ pfx' = task[t].cert
        /\ Moves(t) /\ UNCHANGED accepted
    BY <1>2, <1>a, WritePfxDoes
  <2>2. task'[t].cert = task[t].cert
    BY <1>2, <1>a DEF WritePfx, IdentityTables, TaskRecord
  <2>3. pfx < pfx'
    BY <1>2, <2>1 DEF IdentityInv, Reachable, NewestUnderWay
  <2>4. ASSUME NEW u \in Task, u # t
        PROVE  /\ task'[u] = task[u]
               /\ task[u].at \in {"prove", "remove"} => task[u].cert < pfx'
    BY <1>2, <1>b, <2>1, <2>3, <2>4 DEF Moves, ProvenInv, ProvenStays, Ranges
  <2>5. \A u \in Task : task[u].cert \in Nat
    BY <1>b DEF Ranges
  <2> QED  BY <2>1, <2>2, <2>4, <2>5 DEF ProvenStays
<1>3. ASSUME Unharmed, NEW t \in Task, Prove(t)
      PROVE  ProvenStays'
  <2>1. /\ task[t].at = "prove" /\ task'[t].at = "remove" /\ task'[t].todo = task[t].todo
        /\ pfx # 0 /\ accepted[Head(task[t].todo)] = pfx
        /\ Moves(t) /\ UNCHANGED <<accepted, pfx>>
    BY <1>3, <1>a, ProveDoes
  <2>2. task'[t].cert = task[t].cert
    BY <1>3, <1>a DEF Prove, To, IdentityTables, TaskRecord
  <2>3. \A u \in Task : u # t => task'[u] = task[u]
    BY <2>1 DEF Moves
  <2> QED  BY <1>3, <1>b, <2>1, <2>2, <2>3 DEF ProvenInv, ProvenStays, Ranges
<1>4. ASSUME Unharmed, NEW t \in Task, GiveUp(t) \/ ForgetSecret(t) \/ SecretRemovalFails(t)
      PROVE  ProvenStays'
  <2>1. NextApp(t) /\ task[t].at \in {"prove", "remove"} /\ UNCHANGED <<accepted, pfx>>
    BY <1>4 DEF GiveUp, ForgetSecret, SecretRemovalFails, entra, gateway
  <2> QED  BY <1>4, <1>a, <2>1, ProvenOnward DEF ProvenInv
<1>5. ASSUME Unharmed, NEW t \in Task, RemoveSecret(t)
      PROVE  ProvenStays'
  BY <1>5, <1>a, RemoveSecretDoes DEF ProvenInv, ProvenStays
<1>6. ASSUME Unharmed, NEW a \in App, FallBack(a)
      PROVE  ProvenStays'
  BY <1>6, <1>a, FallBackDoes DEF ProvenInv, ProvenStays
<1>7. ASSUME Unharmed, NEW a \in App, Distributed(a)
      PROVE  ProvenStays'
  <2>1. task' = task /\ pfx' = pfx /\ accepted' = [accepted EXCEPT ![a] = registered[a]]
    BY <1>7, <1>a, DistributedDoes
  <2>2. accepted[a] <= registered[a]
    BY <1>7 DEF IdentityInv, Reachable, AcceptedLater
  <2>3. \A t \in Task : task[t].at = "remove" => Head(task[t].todo) \in App
    <3>1. ASSUME NEW t \in Task, task[t].at = "remove"
          PROVE  Head(task[t].todo) \in App
      <4>1. task[t].todo \in Seq(App) /\ task[t].todo # <<>>
        BY <1>a, <1>b, <3>1 DEF Ranges, TaskReady
      <4> QED  BY <4>1, HeadTailProperties
    <3> QED  BY <3>1
  <2>4. \A b \in App : accepted'[b] \in Nat /\ accepted'[b] >= accepted[b]
    BY <1>a, <1>b, <2>1, <2>2 DEF Ranges, IdentityTables
  <2>5. \A t \in Task : task[t].at = "remove" =>
          accepted'[Head(task[t].todo)] >= accepted[Head(task[t].todo)]
    BY <2>3, <2>4
  <2> QED  BY <1>7, <1>b, <2>1, <2>3, <2>4, <2>5 DEF ProvenInv, ProvenStays, Ranges
<1>8. ASSUME Unharmed, SetupRestart
      PROVE  ProvenStays'
  <2>1. \A u \in Task : task'[u].at = "idle"
    BY <1>8, <1>a, SetupRestartDoes
  <2> QED  BY <2>1 DEF ProvenStays
<1>9. ASSUME GenerateByHand
      PROVE  FALSE
  BY <1>9 DEF GenerateByHand, Unharmed
<1>10. ASSUME Unharmed, UNCHANGED identityVars
       PROVE  ProvenStays'
  BY <1>10 DEF ProvenInv, ProvenStays, identityVars, entra, gateway
<1>11. Unharmed
  <2>1. rotationsCrossed \in BOOLEAN /\ halfway \in BOOLEAN
    BY <1>a DEF Identified, IdentityFlags
  <2> QED  BY <2>1 DEF Unharmed, IdentityNext, identityVars, FallBack, Distributed, LookForApp, CreateApp, Adopt, Upload,
           UploadNext, WritePfx, Prove, GiveUp, RemoveSecret, ForgetSecret, SecretRemovalFails, BeginPoolApp,
           CreatePoolApp, UploadPoolApp, AppendPoolApp, SetupFails, GenerateByHand, SetupRestart, NotesCrossing
<1> QED  BY <1>1, <1>2, <1>3, <1>4, <1>5, <1>6, <1>7, <1>8, <1>9, <1>10, <1>11 DEF IdentityNext, Task

LEMMA IdentityFromInv == IdentityInv /\ ProvenInv => IdentityTypeOK /\ GraphStaysReachable
<1> SUFFICES ASSUME IdentityInv, ProvenInv  PROVE IdentityTypeOK /\ GraphStaysReachable
  OBVIOUS
<1>a. /\ IdentityTables /\ IdentityNumbers /\ IdentitySets /\ IdentityFlags
      /\ IdentityNames /\ TaskReady
  BY DEF IdentityInv, Identified
<1>b. Ranges
  BY <1>a, RangesHold
<1>1. IdentityTypeOK
  <2>1. \A t \in Task : task[t].cert \in 0..MaxCert /\ task[t].app \in 0..MaxApp
    BY <1>a DEF IdentityTables, TaskRecord
  <2> QED  BY <1>a, <2>1 DEF IdentityTypeOK, IdentityTables, IdentityNumbers, IdentitySets, IdentityNames
<1>2. ASSUME \A t \in Task : ~Rotating(t) /\ task[t].at # "remove", Unharmed,
             NEW a \in InUse, accepted[a] = registered[a]
      PROVE  SignsIn(a)
  <2>1. RegisteredLater /\ SecretsWhole /\ InUseReach
    BY <1>2 DEF IdentityInv, Reachable
  <2>2. Kept /\ ~TakenOver(a)
    BY <1>2 DEF Kept, Rotating, TakenOver
  <2>4. a \in stored => SecretWorks(a)
    BY <1>2, <2>1 DEF SecretsWhole, SecretWorks, Secret
  <2>5. Covered(a) => CertWorks(a)
    BY <1>2 DEF Covered, CertWorks
  <2>6. bridged \subseteq stored
    BY <1>a DEF IdentitySets
  <2>7. Covered(a) \/ a \in stored
    BY <1>2, <2>1, <2>2 DEF InUseReach
  <2> QED  BY <2>4, <2>5, <2>6, <2>7 DEF SignsIn
<1>3. ASSUME \A u \in Task : ~Rotating(u), Unharmed,
             NEW t \in Task, task[t].at = "remove", task[t].cert = pfx
      PROVE  CertWorks(Head(task[t].todo))
  <2> DEFINE a == Head(task[t].todo)
  <2>1. a \in App
    <3>1. task[t].todo \in Seq(App) /\ task[t].todo # <<>>
      BY <1>3, <1>a, <1>b DEF TaskReady, Ranges
    <3> QED  BY <3>1, HeadTailProperties
  <2>2. pfx # 0 /\ accepted[a] >= pfx
    BY <1>3 DEF ProvenInv, ProvenStays
  <2>3. Kept
    BY <1>3 DEF Kept, Rotating
  <2>4. accepted[a] <= registered[a] /\ registered[a] <= pfx
    BY <1>3, <2>1, <2>3 DEF IdentityInv, Reachable, AcceptedLater, RegisteredLater
  <2>5. accepted[a] = pfx
    BY <1>b, <2>1, <2>2, <2>4 DEF Ranges
  <2> QED  BY <2>2, <2>5 DEF CertWorks
<1>4. GraphStaysReachable
  BY <1>2, <1>3, <1>a DEF GraphStaysReachable, Unharmed, IdentityFlags
<1> QED  BY <1>1, <1>4

LEMMA IdentityCorrect ==
  IdentityInit /\ [][IdentityNext]_identityVars => [](IdentityInv /\ ProvenInv)
<1>1. IdentityInit => ProvenInv
  BY IdleIs DEF IdentityInit, ProvenInv, ProvenStays
<1> QED  BY <1>1, IdentityStarts, IdentityStep, ProvenStep, PTL

HIDE IdentityAssumption
================================================================================
