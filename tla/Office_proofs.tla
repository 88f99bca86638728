----------------------------- MODULE Office_proofs -----------------------------
(***************************************************************************)
(* Proofs about the five parts MCOffice puts side by side: for each an     *)
(* inductive invariant and what follows from it, for every number of       *)
(* people, mails, messages and sign-ins and every bound; that the portal   *)
(* implements Disclosure; then the theorems about the whole.               *)
(***************************************************************************)
EXTENDS MCOffice, SequenceTheorems, FiniteSetTheorems, WellFoundedInduction, TLAPS

-----------------------------------------------------------------------------
(* Portal                                                                  *)

USE PortalAssumption

PortalTypes ==
  /\ row \in [Token -> PortalRow]
  /\ blob \subseteq Token /\ replies \subseteq Token
  /\ otp \in BOOLEAN
  /\ making \in Token \cup {Nobody} /\ removing \in Token \cup {Nobody}
  /\ mailing \subseteq Token \X Code /\ mailed \subseteq Token \X Code
  /\ cap \in [Browser -> SUBSET (Token \X Code)]
  /\ reading \in (Browser \X Token) \cup {Nobody}
  /\ replying \subseteq Browser \X Token
  /\ purge \in [sel : SUBSET Token, gone : SUBSET Token]
  /\ bought \subseteq Browser \X Token \X Code
  /\ stray \subseteq Token \X {"no_row", "late_reply", "crash"}

PortalEvents == portalEvents \in 0..MaxEvents

(* What was not created has nothing in its row, and nobody serves it.      *)
Absent ==
  /\ \A t \in Token : row[t].state = "none" =>
       row[t] = NoRow /\ t \notin replies /\ t \notin purge.sel /\ \A b \in Browser : <<b, t>> \notin replying

(* What is between its two stores.                                         *)
Between ==
  /\ making # Nobody => row[making].state = "none" /\ making \in blob
  /\ removing # Nobody => row[removing].state = "deleted"

(* The purge takes what is not open, and an open message has its blob.     *)
Purged ==
  /\ purge.gone \subseteq purge.sel
  /\ \A t \in purge.sel : ~Open(t)
  /\ \A t \in purge.gone : t \notin blob

(* Codes are used once: the one a row waits for is none of those that      *)
(* bought access, and the next one is a new one.                           *)
Codes ==
  /\ \A t \in Token : row[t].code <= row[t].last
  /\ \A x \in bought : /\ x[3] # 0 /\ x[3] <= row[x[2]].last /\ x[3] # row[x[2]].code
                       /\ <<x[2], x[3]>> \in mailed
  /\ \A x, y \in bought : x[2] = y[2] /\ x[3] = y[3] => x[1] = y[1]
  /\ \A b \in Browser : \A m \in cap[b] : <<b, m[1], m[2]>> \in bought

LeftBehind ==
  \A t \in Token : ~Live(t) =>
    /\ t \in replies => <<t, "late_reply">> \in stray
    /\ t \in blob /\ t \notin {making, removing}
         => \E c \in {"crash", "no_row"} : <<t, c>> \in stray

PortalInv ==
  /\ PortalTypes /\ PortalEvents /\ Absent /\ Between /\ Purged /\ OpenHasContent
  /\ Codes /\ LeftBehind

-----------------------------------------------------------------------------
(* Rows.                                                                   *)
LEMMA RowIs ==
  ASSUME NEW r \in PortalRow
  PROVE  /\ r.state \in {"none", "live", "deleted"} /\ r.left \in Nat /\ r.left <= Retention
         /\ r.code \in Nat /\ r.code <= MaxCodes /\ r.last \in Nat /\ r.last <= MaxCodes
         /\ r.access \in Nat /\ r.access <= MaxCodes /\ r.accessLeft \in Nat
         /\ r.tries \in Nat /\ r.tries <= MaxTries
BY DEF PortalRow, Code

LEMMA NoRowIn == NoRow \in PortalRow /\ NoRow.state = "none" /\ NoRow.last = 0 /\ NoRow.code = 0
<1>1. /\ 0 \in 0..Retention /\ 0 \in Code /\ 0 \in 0..OtpTtl /\ 0 \in 0..MaxTries
      /\ 0 \in 0..Cooldown /\ 0 \in 0..AccessTtl
  BY DEF Code
<1> QED  BY <1>1 DEF NoRow, PortalRow

\* A message is created.
LEMMA FreshRow ==
  LET r == [NoRow EXCEPT !.state = "live", !.left = Retention]
  IN  /\ r \in PortalRow /\ r.state = "live" /\ r.left > 0 /\ r.last = 0 /\ r.code = 0 /\ r.access = 0
<1>1. Retention \in 0..Retention /\ Retention > 0
  OBVIOUS
<1>2. [NoRow EXCEPT !.state = "live", !.left = Retention] \in PortalRow
  BY <1>1, NoRowIn DEF PortalRow
<1> QED  BY <1>1, <1>2 DEF NoRow

\* It is removed.
LEMMA DeletedRow ==
  ASSUME NEW r \in PortalRow
  PROVE  LET s == [r EXCEPT !.state = "deleted"]
         IN  /\ s \in PortalRow /\ s.state = "deleted" /\ s.left = r.left
             /\ s.last = r.last /\ s.code = r.code
             /\ s.access = r.access /\ s.accessLeft = r.accessLeft
BY DEF PortalRow

\* A code is asked for.
LEMMA CodeRow ==
  ASSUME NEW r \in PortalRow, r.last < MaxCodes
  PROVE  LET s == [r EXCEPT !.code = r.last + 1, !.last = r.last + 1,
                            !.codeLeft = OtpTtl, !.tries = 0, !.cool = Cooldown]
         IN  /\ s \in PortalRow /\ s.state = r.state /\ s.left = r.left
             /\ s.last = r.last + 1 /\ s.code = r.last + 1
             /\ s.access = r.access /\ s.accessLeft = r.accessLeft
<1>1. r.last + 1 \in Code /\ OtpTtl \in 0..OtpTtl /\ 0 \in 0..MaxTries /\ Cooldown \in 0..Cooldown
  BY RowIs DEF Code
<1> QED  BY <1>1 DEF PortalRow

\* It is used.
LEMMA EnterRow ==
  ASSUME NEW r \in PortalRow
  PROVE  LET s == [r EXCEPT !.access = r.code, !.accessLeft = AccessTtl, !.code = 0]
         IN  /\ s \in PortalRow /\ s.state = r.state /\ s.left = r.left
             /\ s.last = r.last /\ s.code = 0 /\ s.access = r.code
<1>1. AccessTtl \in 0..AccessTtl /\ 0 \in Code
  BY DEF Code
<1> QED  BY <1>1 DEF PortalRow

\* Another one was tried.
LEMMA MissRow ==
  ASSUME NEW r \in PortalRow, r.tries < MaxTries
  PROVE  LET s == [r EXCEPT !.tries = @ + 1]
         IN  /\ s \in PortalRow /\ s.state = r.state /\ s.left = r.left
             /\ s.last = r.last /\ s.code = r.code
             /\ s.access = r.access /\ s.accessLeft = r.accessLeft
<1>1. r.tries + 1 \in 0..MaxTries
  BY RowIs
<1> QED  BY <1>1 DEF PortalRow

\* Time passes.
LEMMA TickRow ==
  ASSUME NEW r \in PortalRow
  PROVE  LET s == [r EXCEPT !.left = Down(r.left), !.codeLeft = Down(r.codeLeft),
                            !.cool = Down(r.cool), !.accessLeft = Down(r.accessLeft)]
         IN  /\ s \in PortalRow /\ s.state = r.state /\ s.left <= r.left
             /\ s.last = r.last /\ s.code = r.code
             /\ s.access = r.access /\ (s.accessLeft > 0 => r.accessLeft > 0)
             /\ r = NoRow => s = NoRow
<1>0. \A K \in Nat : \A n \in 0..K : Down(n) \in 0..K /\ Down(n) <= n /\ (Down(n) > 0 => n > 0)
  BY DEF Down
<1>1. /\ Down(r.left) \in 0..Retention /\ Down(r.codeLeft) \in 0..OtpTtl
      /\ Down(r.cool) \in 0..Cooldown /\ Down(r.accessLeft) \in 0..AccessTtl
      /\ Down(r.left) <= r.left /\ (Down(r.accessLeft) > 0 => r.accessLeft > 0)
  <2>1. r.left \in 0..Retention /\ r.codeLeft \in 0..OtpTtl /\ r.cool \in 0..Cooldown
        /\ r.accessLeft \in 0..AccessTtl
    BY DEF PortalRow
  <2> QED  BY <1>0, <2>1
<1>2. Down(0) = 0
  BY DEF Down
<1>3. ASSUME r = NoRow
      PROVE  [r EXCEPT !.left = Down(r.left), !.codeLeft = Down(r.codeLeft),
                       !.cool = Down(r.cool), !.accessLeft = Down(r.accessLeft)] = r
  <2>1. r.left = 0 /\ r.codeLeft = 0 /\ r.cool = 0 /\ r.accessLeft = 0
    BY <1>3 DEF NoRow
  <2>2. /\ Down(r.left) = r.left /\ Down(r.codeLeft) = r.codeLeft
        /\ Down(r.cool) = r.cool /\ Down(r.accessLeft) = r.accessLeft
    BY <2>1, <1>2
  <2> QED  BY <2>2 DEF PortalRow
<1> HIDE DEF Down
<1> QED  BY <1>1, <1>3 DEF PortalRow

LEMMA PortalStep == PortalInv /\ [PortalNext]_portalVars => PortalInv'
<1> SUFFICES ASSUME PortalInv, [PortalNext]_portalVars PROVE PortalInv'
  OBVIOUS
<1>a. PortalTypes /\ PortalEvents /\ Absent /\ Between /\ Purged /\ OpenHasContent /\ Codes /\ LeftBehind
  BY DEF PortalInv
<1>1. ASSUME NEW t \in Token, CreateBlob(t)
      PROVE  PortalInv'
  <2>1. PortalTypes'
    BY <1>1, <1>a DEF CreateBlob, portalStore, web, portalHistory, PortalTypes
  <2>2. PortalEvents'
    BY <1>1, <1>a DEF CreateBlob, portalStore, web, portalHistory, PortalEvents
  <2>3. Absent'
    BY <1>1, <1>a DEF CreateBlob, portalStore, web, portalHistory, Absent
  <2>4. Between'
    BY <1>1, <1>a DEF CreateBlob, portalStore, web, portalHistory, Between
  <2>5. Purged'
    BY <1>1, <1>a DEF CreateBlob, portalStore, web, portalHistory, Purged, Open, Live, Absent, PortalTypes
  <2>6. OpenHasContent'
    BY <1>1, <1>a DEF CreateBlob, portalStore, web, portalHistory, OpenHasContent, Open, Live
  <2>7. Codes'
    BY <1>1, <1>a DEF CreateBlob, portalStore, web, portalHistory, Codes
  <2>8. LeftBehind'
    BY <1>1, <1>a DEF CreateBlob, portalStore, web, portalHistory, LeftBehind, Live
  <2> QED  BY <2>1, <2>2, <2>3, <2>4, <2>5, <2>6, <2>7, <2>8 DEF PortalInv
<1>2. ASSUME NEW t \in Token, RequestCode(t)
      PROVE  PortalInv'
  <2>l. Open(t) /\ row[t].last < MaxCodes /\ row[t].state # "none"
    BY <1>2 DEF RequestCode, Open, Live
  <2>0. /\ row' \in [Token -> PortalRow] /\ row[t] \in PortalRow /\ row'[t] \in PortalRow
        /\ \A u \in Token : u # t => row'[u] = row[u]
        /\ row'[t].state = row[t].state /\ row'[t].left = row[t].left
        /\ row'[t].last = row[t].last + 1 /\ row'[t].code = row[t].last + 1
    <3>1. row \in [Token -> PortalRow] /\ row[t] \in PortalRow
      BY <1>a DEF PortalTypes
    <3>2. row' = [row EXCEPT ![t] = [row[t] EXCEPT !.code = row[t].last + 1, !.last = row[t].last + 1,
                            !.codeLeft = OtpTtl, !.tries = 0, !.cool = Cooldown]]
      BY <1>2 DEF RequestCode
    <3> QED  BY <3>1, <3>2, <2>l, CodeRow
  <2>1. PortalTypes'
    <3>1. <<t, row[t].last + 1>> \in Token \X Code
      BY <2>0 DEF PortalRow
    <3>2. UNCHANGED <<blob, replies, otp, making, mailed, cap, reading, replying, removing, purge, bought, stray>>
          /\ mailing' = mailing \cup {<<t, row[t].last + 1>>}
      BY <1>2 DEF RequestCode, portalHistory
    <3> QED  BY <1>a, <2>0, <3>1, <3>2 DEF PortalTypes
  <2>2. PortalEvents'
    BY <1>2, <1>a, <2>0 DEF RequestCode, WebFree, portalStore, web, portalHistory, PortalEvents
  <2>3. Absent'
    BY <1>2, <1>a, <2>0, <2>l DEF RequestCode, portalStore, web, portalHistory, Absent
  <2>4. Between'
    BY <1>2, <1>a, <2>0 DEF RequestCode, WebFree, portalStore, web, portalHistory, Between
  <2>5. Purged'
    BY <1>2, <1>a, <2>0 DEF RequestCode, WebFree, portalStore, web, portalHistory, Purged, Open, Live
  <2>6. OpenHasContent'
    BY <1>2, <1>a, <2>0 DEF RequestCode, WebFree, portalStore, web, portalHistory, OpenHasContent, Open, Live
  <2>7. Codes'
    <3>1. UNCHANGED <<bought, cap, mailed>>
      BY <1>2 DEF RequestCode, portalHistory
    <3>2. \A u \in Token : row'[u].code <= row'[u].last
      <4>1. \A u \in Token : row[u] \in PortalRow
        BY <1>a DEF PortalTypes
      <4>2. row'[t].code <= row'[t].last
        BY <2>0, RowIs
      <4> QED  BY <1>a, <2>0, <4>1, <4>2 DEF Codes
    <3>3. ASSUME NEW x \in bought
          PROVE  /\ x[3] # 0 /\ x[3] <= row'[x[2]].last /\ x[3] # row'[x[2]].code
                 /\ <<x[2], x[3]>> \in mailed
      <4>1. /\ x[2] \in Token /\ x[3] \in Nat
            /\ x[3] # 0 /\ x[3] <= row[x[2]].last /\ x[3] # row[x[2]].code
            /\ <<x[2], x[3]>> \in mailed
        BY <1>a DEF PortalTypes, Codes, Code
      <4>2. row[t].last \in Nat
        BY <2>0, RowIs
      <4>3. CASE x[2] = t
        BY <2>0, <4>1, <4>2, <4>3
      <4>4. CASE x[2] # t
        BY <2>0, <4>1, <4>4
      <4> QED  BY <4>3, <4>4
    <3> QED  BY <1>a, <3>1, <3>2, <3>3 DEF Codes
  <2>8. LeftBehind'
    BY <1>2, <1>a, <2>0 DEF RequestCode, WebFree, portalStore, web, portalHistory, LeftBehind, Live
  <2> QED  BY <2>1, <2>2, <2>3, <2>4, <2>5, <2>6, <2>7, <2>8 DEF PortalInv
<1>3. ASSUME NEW t \in Token, Miss(t)
      PROVE  PortalInv'
  <2>l. row[t].tries < MaxTries /\ row[t].state # "none"
    BY <1>3 DEF Miss, Checkable, Open, Live
  <2>0. /\ row' \in [Token -> PortalRow] /\ row[t] \in PortalRow /\ row'[t] \in PortalRow
        /\ \A u \in Token : u # t => row'[u] = row[u]
        /\ row'[t].state = row[t].state /\ row'[t].left = row[t].left
        /\ row'[t].last = row[t].last /\ row'[t].code = row[t].code
    <3>1. row \in [Token -> PortalRow] /\ row[t] \in PortalRow
      BY <1>a DEF PortalTypes
    <3>2. row' = [row EXCEPT ![t] = [row[t] EXCEPT !.tries = @ + 1]]
      BY <1>3 DEF Miss
    <3> QED  BY <3>1, <3>2, <2>l, MissRow
  <2>1. PortalTypes'
    BY <1>3, <1>a, <2>0 DEF Miss, WebFree, portalStore, web, portalHistory, PortalTypes
  <2>2. PortalEvents'
    BY <1>3, <1>a, <2>0 DEF Miss, WebFree, portalStore, web, portalHistory, PortalEvents
  <2>3. Absent'
    BY <1>3, <1>a, <2>0, <2>l DEF Miss, portalStore, web, portalHistory, Absent
  <2>4. Between'
    BY <1>3, <1>a, <2>0 DEF Miss, WebFree, portalStore, web, portalHistory, Between
  <2>5. Purged'
    BY <1>3, <1>a, <2>0 DEF Miss, WebFree, portalStore, web, portalHistory, Purged, Open, Live
  <2>6. OpenHasContent'
    BY <1>3, <1>a, <2>0 DEF Miss, WebFree, portalStore, web, portalHistory, OpenHasContent, Open, Live
  <2>7. Codes'
    BY <1>3, <1>a, <2>0 DEF Miss, WebFree, portalStore, web, portalHistory, Codes
  <2>8. LeftBehind'
    BY <1>3, <1>a, <2>0 DEF Miss, WebFree, portalStore, web, portalHistory, LeftBehind, Live
  <2> QED  BY <2>1, <2>2, <2>3, <2>4, <2>5, <2>6, <2>7, <2>8 DEF PortalInv
<1>4. ASSUME NEW t \in Token, Revoke(t)
      PROVE  PortalInv'
  <2>0. /\ row' \in [Token -> PortalRow] /\ row[t] \in PortalRow /\ row'[t] \in PortalRow
        /\ \A u \in Token : u # t => row'[u] = row[u]
        /\ row'[t].state = "deleted" /\ row'[t].left = row[t].left
        /\ row'[t].last = row[t].last /\ row'[t].code = row[t].code
    <3>1. row \in [Token -> PortalRow] /\ row[t] \in PortalRow
      BY <1>a DEF PortalTypes
    <3>2. row' = [row EXCEPT ![t] = [row[t] EXCEPT !.state = "deleted"]]
      BY <1>4 DEF Revoke
    <3> QED  BY <3>1, <3>2, DeletedRow
  <2>1. PortalTypes'
    BY <1>4, <1>a, <2>0 DEF Revoke, WebFree, PortalEvent, portalStore, web, portalHistory, PortalTypes
  <2>2. PortalEvents'
    BY <1>4, <1>a, <2>0 DEF Revoke, WebFree, PortalEvent, portalStore, web, portalHistory, PortalEvents
  <2>3. Absent'
    BY <1>4, <1>a, <2>0 DEF Revoke, WebFree, PortalEvent, portalStore, web, portalHistory, Absent
  <2>4. Between'
    BY <1>4, <1>a, <2>0 DEF Revoke, portalStore, web, portalHistory, Between, Live, PortalTypes, WebFree
  <2>5. Purged'
    BY <1>4, <1>a, <2>0 DEF Revoke, WebFree, PortalEvent, portalStore, web, portalHistory, Purged, Open, Live
  <2>6. OpenHasContent'
    BY <1>4, <1>a, <2>0 DEF Revoke, WebFree, PortalEvent, portalStore, web, portalHistory, OpenHasContent, Open, Live
  <2>7. Codes'
    BY <1>4, <1>a, <2>0 DEF Revoke, WebFree, PortalEvent, portalStore, web, portalHistory, Codes
  <2>8. LeftBehind'
    BY <1>4, <1>a, <2>0 DEF Revoke, WebFree, PortalEvent, portalStore, web, portalHistory, LeftBehind, Live
  <2> QED  BY <2>1, <2>2, <2>3, <2>4, <2>5, <2>6, <2>7, <2>8 DEF PortalInv
<1>5. CASE CreateRow
  <2>0. /\ row' \in [Token -> PortalRow] /\ making \in Token
        /\ \A u \in Token : u # making => row'[u] = row[u]
        /\ \/ row' = row /\ stray' = stray \cup {<<making, "no_row">>}
           \/ /\ row'[making].state = "live" /\ row'[making].last = 0 /\ row'[making].code = 0
              /\ stray' = stray
        /\ row[making] = NoRow
    <3>1. row \in [Token -> PortalRow] /\ making \in Token /\ row[making] = NoRow
      BY <1>5, <1>a DEF CreateRow, PortalTypes, Between, Absent
    <3>2. row' = row \/ row' = [row EXCEPT ![making] = [NoRow EXCEPT !.state = "live", !.left = Retention]]
      BY <1>5 DEF CreateRow, Fresh
    <3> QED  BY <1>5, <3>1, <3>2, FreshRow DEF CreateRow, Fresh
  <2>1. PortalTypes'
    BY <1>5, <1>a, <2>0 DEF CreateRow, portalStore, web, portalHistory, PortalTypes
  <2>2. PortalEvents'
    BY <1>5, <1>a, <2>0 DEF CreateRow, portalStore, web, portalHistory, PortalEvents
  <2>3. Absent'
    BY <1>5, <1>a, <2>0 DEF CreateRow, portalStore, web, portalHistory, Absent
  <2>4. Between'
    BY <1>5, <1>a, <2>0 DEF CreateRow, portalStore, web, portalHistory, Between, PortalTypes
  <2>5. Purged'
    <3>1. making \notin purge.sel
      BY <1>5, <1>a, <2>0 DEF CreateRow, Between, Absent
    <3>2. purge' = purge /\ blob' = blob /\ purge.sel \subseteq Token
      BY <1>5, <1>a DEF CreateRow, PortalTypes
    <3>3. \A u \in purge.sel : row'[u] = row[u]
      BY <2>0, <3>1, <3>2
    <3> QED  BY <1>a, <3>2, <3>3 DEF Purged, Open, Live
  <2>6. OpenHasContent'
    <3>1. making \in blob /\ blob' = blob
      BY <1>5, <1>a DEF CreateRow, Between
    <3>2. \A u \in Token : u # making => (Open(u)' <=> Open(u))
      BY <2>0 DEF Open, Live
    <3> QED  BY <1>a, <3>1, <3>2 DEF OpenHasContent
  <2>7. Codes'
    <3>1. UNCHANGED <<bought, cap, mailed>>
      BY <1>5 DEF CreateRow, web, portalHistory
    <3>2. \A u \in Token : row'[u].last = row[u].last /\ row'[u].code = row[u].code
      <4>1. row[making].last = 0 /\ row[making].code = 0
        BY <2>0, NoRowIn
      <4> QED  BY <2>0, <4>1
    <3>3. \A x \in bought : x[2] \in Token
      BY <1>a DEF PortalTypes
    <3> QED  BY <1>a, <3>1, <3>2, <3>3 DEF Codes
  <2>8. LeftBehind'
    BY <1>5, <1>a, <2>0 DEF CreateRow, portalStore, web, portalHistory, LeftBehind, Live
  <2> QED  BY <2>1, <2>2, <2>3, <2>4, <2>5, <2>6, <2>7, <2>8 DEF PortalInv
<1>6. CASE EndRead
  <2>1. PortalTypes'
    BY <1>6, <1>a DEF EndRead, portalStore, web, portalHistory, PortalTypes
  <2>2. PortalEvents'
    BY <1>6, <1>a DEF EndRead, portalStore, web, portalHistory, PortalEvents
  <2>3. Absent'
    BY <1>6, <1>a DEF EndRead, portalStore, web, portalHistory, Absent
  <2>4. Between'
    BY <1>6, <1>a DEF EndRead, portalStore, web, portalHistory, Between
  <2>5. Purged'
    BY <1>6, <1>a DEF EndRead, portalStore, web, portalHistory, Purged, Open, Live
  <2>6. OpenHasContent'
    BY <1>6, <1>a DEF EndRead, portalStore, web, portalHistory, OpenHasContent, Open, Live
  <2>7. Codes'
    BY <1>6, <1>a DEF EndRead, portalStore, web, portalHistory, Codes
  <2>8. LeftBehind'
    BY <1>6, <1>a DEF EndRead, portalStore, web, portalHistory, LeftBehind, Live
  <2> QED  BY <2>1, <2>2, <2>3, <2>4, <2>5, <2>6, <2>7, <2>8 DEF PortalInv
<1>7. CASE Unlink
  <2>1. PortalTypes'
    BY <1>7, <1>a DEF Unlink, portalStore, web, portalHistory, PortalTypes
  <2>2. PortalEvents'
    BY <1>7, <1>a DEF Unlink, portalStore, web, portalHistory, PortalEvents
  <2>3. Absent'
    BY <1>7, <1>a DEF Unlink, portalStore, web, portalHistory, Absent
  <2>4. Between'
    BY <1>7, <1>a DEF Unlink, portalStore, web, portalHistory, Between
  <2>5. Purged'
    BY <1>7, <1>a DEF Unlink, portalStore, web, portalHistory, Purged, Open, Live
  <2>6. OpenHasContent'
    BY <1>7, <1>a DEF Unlink, portalStore, web, portalHistory, OpenHasContent, Open, Live, Between
  <2>7. Codes'
    BY <1>7, <1>a DEF Unlink, portalStore, web, portalHistory, Codes
  <2>8. LeftBehind'
    BY <1>7, <1>a DEF Unlink, portalStore, web, portalHistory, LeftBehind, Live
  <2> QED  BY <2>1, <2>2, <2>3, <2>4, <2>5, <2>6, <2>7, <2>8 DEF PortalInv
<1>8. CASE Switch
  <2>1. PortalTypes'
    BY <1>8, <1>a DEF Switch, PortalEvent, portalStore, web, portalHistory, PortalTypes
  <2>2. PortalEvents'
    BY <1>8, <1>a DEF Switch, PortalEvent, portalStore, web, portalHistory, PortalEvents
  <2>3. Absent'
    BY <1>8, <1>a DEF Switch, PortalEvent, portalStore, web, portalHistory, Absent
  <2>4. Between'
    BY <1>8, <1>a DEF Switch, PortalEvent, portalStore, web, portalHistory, Between
  <2>5. Purged'
    BY <1>8, <1>a DEF Switch, PortalEvent, portalStore, web, portalHistory, Purged, Open, Live
  <2>6. OpenHasContent'
    BY <1>8, <1>a DEF Switch, PortalEvent, portalStore, web, portalHistory, OpenHasContent, Open, Live
  <2>7. Codes'
    BY <1>8, <1>a DEF Switch, PortalEvent, portalStore, web, portalHistory, Codes
  <2>8. LeftBehind'
    BY <1>8, <1>a DEF Switch, PortalEvent, portalStore, web, portalHistory, LeftBehind, Live
  <2> QED  BY <2>1, <2>2, <2>3, <2>4, <2>5, <2>6, <2>7, <2>8 DEF PortalInv
<1>9. CASE PurgeSelect
  <2>1. PortalTypes'
    BY <1>9, <1>a DEF PurgeSelect, NoPurge, portalStore, web, portalHistory, PortalTypes
  <2>2. PortalEvents'
    BY <1>9, <1>a DEF PurgeSelect, NoPurge, portalStore, web, portalHistory, PortalEvents
  <2>3. Absent'
    <3>1. /\ UNCHANGED <<row, replies, replying>>
          /\ purge'.sel = {u \in Token : Live(u) /\ ~Open(u)}
      BY <1>9 DEF PurgeSelect, NoPurge, portalStore, web
    <3> QED  BY <1>a, <3>1 DEF Absent, Live
  <2>4. Between'
    BY <1>9, <1>a DEF PurgeSelect, NoPurge, portalStore, web, portalHistory, Between
  <2>5. Purged'
    BY <1>9, <1>a DEF PurgeSelect, NoPurge, portalStore, web, portalHistory, Purged, Open, Live
  <2>6. OpenHasContent'
    BY <1>9, <1>a DEF PurgeSelect, NoPurge, portalStore, web, portalHistory, OpenHasContent, Open, Live
  <2>7. Codes'
    BY <1>9, <1>a DEF PurgeSelect, NoPurge, portalStore, web, portalHistory, Codes
  <2>8. LeftBehind'
    BY <1>9, <1>a DEF PurgeSelect, NoPurge, portalStore, web, portalHistory, LeftBehind, Live
  <2> QED  BY <2>1, <2>2, <2>3, <2>4, <2>5, <2>6, <2>7, <2>8 DEF PortalInv
<1>10. ASSUME NEW t \in Token, PurgeUnlink(t)
      PROVE  PortalInv'
  <2>1. PortalTypes'
    BY <1>10, <1>a DEF PurgeUnlink, portalStore, web, portalHistory, PortalTypes
  <2>2. PortalEvents'
    BY <1>10, <1>a DEF PurgeUnlink, portalStore, web, portalHistory, PortalEvents
  <2>3. Absent'
    BY <1>10, <1>a DEF PurgeUnlink, portalStore, web, portalHistory, Absent
  <2>4. Between'
    BY <1>10, <1>a DEF PurgeUnlink, portalStore, web, portalHistory, Between, Absent, PortalTypes
  <2>5. Purged'
    BY <1>10, <1>a DEF PurgeUnlink, portalStore, web, portalHistory, Purged, Open, Live
  <2>6. OpenHasContent'
    BY <1>10, <1>a DEF PurgeUnlink, portalStore, web, portalHistory, OpenHasContent, Open, Live, Purged
  <2>7. Codes'
    BY <1>10, <1>a DEF PurgeUnlink, portalStore, web, portalHistory, Codes
  <2>8. LeftBehind'
    BY <1>10, <1>a DEF PurgeUnlink, portalStore, web, portalHistory, LeftBehind, Live
  <2> QED  BY <2>1, <2>2, <2>3, <2>4, <2>5, <2>6, <2>7, <2>8 DEF PortalInv
<1>11. CASE PurgeCommit
  <2>0. /\ row' \in [Token -> PortalRow]
        /\ \A u \in Token : \/ row'[u] = row[u]
                            \/ /\ u \in purge.sel /\ row'[u].state = "deleted" /\ row'[u].left = row[u].left
                               /\ row'[u].last = row[u].last /\ row'[u].code = row[u].code
        /\ \/ row' = row /\ replies' = replies
           \/ (\A u \in purge.sel : row'[u].state = "deleted") /\ replies' = replies \ purge.sel
    <3>1. row \in [Token -> PortalRow]
      BY <1>a DEF PortalTypes
    <3>2. \/ row' = row /\ replies' = replies
          \/ /\ row' = [u \in Token |-> IF u \in purge.sel
                                   THEN [row[u] EXCEPT !.state = "deleted"] ELSE row[u]]
             /\ replies' = replies \ purge.sel
      BY <1>11 DEF PurgeCommit
    <3>3. \A u \in Token : LET s == [row[u] EXCEPT !.state = "deleted"]
                           IN  /\ s \in PortalRow /\ s.state = "deleted" /\ s.left = row[u].left
                               /\ s.last = row[u].last /\ s.code = row[u].code
      BY <3>1, DeletedRow
    <3>4. purge.sel \subseteq Token
      BY <1>a DEF PortalTypes
    <3>5. CASE row' = row /\ replies' = replies
      BY <3>1, <3>5
    <3>6. CASE /\ row' = [u \in Token |-> IF u \in purge.sel
                                   THEN [row[u] EXCEPT !.state = "deleted"] ELSE row[u]]
               /\ replies' = replies \ purge.sel
      <4>1. \A u \in Token : row'[u] = IF u \in purge.sel THEN [row[u] EXCEPT !.state = "deleted"] ELSE row[u]
        BY <3>6
      <4>2. row' \in [Token -> PortalRow]
        BY <3>1, <3>3, <3>6
      <4> QED  BY <3>3, <3>4, <3>6, <4>1, <4>2
    <3> QED  BY <3>2, <3>5, <3>6
  <2>1. PortalTypes'
    BY <1>11, <1>a, <2>0 DEF PurgeCommit, NoPurge, portalStore, web, portalHistory, PortalTypes
  <2>2. PortalEvents'
    BY <1>11, <1>a, <2>0 DEF PurgeCommit, NoPurge, portalStore, web, portalHistory, PortalEvents
  <2>3. Absent'
    BY <1>11, <1>a, <2>0 DEF PurgeCommit, NoPurge, portalStore, web, portalHistory, Absent
  <2>4. Between'
    <3>1. UNCHANGED <<making, removing, blob>>
      BY <1>11 DEF PurgeCommit, web
    <3>2. making \in Token => making \notin purge.sel \/ row[making].state # "none"
      BY <1>a DEF Absent
    <3>3. making \in Token \cup {Nobody} /\ removing \in Token \cup {Nobody}
      BY <1>a DEF PortalTypes
    <3>4. making # Nobody => row'[making] = row[making]
      BY <1>a, <2>0, <3>2, <3>3 DEF Between
    <3>5. removing # Nobody => row'[removing].state = "deleted"
      BY <1>a, <2>0, <3>3 DEF Between
    <3> QED  BY <1>a, <3>1, <3>4, <3>5 DEF Between
  <2>5. Purged'
    BY <1>11, <1>a, <2>0 DEF PurgeCommit, NoPurge, portalStore, web, portalHistory, Purged, Open, Live
  <2>6. OpenHasContent'
    BY <1>11, <1>a, <2>0 DEF PurgeCommit, NoPurge, portalStore, web, portalHistory, OpenHasContent, Open, Live
  <2>7. Codes'
    <3>1. UNCHANGED <<bought, cap, mailed>>
      BY <1>11 DEF PurgeCommit, web, portalHistory
    <3>2. \A u \in Token : row'[u].last = row[u].last /\ row'[u].code = row[u].code
      BY <2>0
    <3>3. \A x \in bought : x[2] \in Token
      BY <1>a DEF PortalTypes
    <3> QED  BY <1>a, <3>1, <3>2, <3>3 DEF Codes
  <2>8. LeftBehind'
    <3>1. /\ UNCHANGED <<making, removing, blob, stray>> /\ purge.gone = purge.sel
      BY <1>11 DEF PurgeCommit, web, portalHistory
    <3>2. \A u \in purge.sel : u \notin blob
      BY <1>a, <3>1 DEF Purged
    <3>3. \A u \in Token : u \notin purge.sel => row'[u] = row[u]
      BY <2>0
    <3>4. replies' \subseteq replies /\ (row' = row \/ \A u \in purge.sel : u \notin replies')
      BY <2>0
    <3> QED  BY <1>a, <3>1, <3>2, <3>3, <3>4 DEF LeftBehind, Live
  <2> QED  BY <2>1, <2>2, <2>3, <2>4, <2>5, <2>6, <2>7, <2>8 DEF PortalInv
<1>12. CASE PortalCrash
  <2>1. PortalTypes'
    BY <1>12, <1>a DEF PortalCrash, PortalEvent, NoPurge, portalStore, web, portalHistory, PortalTypes
  <2>2. PortalEvents'
    BY <1>12, <1>a DEF PortalCrash, PortalEvent, NoPurge, portalStore, web, portalHistory, PortalEvents
  <2>3. Absent'
    BY <1>12, <1>a DEF PortalCrash, PortalEvent, NoPurge, portalStore, web, portalHistory, Absent
  <2>4. Between'
    BY <1>12, <1>a DEF PortalCrash, PortalEvent, NoPurge, portalStore, web, portalHistory, Between
  <2>5. Purged'
    BY <1>12, <1>a DEF PortalCrash, PortalEvent, NoPurge, portalStore, web, portalHistory, Purged, Open, Live
  <2>6. OpenHasContent'
    BY <1>12, <1>a DEF PortalCrash, PortalEvent, NoPurge, portalStore, web, portalHistory, OpenHasContent, Open, Live
  <2>7. Codes'
    BY <1>12, <1>a DEF PortalCrash, PortalEvent, NoPurge, portalStore, web, portalHistory, Codes
  <2>8. LeftBehind'
    BY <1>12, <1>a DEF PortalCrash, PortalEvent, NoPurge, portalStore, web, portalHistory, LeftBehind, Live
  <2> QED  BY <2>1, <2>2, <2>3, <2>4, <2>5, <2>6, <2>7, <2>8 DEF PortalInv
<1>13. CASE PortalTick
  <2>0. /\ row' \in [Token -> PortalRow]
        /\ \A u \in Token : /\ row'[u].state = row[u].state /\ row'[u].left <= row[u].left
                            /\ row'[u].left \in Nat /\ row[u].left \in Nat
                            /\ row'[u].last = row[u].last /\ row'[u].code = row[u].code
                            /\ row[u] = NoRow => row'[u] = NoRow
    <3>1. row \in [Token -> PortalRow]
      BY <1>a DEF PortalTypes
    <3>2. row' = [u \in Token |->
               [row[u] EXCEPT !.left = Down(row[u].left), !.codeLeft = Down(row[u].codeLeft),
                              !.cool = Down(row[u].cool), !.accessLeft = Down(row[u].accessLeft)]]
      BY <1>13 DEF PortalTick
    <3>3. \A u \in Token :
             LET s == [row[u] EXCEPT !.left = Down(row[u].left), !.codeLeft = Down(row[u].codeLeft),
                              !.cool = Down(row[u].cool), !.accessLeft = Down(row[u].accessLeft)]
             IN  /\ s \in PortalRow /\ s.state = row[u].state /\ s.left <= row[u].left
                 /\ s.last = row[u].last /\ s.code = row[u].code
                 /\ row[u] = NoRow => s = NoRow
      BY <3>1, TickRow
    <3>4. row' \in [Token -> PortalRow]
      BY <3>2, <3>3
    <3>5. \A u \in Token : row'[u].left \in Nat /\ row[u].left \in Nat
      BY <3>1, <3>4, RowIs
    <3> QED  BY <3>2, <3>3, <3>4, <3>5
  <2>1. PortalTypes'
    BY <1>13, <1>a, <2>0 DEF PortalTick, portalStore, web, portalHistory, PortalTypes
  <2>2. PortalEvents'
    BY <1>13, <1>a, <2>0 DEF PortalTick, portalStore, web, portalHistory, PortalEvents
  <2>3. Absent'
    BY <1>13, <1>a, <2>0 DEF PortalTick, portalStore, web, portalHistory, Absent
  <2>4. Between'
    <3>1. UNCHANGED <<making, removing, blob>>
      BY <1>13 DEF PortalTick, web
    <3>2. making \in Token \cup {Nobody} /\ removing \in Token \cup {Nobody}
      BY <1>a DEF PortalTypes
    <3> QED  BY <1>a, <2>0, <3>1, <3>2 DEF Between
  <2>5. Purged'
    <3>1. UNCHANGED <<purge, blob>> /\ purge.sel \subseteq Token
      BY <1>13, <1>a DEF PortalTick, PortalTypes
    <3>2. \A u \in Token : Open(u)' => Open(u)
      BY <2>0 DEF Open, Live
    <3> QED  BY <1>a, <3>1, <3>2 DEF Purged
  <2>6. OpenHasContent'
    <3>1. blob' = blob
      BY <1>13 DEF PortalTick
    <3>2. \A u \in Token : Open(u)' => Open(u)
      BY <2>0 DEF Open, Live
    <3> QED  BY <1>a, <3>1, <3>2 DEF OpenHasContent
  <2>7. Codes'
    <3>1. UNCHANGED <<bought, cap, mailed>>
      BY <1>13 DEF PortalTick, web, portalHistory
    <3>2. \A u \in Token : row'[u].last = row[u].last /\ row'[u].code = row[u].code
      BY <2>0
    <3>3. \A x \in bought : x[2] \in Token
      BY <1>a DEF PortalTypes
    <3> QED  BY <1>a, <3>1, <3>2, <3>3 DEF Codes
  <2>8. LeftBehind'
    BY <1>13, <1>a, <2>0 DEF PortalTick, portalStore, web, portalHistory, LeftBehind, Live
  <2> QED  BY <2>1, <2>2, <2>3, <2>4, <2>5, <2>6, <2>7, <2>8 DEF PortalInv
<1>14. ASSUME NEW m \in mailing, CodeSent(m)
      PROVE  PortalInv'
  <2>1. PortalTypes'
    BY <1>14, <1>a DEF CodeSent, portalStore, web, portalHistory, PortalTypes
  <2>2. PortalEvents'
    BY <1>14, <1>a DEF CodeSent, portalStore, web, portalHistory, PortalEvents
  <2>3. Absent'
    BY <1>14, <1>a DEF CodeSent, portalStore, web, portalHistory, Absent
  <2>4. Between'
    BY <1>14, <1>a DEF CodeSent, portalStore, web, portalHistory, Between
  <2>5. Purged'
    BY <1>14, <1>a DEF CodeSent, portalStore, web, portalHistory, Purged, Open, Live
  <2>6. OpenHasContent'
    BY <1>14, <1>a DEF CodeSent, portalStore, web, portalHistory, OpenHasContent, Open, Live
  <2>7. Codes'
    BY <1>14, <1>a DEF CodeSent, portalStore, web, portalHistory, Codes
  <2>8. LeftBehind'
    BY <1>14, <1>a DEF CodeSent, portalStore, web, portalHistory, LeftBehind, Live
  <2> QED  BY <2>1, <2>2, <2>3, <2>4, <2>5, <2>6, <2>7, <2>8 DEF PortalInv
<1>15. ASSUME NEW b \in Browser, NEW t \in Token, Enter(b, t)
      PROVE  PortalInv'
  <2>l. Open(t) /\ row[t].state # "none" /\ row[t].code # 0 /\ <<t, row[t].code>> \in mailed
    BY <1>15 DEF Enter, Checkable, Open, Live
  <2>0. /\ row' \in [Token -> PortalRow] /\ row[t] \in PortalRow /\ row'[t] \in PortalRow
        /\ \A u \in Token : u # t => row'[u] = row[u]
        /\ row'[t].state = row[t].state /\ row'[t].left = row[t].left
        /\ row'[t].last = row[t].last /\ row'[t].code = 0
    <3>1. row \in [Token -> PortalRow] /\ row[t] \in PortalRow
      BY <1>a DEF PortalTypes
    <3>2. row' = [row EXCEPT ![t] = [row[t] EXCEPT !.access = row[t].code, !.accessLeft = AccessTtl, !.code = 0]]
      BY <1>15 DEF Enter
    <3> QED  BY <3>1, <3>2, EnterRow
  <2>1. PortalTypes'
    BY <1>15, <1>a, <2>0 DEF Enter, WebFree, portalStore, web, portalHistory, PortalTypes
  <2>2. PortalEvents'
    BY <1>15, <1>a, <2>0 DEF Enter, WebFree, portalStore, web, portalHistory, PortalEvents
  <2>3. Absent'
    BY <1>15, <1>a, <2>0, <2>l DEF Enter, portalStore, web, portalHistory, Absent
  <2>4. Between'
    BY <1>15, <1>a, <2>0 DEF Enter, WebFree, portalStore, web, portalHistory, Between
  <2>5. Purged'
    BY <1>15, <1>a, <2>0 DEF Enter, WebFree, portalStore, web, portalHistory, Purged, Open, Live
  <2>6. OpenHasContent'
    BY <1>15, <1>a, <2>0 DEF Enter, WebFree, portalStore, web, portalHistory, OpenHasContent, Open, Live
  <2>7. Codes'
    <3>1. /\ bought' = bought \cup {<<b, t, row[t].code>>} /\ mailed' = mailed
          /\ cap' = [cap EXCEPT ![b] = @ \cup {<<t, row[t].code>>}]
      BY <1>15 DEF Enter
    <3>0. /\ cap \in [Browser -> SUBSET (Token \X Code)] /\ \A u \in Token : row[u] \in PortalRow
          /\ bought \subseteq Browser \X Token \X Code
      BY <1>a DEF PortalTypes
    <3>2. \A u \in Token : row'[u].code <= row'[u].last /\ row'[u].last = row[u].last
      <4>1. row'[t].code <= row'[t].last
        BY <2>0, RowIs
      <4> QED  BY <1>a, <2>0, <4>1 DEF Codes
    <3>3. ASSUME NEW x \in bought
          PROVE  /\ x[3] # 0 /\ x[3] <= row'[x[2]].last /\ x[3] # row'[x[2]].code
                 /\ <<x[2], x[3]>> \in mailed
      <4>1. /\ x[2] \in Token
            /\ x[3] # 0 /\ x[3] <= row[x[2]].last /\ x[3] # row[x[2]].code
            /\ <<x[2], x[3]>> \in mailed
        BY <1>a, <3>0 DEF Codes
      <4> QED  BY <2>0, <3>2, <4>1
    <3>4. /\ row[t].code # 0 /\ row[t].code <= row'[t].last /\ row[t].code # row'[t].code
          /\ <<t, row[t].code>> \in mailed
      BY <1>a, <2>0, <2>l, <3>2 DEF Codes
    <3>5. \A x \in bought : ~(x[2] = t /\ x[3] = row[t].code)
      BY <1>a DEF Codes
    <3>6. \A x, y \in bought' : x[2] = y[2] /\ x[3] = y[3] => x[1] = y[1]
      BY <1>a, <3>1, <3>5 DEF Codes
    <3>7. ASSUME NEW d \in Browser, NEW m \in cap'[d] PROVE <<d, m[1], m[2]>> \in bought'
      <4>1. m \in cap[d] \/ (d = b /\ m = <<t, row[t].code>>)
        BY <3>0, <3>1
      <4> QED  BY <1>a, <3>1, <4>1 DEF Codes
    <3>8. \A x \in bought' :
             /\ x[3] # 0 /\ x[3] <= row'[x[2]].last /\ x[3] # row'[x[2]].code
             /\ <<x[2], x[3]>> \in mailed'
      <4> SUFFICES ASSUME NEW x \in bought'
            PROVE  /\ x[3] # 0 /\ x[3] <= row'[x[2]].last /\ x[3] # row'[x[2]].code
                   /\ <<x[2], x[3]>> \in mailed'
        OBVIOUS
      <4>1. CASE x \in bought
        BY <3>1, <3>3, <4>1
      <4>2. CASE x = <<b, t, row[t].code>>
        BY <3>1, <3>4, <4>2
      <4> QED  BY <3>1, <4>1, <4>2
    <3> QED  BY <3>2, <3>6, <3>7, <3>8 DEF Codes
  <2>8. LeftBehind'
    BY <1>15, <1>a, <2>0 DEF Enter, WebFree, portalStore, web, portalHistory, LeftBehind, Live
  <2> QED  BY <2>1, <2>2, <2>3, <2>4, <2>5, <2>6, <2>7, <2>8 DEF PortalInv
<1>16. ASSUME NEW b \in Browser, NEW t \in Token, BeginRead(b, t)
      PROVE  PortalInv'
  <2>1. PortalTypes'
    BY <1>16, <1>a DEF BeginRead, WebFree, portalStore, web, portalHistory, PortalTypes
  <2>2. PortalEvents'
    BY <1>16, <1>a DEF BeginRead, WebFree, portalStore, web, portalHistory, PortalEvents
  <2>3. Absent'
    BY <1>16, <1>a DEF BeginRead, WebFree, portalStore, web, portalHistory, Absent
  <2>4. Between'
    BY <1>16, <1>a DEF BeginRead, WebFree, portalStore, web, portalHistory, Between
  <2>5. Purged'
    BY <1>16, <1>a DEF BeginRead, WebFree, portalStore, web, portalHistory, Purged, Open, Live
  <2>6. OpenHasContent'
    BY <1>16, <1>a DEF BeginRead, WebFree, portalStore, web, portalHistory, OpenHasContent, Open, Live
  <2>7. Codes'
    BY <1>16, <1>a DEF BeginRead, WebFree, portalStore, web, portalHistory, Codes
  <2>8. LeftBehind'
    BY <1>16, <1>a DEF BeginRead, WebFree, portalStore, web, portalHistory, LeftBehind, Live
  <2> QED  BY <2>1, <2>2, <2>3, <2>4, <2>5, <2>6, <2>7, <2>8 DEF PortalInv
<1>17. ASSUME NEW b \in Browser, NEW t \in Token, BeginReply(b, t)
      PROVE  PortalInv'
  <2>1. PortalTypes'
    BY <1>17, <1>a DEF BeginReply, MayEnter, Open, Live, WebFree, portalStore, web, portalHistory, PortalTypes
  <2>2. PortalEvents'
    BY <1>17, <1>a DEF BeginReply, MayEnter, Open, Live, WebFree, portalStore, web, portalHistory, PortalEvents
  <2>3. Absent'
    BY <1>17, <1>a DEF BeginReply, MayEnter, Open, Live, WebFree, portalStore, web, portalHistory, Absent
  <2>4. Between'
    BY <1>17, <1>a DEF BeginReply, MayEnter, Open, Live, WebFree, portalStore, web, portalHistory, Between
  <2>5. Purged'
    BY <1>17, <1>a DEF BeginReply, MayEnter, Open, Live, WebFree, portalStore, web, portalHistory, Purged, Open, Live
  <2>6. OpenHasContent'
    BY <1>17, <1>a DEF BeginReply, MayEnter, Open, Live, WebFree, portalStore, web, portalHistory, OpenHasContent, Open, Live
  <2>7. Codes'
    BY <1>17, <1>a DEF BeginReply, MayEnter, Open, Live, WebFree, portalStore, web, portalHistory, Codes
  <2>8. LeftBehind'
    BY <1>17, <1>a DEF BeginReply, MayEnter, Open, Live, WebFree, portalStore, web, portalHistory, LeftBehind, Live
  <2> QED  BY <2>1, <2>2, <2>3, <2>4, <2>5, <2>6, <2>7, <2>8 DEF PortalInv
<1>18. ASSUME NEW b \in Browser, NEW t \in Token, EndReply(b, t)
      PROVE  PortalInv'
  <2>1. PortalTypes'
    BY <1>18, <1>a DEF EndReply, Live, WebFree, portalStore, web, portalHistory, PortalTypes
  <2>2. PortalEvents'
    BY <1>18, <1>a DEF EndReply, Live, WebFree, portalStore, web, portalHistory, PortalEvents
  <2>3. Absent'
    BY <1>18, <1>a DEF EndReply, Live, WebFree, portalStore, web, portalHistory, Absent
  <2>4. Between'
    BY <1>18, <1>a DEF EndReply, Live, WebFree, portalStore, web, portalHistory, Between
  <2>5. Purged'
    BY <1>18, <1>a DEF EndReply, Live, WebFree, portalStore, web, portalHistory, Purged, Open, Live
  <2>6. OpenHasContent'
    BY <1>18, <1>a DEF EndReply, Live, WebFree, portalStore, web, portalHistory, OpenHasContent, Open, Live
  <2>7. Codes'
    BY <1>18, <1>a DEF EndReply, Live, WebFree, portalStore, web, portalHistory, Codes
  <2>8. LeftBehind'
    BY <1>18, <1>a DEF EndReply, Live, WebFree, portalStore, web, portalHistory, LeftBehind, Live
  <2> QED  BY <2>1, <2>2, <2>3, <2>4, <2>5, <2>6, <2>7, <2>8 DEF PortalInv
<1>19. CASE UNCHANGED portalVars
  <2>1. PortalTypes'
    BY <1>19, <1>a DEF portalVars, PortalTypes
  <2>2. PortalEvents'
    BY <1>19, <1>a DEF portalVars, PortalEvents
  <2>3. Absent'
    BY <1>19, <1>a DEF portalVars, Absent
  <2>4. Between'
    BY <1>19, <1>a DEF portalVars, Between
  <2>5. Purged'
    BY <1>19, <1>a DEF portalVars, Purged, Open, Live
  <2>6. OpenHasContent'
    BY <1>19, <1>a DEF portalVars, OpenHasContent, Open, Live
  <2>7. Codes'
    BY <1>19, <1>a DEF portalVars, Codes
  <2>8. LeftBehind'
    BY <1>19, <1>a DEF portalVars, LeftBehind, Live
  <2> QED  BY <2>1, <2>2, <2>3, <2>4, <2>5, <2>6, <2>7, <2>8 DEF PortalInv
<1> QED  BY <1>1, <1>2, <1>3, <1>4, <1>5, <1>6, <1>7, <1>8, <1>9, <1>10, <1>11, <1>12, <1>13, <1>14, <1>15, <1>16, <1>17, <1>18, <1>19 DEF PortalNext, Purge

LEMMA PortalStart == PortalInit => PortalInv
<1> SUFFICES ASSUME PortalInit PROVE PortalInv
  OBVIOUS
<1>0. /\ row = [t \in Token |-> NoRow] /\ blob = {} /\ replies = {} /\ otp \in BOOLEAN
      /\ making = Nobody /\ mailing = {} /\ mailed = {} /\ cap = [b \in Browser |-> {}]
      /\ reading = Nobody /\ replying = {} /\ removing = Nobody /\ purge = [sel |-> {}, gone |-> {}]
      /\ bought = {} /\ stray = {} /\ portalEvents = 0
  BY DEF PortalInit, NoPurge
<1>1. PortalTypes
  <2>1. row \in [Token -> PortalRow]
    BY <1>0, NoRowIn
  <2>2. purge \in [sel : SUBSET Token, gone : SUBSET Token] /\ cap \in [Browser -> SUBSET (Token \X Code)]
    BY <1>0
  <2> QED  BY <1>0, <2>1, <2>2 DEF PortalTypes
<1>2. PortalEvents
  BY <1>0 DEF PortalEvents
<1>3. \A t \in Token : row[t].state = "none" /\ ~Open(t) /\ row[t].code = 0 /\ row[t].last = 0
  BY <1>0, NoRowIn DEF Open, Live
<1>4. Absent
  BY <1>0 DEF Absent
<1>5. Between /\ Purged
  BY <1>0 DEF Between, Purged
<1>6. OpenHasContent
  BY <1>3 DEF OpenHasContent
<1>7. Codes
  BY <1>0, <1>3 DEF Codes
<1>8. LeftBehind
  BY <1>0 DEF LeftBehind
<1> QED  BY <1>1, <1>2, <1>4, <1>5, <1>6, <1>7, <1>8 DEF PortalInv

LEMMA PortalCorrect == PortalInit /\ [][PortalNext]_portalVars => []PortalInv
BY PortalStart, PortalStep, PTL

LEMMA PortalFromInv == PortalInv => PortalTypeOK /\ OpenHasContent /\ CodeOnce /\ LeftoversExplained
<1> SUFFICES ASSUME PortalInv PROVE PortalTypeOK /\ OpenHasContent /\ CodeOnce /\ LeftoversExplained
  OBVIOUS
<1>1. PortalTypeOK
  BY DEF PortalInv, PortalTypes, PortalEvents, PortalTypeOK
<1>2. CodeOnce
  BY DEF PortalInv, Codes, CodeOnce
<1>3. LeftoversExplained
  BY DEF PortalInv, LeftBehind, LeftoversExplained
<1> QED  BY <1>1, <1>2, <1>3 DEF PortalInv

-----------------------------------------------------------------------------
(* The portal does what Disclosure promises.                               *)

LifeOf == [t \in Token |-> Life(t)]
KeyOf == [t \in Token |-> IF Holder(t) = {} THEN Nobody ELSE CHOOSE b \in Browser : b \in Holder(t)]
Visits == replying \cup (IF reading = Nobody THEN {} ELSE {reading})

(* A message has one browser that is admitted, or none.                    *)
OneHolder ==
  \A t \in Token : /\ KeyOf[t] \in Browser \cup {Nobody}
                   /\ \A b \in Browser : KeyOf[t] = b <=> Admitted(b, t)

LEMMA HolderIs == PortalInv => OneHolder
<1> SUFFICES ASSUME PortalInv, NEW t \in Token
      PROVE  /\ KeyOf[t] \in Browser \cup {Nobody}
             /\ \A b \in Browser : KeyOf[t] = b <=> Admitted(b, t)
  BY DEF OneHolder
<1>1. \A b, d \in Browser : Admitted(b, t) /\ Admitted(d, t) => b = d
  <2> SUFFICES ASSUME NEW b \in Browser, NEW d \in Browser, Admitted(b, t), Admitted(d, t)
        PROVE  b = d
    OBVIOUS
  <2>1. <<b, t, row[t].access>> \in bought /\ <<d, t, row[t].access>> \in bought
    BY DEF Admitted, PortalInv, Codes
  <2>2. \A x, y \in bought : x[2] = y[2] /\ x[3] = y[3] => x[1] = y[1]
    BY DEF PortalInv, Codes
  <2> QED  BY <2>1, <2>2
<1>2. CASE Holder(t) = {}
  <2>1. KeyOf[t] = Nobody
    BY <1>2 DEF KeyOf
  <2>2. \A b \in Browser : ~Admitted(b, t) /\ b # Nobody
    BY <1>2 DEF Holder
  <2> QED  BY <2>1, <2>2
<1>3. CASE Holder(t) # {}
  <2>1. KeyOf[t] = CHOOSE b \in Browser : b \in Holder(t)
    BY <1>3 DEF KeyOf
  <2>2. \E b \in Browser : b \in Holder(t)
    BY <1>3 DEF Holder
  <2>3. KeyOf[t] \in Browser /\ KeyOf[t] \in Holder(t)
    BY <2>1, <2>2
  <2> QED  BY <1>1, <2>3 DEF Holder
<1> QED  BY <1>2, <1>3

(* A message opens once and closes once, and only at an open one somebody  *)
(* is admitted.                                                            *)
Moves ==
  \A t \in Token :
    /\ Life(t)' # Life(t) => \/ Life(t) = "absent" /\ Life(t)' = "open"
                             \/ Life(t) = "open" /\ Life(t)' = "closed"
    /\ \A b \in Browser : Admitted(b, t)' /\ ~Admitted(b, t) => Open(t)

\* One row is replaced.
LEMMA OneRowMoves ==
  ASSUME PortalInv, NEW t \in Token, NEW r \in PortalRow,
         row' = [row EXCEPT ![t] = r], cap' = cap,
         r.state = row[t].state \/ (r.state = "deleted" /\ Live(t))
           \/ (row[t].state = "none" /\ r.state = "live" /\ r.left > 0),
         r.left = row[t].left \/ row[t].state = "none",
         r.access = 0 \/ (r.access = row[t].access /\ r.accessLeft = row[t].accessLeft),
         Open(t) \/ ~Live(t) \/ r.state # "live"
  PROVE  Moves
<1>1. row \in [Token -> PortalRow] /\ row'[t] = r /\ \A u \in Token : u # t => row'[u] = row[u]
  BY DEF PortalInv, PortalTypes
<1>2. ASSUME NEW u \in Token
      PROVE  /\ Life(u)' # Life(u) => \/ Life(u) = "absent" /\ Life(u)' = "open"
                                      \/ Life(u) = "open" /\ Life(u)' = "closed"
             /\ \A b \in Browser : Admitted(b, u)' => Admitted(b, u)
  <2>1. CASE u # t
    BY <1>1, <2>1 DEF Life, Open, Live, Admitted
  <2>2. CASE u = t
    <3>1. \A b \in Browser : Admitted(b, u)' => Admitted(b, u)
      BY <1>1, <2>2 DEF Admitted
    <3>2. \/ Life(u)' = Life(u)
          \/ Life(u) = "absent" /\ Life(u)' = "open"
          \/ Life(u) \in {"open", "closed"} /\ Life(u)' = "closed"
      BY <1>1, <2>2, RowIs DEF Life, Open, Live
    <3> QED  BY <3>1, <3>2
  <2> QED  BY <2>1, <2>2
<1> QED  BY <1>2 DEF Moves

LEMMA NoMoves ==
  ASSUME row' = row, cap' = cap
  PROVE  Moves
BY DEF Moves, Life, Open, Live, Admitted

LEMMA MovesAlways ==
  ASSUME PortalInv, [PortalNext]_portalVars
  PROVE  Moves
<1>0. /\ PortalTypes /\ row \in [Token -> PortalRow]
      /\ \A t \in Token : row[t] \in PortalRow
  BY DEF PortalInv, PortalTypes
<1>1. ASSUME NEW t \in Token, CreateBlob(t) \/ PurgeUnlink(t) PROVE Moves
  BY <1>1, NoMoves DEF CreateBlob, PurgeUnlink, web
<1>2. ASSUME NEW t \in Token, RequestCode(t) PROVE Moves
  <2> DEFINE r == [row[t] EXCEPT !.code = row[t].last + 1, !.last = row[t].last + 1,
                            !.codeLeft = OtpTtl, !.tries = 0, !.cool = Cooldown]
  <2>1. Open(t) /\ row[t].last < MaxCodes /\ cap' = cap /\ row' = [row EXCEPT ![t] = r]
    BY <1>2 DEF RequestCode
  <2>2. /\ r \in PortalRow /\ r.state = row[t].state /\ r.left = row[t].left
        /\ r.access = row[t].access /\ r.accessLeft = row[t].accessLeft
    BY <1>0, <2>1, CodeRow
  <2> HIDE DEF r
  <2> QED  BY <2>1, <2>2, OneRowMoves
<1>3. ASSUME NEW t \in Token, Miss(t) PROVE Moves
  <2> DEFINE r == [row[t] EXCEPT !.tries = @ + 1]
  <2>1. Open(t) /\ row[t].tries < MaxTries /\ cap' = cap /\ row' = [row EXCEPT ![t] = r]
    BY <1>3 DEF Miss, Checkable, web
  <2>2. /\ r \in PortalRow /\ r.state = row[t].state /\ r.left = row[t].left
        /\ r.access = row[t].access /\ r.accessLeft = row[t].accessLeft
    BY <1>0, <2>1, MissRow
  <2> HIDE DEF r
  <2> QED  BY <2>1, <2>2, OneRowMoves
<1>4. ASSUME NEW t \in Token, Revoke(t) PROVE Moves
  <2> DEFINE r == [row[t] EXCEPT !.state = "deleted"]
  <2>1. Live(t) /\ cap' = cap /\ row' = [row EXCEPT ![t] = r]
    BY <1>4 DEF Revoke
  <2>2. /\ r \in PortalRow /\ r.state = "deleted" /\ r.left = row[t].left
        /\ r.access = row[t].access /\ r.accessLeft = row[t].accessLeft
    BY <1>0, DeletedRow
  <2> HIDE DEF r
  <2> QED  BY <2>1, <2>2, OneRowMoves
<1>5. CASE CreateRow
  <2> DEFINE r == [NoRow EXCEPT !.state = "live", !.left = Retention]
  <2>1. /\ making \in Token /\ row[making].state = "none" /\ cap' = cap
        /\ row' = row \/ row' = [row EXCEPT ![making] = r]
    BY <1>0, <1>5 DEF CreateRow, Fresh, web, PortalTypes, PortalInv, Between
  <2>2. r \in PortalRow /\ r.state = "live" /\ r.left > 0 /\ r.access = 0
    BY FreshRow
  <2> HIDE DEF r
  <2>3. ~Live(making)
    BY <2>1 DEF Live
  <2> QED  BY <2>1, <2>2, <2>3, NoMoves, OneRowMoves
<1>6. CASE EndRead \/ Unlink \/ Switch \/ PurgeSelect \/ PortalCrash
  BY <1>6, NoMoves DEF EndRead, Unlink, Switch, PurgeSelect, PortalCrash, portalStore, web
<1>7. CASE PurgeCommit
  <2>1. /\ cap' = cap /\ purge.sel \subseteq Token
        /\ \/ row' = row
           \/ row' = [u \in Token |-> IF u \in purge.sel
                                   THEN [row[u] EXCEPT !.state = "deleted"] ELSE row[u]]
    BY <1>0, <1>7 DEF PurgeCommit, web, PortalTypes
  <2>2. \A u \in Token : \/ row'[u] = row[u]
                         \/ /\ u \in purge.sel /\ row'[u].state = "deleted"
                            /\ row'[u].access = row[u].access /\ row'[u].accessLeft = row[u].accessLeft
    <3>1. \A u \in Token : LET s == [row[u] EXCEPT !.state = "deleted"]
                           IN  /\ s.state = "deleted"
                               /\ s.access = row[u].access /\ s.accessLeft = row[u].accessLeft
      BY <1>0, DeletedRow
    <3>2. CASE row' = row
      BY <3>2
    <3>3. CASE row' = [u \in Token |-> IF u \in purge.sel
                                   THEN [row[u] EXCEPT !.state = "deleted"] ELSE row[u]]
      <4>1. \A u \in Token : row'[u] = IF u \in purge.sel THEN [row[u] EXCEPT !.state = "deleted"] ELSE row[u]
        BY <3>3
      <4> QED  BY <3>1, <4>1
    <3> QED  BY <2>1, <3>2, <3>3
  <2>3. \A u \in purge.sel : Life(u) # "open" /\ row[u].state # "none" /\ ~Open(u)
    BY <2>1 DEF PortalInv, Purged, Absent, Life
  <2>4. ASSUME NEW u \in Token PROVE Life(u)' = Life(u) /\ \A b \in Browser : Admitted(b, u)' => Admitted(b, u)
    BY <2>1, <2>2, <2>3 DEF Life, Open, Live, Admitted
  <2> QED  BY <2>4 DEF Moves
<1>8. CASE PortalTick
  <2>1. /\ cap' = cap
        /\ row' = [u \in Token |->
               [row[u] EXCEPT !.left = Down(row[u].left), !.codeLeft = Down(row[u].codeLeft),
                              !.cool = Down(row[u].cool), !.accessLeft = Down(row[u].accessLeft)]]
    BY <1>8 DEF PortalTick, web
  <2>2. \A u \in Token : /\ row'[u].state = row[u].state /\ row'[u].left <= row[u].left
                         /\ row'[u].access = row[u].access
                         /\ row'[u].accessLeft > 0 => row[u].accessLeft > 0
                         /\ row'[u] \in PortalRow
    <3>1. \A u \in Token :
             LET s == [row[u] EXCEPT !.left = Down(row[u].left), !.codeLeft = Down(row[u].codeLeft),
                              !.cool = Down(row[u].cool), !.accessLeft = Down(row[u].accessLeft)]
             IN  /\ s \in PortalRow /\ s.state = row[u].state /\ s.left <= row[u].left
                 /\ s.access = row[u].access /\ (s.accessLeft > 0 => row[u].accessLeft > 0)
      BY <1>0, TickRow
    <3> QED  BY <2>1, <3>1
  <2>3. ASSUME NEW u \in Token
        PROVE  /\ Life(u)' # Life(u) => \/ Life(u) = "absent" /\ Life(u)' = "open"
                                        \/ Life(u) = "open" /\ Life(u)' = "closed"
               /\ \A b \in Browser : Admitted(b, u)' => Admitted(b, u)
    <3>1. \A b \in Browser : Admitted(b, u)' => Admitted(b, u)
      BY <2>1, <2>2 DEF Admitted
    <3>2. Open(u)' => Open(u)
      <4>1. row'[u].left \in Nat /\ row[u].left \in Nat /\ row'[u].left <= row[u].left
        BY <1>0, <2>2, RowIs
      <4> QED  BY <2>2, <4>1 DEF Open, Live
    <3> QED  BY <2>2, <3>1, <3>2 DEF Life
  <2> QED  BY <2>3 DEF Moves
<1>9. ASSUME NEW m \in mailing, CodeSent(m) PROVE Moves
  BY <1>9, NoMoves DEF CodeSent, portalStore
<1>10. ASSUME NEW b \in Browser, NEW t \in Token, Enter(b, t) PROVE Moves
  <2> DEFINE r == [row[t] EXCEPT !.access = row[t].code, !.accessLeft = AccessTtl, !.code = 0]
  <2>1. Open(t) /\ cap' = [cap EXCEPT ![b] = @ \cup {<<t, row[t].code>>}] /\ row' = [row EXCEPT ![t] = r]
    BY <1>10 DEF Enter
  <2>2. r \in PortalRow /\ r.state = row[t].state /\ r.left = row[t].left
    BY <1>0, EnterRow
  <2> HIDE DEF r
  <2>3. row'[t] = r /\ \A u \in Token : u # t => row'[u] = row[u]
    BY <1>0, <2>1
  <2>4. \A u \in Token : Life(u)' = Life(u)
    BY <2>2, <2>3 DEF Life, Open, Live
  <2>5. ASSUME NEW u \in Token, u # t, NEW d \in Browser, Admitted(d, u)' PROVE Admitted(d, u)
    <3>1. cap \in [Browser -> SUBSET (Token \X Code)]
      BY <1>0 DEF PortalTypes
    <3>2. <<u, row'[u].access>> \in cap[d] /\ row'[u] = row[u]
      BY <2>1, <2>3, <2>5, <3>1 DEF Admitted
    <3> QED  BY <2>5, <3>2 DEF Admitted
  <2> QED  BY <2>1, <2>4, <2>5 DEF Moves
<1>11. ASSUME NEW b \in Browser, NEW t \in Token, BeginRead(b, t) \/ BeginReply(b, t) \/ EndReply(b, t)
       PROVE  Moves
  BY <1>11, NoMoves DEF BeginRead, BeginReply, EndReply, portalStore
<1>12. CASE UNCHANGED portalVars
  BY <1>12, NoMoves DEF portalVars
<1> QED  BY <1>1, <1>2, <1>3, <1>4, <1>5, <1>6, <1>7, <1>8, <1>9, <1>10, <1>11, <1>12
         DEF PortalNext, Purge

\* A visit begins where the message is open, by who may come.
LEMMA VisitsBegin ==
  ASSUME PortalInv, [PortalNext]_portalVars, NEW v \in Visits', v \notin Visits
  PROVE  /\ v \in Browser \X Token
         /\ Open(v[2]) /\ (otp => Admitted(v[1], v[2]))
<1>1. ASSUME NEW b \in Browser, NEW t \in Token, BeginRead(b, t) \/ BeginReply(b, t)
      PROVE  /\ v \in Browser \X Token
             /\ Open(v[2]) /\ (otp => Admitted(v[1], v[2]))
  <2>1. v = <<b, t>>
    BY <1>1 DEF BeginRead, BeginReply, Visits, portalStore
  <2> QED  BY <1>1, <2>1 DEF BeginRead, BeginReply, MayEnter
<1>2. replying' \subseteq replying /\ (reading' = reading \/ reading' = Nobody) => v \in Visits
  BY DEF Visits
<1>3. ASSUME NEW t \in Token, CreateBlob(t) \/ RequestCode(t) \/ Miss(t) \/ Revoke(t) PROVE v \in Visits
  BY <1>2, <1>3 DEF CreateBlob, RequestCode, Miss, Revoke, web
<1>4. CASE CreateRow \/ EndRead \/ Unlink \/ Switch \/ PortalCrash \/ PortalTick
  BY <1>2, <1>4 DEF CreateRow, EndRead, Unlink, Switch, PortalCrash, PortalTick, web
<1>5. CASE Purge
  BY <1>2, <1>5 DEF Purge, PurgeSelect, PurgeUnlink, PurgeCommit, web
<1>6. ASSUME NEW m \in mailing, CodeSent(m) PROVE v \in Visits
  BY <1>2, <1>6 DEF CodeSent
<1>7. ASSUME NEW b \in Browser, NEW t \in Token, Enter(b, t) \/ EndReply(b, t) PROVE v \in Visits
  BY <1>2, <1>7 DEF Enter, EndReply
<1>8. CASE UNCHANGED portalVars
  BY <1>2, <1>8 DEF portalVars
<1> QED  BY <1>1, <1>3, <1>4, <1>5, <1>6, <1>7, <1>8 DEF PortalNext

LEMMA PromiseStart == PortalInit => Promise!Init
<1> SUFFICES ASSUME PortalInit PROVE Promise!Init
  OBVIOUS
<1>1. \A t \in Token : row[t].state = "none" /\ row[t].access = 0
  BY NoRowIn DEF PortalInit, NoRow
<1>2. \A t \in Token : Life(t) = "absent" /\ Holder(t) = {}
  BY <1>1 DEF Life, Holder, Admitted
<1>3. otp \in BOOLEAN /\ replying = {} /\ reading = Nobody
  BY DEF PortalInit
<1> QED  BY <1>2, <1>3 DEF Promise!Init

LEMMA PromiseStep ==
  ASSUME PortalInv, PortalInv', OneHolder, OneHolder', [PortalNext]_portalVars
  PROVE  Promise!Next
<1>1. \A t \in Token : Life(t) \in {"absent", "open", "closed"} /\ Life(t)' \in {"absent", "open", "closed"}
  BY DEF Life
<1>2. LifeOf' \in [Token -> Promise!Life] /\ \A t \in Token : LifeOf[t] = Life(t) /\ LifeOf'[t] = Life(t)'
  BY <1>1 DEF LifeOf, Promise!Life
<1>3. otp' \in BOOLEAN
  BY DEF PortalInv, PortalTypes
<1>4. KeyOf' \in [Token -> Browser \cup {Nobody}]
  BY DEF OneHolder, KeyOf
<1>5. ASSUME NEW t \in Token
      PROVE  /\ LifeOf'[t] # LifeOf[t] =>
                  <<LifeOf[t], LifeOf'[t]>> \in {<<"absent", "open">>, <<"open", "closed">>}
             /\ KeyOf'[t] \notin {KeyOf[t], Nobody} => LifeOf[t] = "open"
  <2>1. Moves
    BY MovesAlways
  <2>2. LifeOf'[t] # LifeOf[t] =>
                  <<LifeOf[t], LifeOf'[t]>> \in {<<"absent", "open">>, <<"open", "closed">>}
    BY <1>2, <2>1 DEF Moves
  <2>3. ASSUME KeyOf'[t] \notin {KeyOf[t], Nobody} PROVE LifeOf[t] = "open"
    <3>1. PICK b \in Browser : b = KeyOf'[t]
      BY <1>4, <2>3
    <3>2. Admitted(b, t)' /\ ~Admitted(b, t)
      BY <2>3, <3>1 DEF OneHolder
    <3>3. Open(t)
      BY <2>1, <3>2 DEF Moves
    <3> QED  BY <1>2, <3>3 DEF Life, Open, Live
  <2> QED  BY <2>2, <2>3
<1>6. ASSUME NEW v \in Visits' \ Visits
      PROVE  LifeOf[v[2]] = "open" /\ (otp => KeyOf[v[2]] = v[1])
  <2>1. /\ v \in Browser \X Token
        /\ Open(v[2]) /\ (otp => Admitted(v[1], v[2]))
    BY VisitsBegin
  <2> QED  BY <1>2, <2>1 DEF OneHolder, Life, Open, Live
<1> QED  BY <1>2, <1>3, <1>4, <1>5, <1>6 DEF Promise!Next, LifeOf, KeyOf, Visits

LEMMA PromiseKept == PortalInit /\ [][PortalNext]_portalVars => DisclosureKept
<1>1. PortalInv => OneHolder
  BY HolderIs
<1>2. PortalInv /\ PortalInv' /\ OneHolder /\ OneHolder' /\ [PortalNext]_portalVars => Promise!Next
  BY PromiseStep
<1> QED  BY <1>1, <1>2, PromiseStart, PortalCorrect, PTL DEF DisclosureKept, Promise!Spec

HIDE PortalAssumption

-----------------------------------------------------------------------------
(* SentItems                                                               *)

USE SentAssumption

Modes == {"signed", "encrypted", "duplicates"}
Cleaners == [at : {"off", "wait", "patch", "delete"}, mode : Modes,
             pass : 0..(Passes - 1), found : SUBSET Item, kept : Item]

(* Items the folder may still show.                                        *)
Await == transit \cup (SentFork \ done)

SentTypes ==
  /\ updates \in BOOLEAN /\ cipher \subseteq SentFork /\ done \subseteq SentFork
  /\ transit \subseteq Item /\ transit \cap SentFork \subseteq done
  /\ born \in [Item -> Nat] /\ registered \in BOOLEAN
  /\ cleaner \in [SentFork -> Cleaners]
  /\ sentStops \in 0..MaxSentStop /\ wasReadable \in BOOLEAN

AtWork(f) == cleaner[f].at \in {"patch", "delete"}

(* What is still to come was not found by anybody.                         *)
Unborn ==
  \A i \in Await : born[i] = 0 /\ \A f \in SentFork : AtWork(f) => i \notin cleaner[f].found

(* No two items are born at once, and none later than there are items.     *)
Births ==
  /\ \A i, j \in Item : born[i] # 0 /\ born[i] = born[j] => i = j
  /\ \A i \in Item : born[i] <= Cardinality(Item \ Await)

ReadableIs == readable \subseteq Found /\ Found \ cipher \subseteq readable

IsNewest(i) == i \in Found /\ \A j \in Found : born[j] <= born[i]
IsOldest(i) == i \in Found /\ \A j \in Found : born[i] <= born[j]

(* Nothing is encrypted: nobody takes the newest item for superfluous.     *)
PlainMail ==
  cipher = {} =>
    /\ \A f \in SentFork :
         /\ cleaner[f].at # "off" => cleaner[f].mode # "encrypted"
         /\ cleaner[f].at = "patch" => ~(Cardinality(cleaner[f].found) > 1)
         /\ cleaner[f].at = "delete" => \A i \in Item : IsNewest(i) => i \notin Superfluous(cleaner[f])
    /\ wasReadable => Found # {}

(* All is encrypted: everybody keeps the oldest item, and patches it first. *)
SecretMail ==
  cipher = SentFork =>
    /\ \A f \in SentFork :
         /\ cleaner[f].at # "off" => cleaner[f].mode = "encrypted"
         /\ AtWork(f) => IsOldest(cleaner[f].kept)
         /\ cleaner[f].at = "delete" => cleaner[f].kept \in readable
    /\ wasReadable => readable # {}

SentInv == SentTypes /\ Unborn /\ Births /\ ReadableIs /\ PlainMail /\ SecretMail

(* A set of numbers that is not empty has a least one.                     *)
LEMMA Least ==
  ASSUME NEW S \in SUBSET Nat, S # {}
  PROVE  \E x \in S : \A y \in S : ~(y < x)
<1>1. PICK x \in S : \A y \in S : ~(<<y, x>> \in OpToRel(<, Nat))
  BY NatLessThanWellFounded, WFMin
<1> QED  BY <1>1 DEF OpToRel



(***************************************************************************)
(* The folder                                                              *)
(***************************************************************************)

LEMMA ItemsFinite == IsFiniteSet(Item) /\ \A S \in SUBSET Item : IsFiniteSet(S) /\ Cardinality(S) \in Nat
<1>1. IsFiniteSet(Item)
  BY FS_AddElement DEF Item
<1> QED  BY <1>1, FS_Subset, FS_CardinalityType

LEMMA FoundIs ==
  ASSUME born \in [Item -> Nat]
  PROVE  /\ Found \in SUBSET Item /\ Cardinality(Found) \in Nat
         /\ Cardinality(Found) = 1 \/ Cardinality(Found) > 1 => Found # {}
<1>1. Found \in SUBSET Item
  BY DEF Found
<1> QED  BY <1>1, ItemsFinite, FS_EmptySet

(* Of the items found there is an oldest one and a newest one.             *)
LEMMA OldestIs ==
  ASSUME born \in [Item -> Nat], Found # {}
  PROVE  IsOldest(Oldest(Found))
<1> DEFINE S == {n \in Nat : \E i \in Found : n = born[i]}
<1>0. \A i \in Found : i \in Item /\ born[i] \in Nat
  BY DEF Found
<1>1. S \in SUBSET Nat /\ S # {}
  BY <1>0
<1>2. PICK n \in S : \A m \in S : ~(m < n)
  <2> HIDE DEF S
  <2> QED  BY <1>1, Least
<1>3. PICK i \in Found : n = born[i]
  BY <1>2
<1>4. \A j \in Found : born[i] <= born[j]
  <2> SUFFICES ASSUME NEW j \in Found PROVE born[i] <= born[j]
    OBVIOUS
  <2>1. born[j] \in S
    BY <1>0
  <2>2. ~(born[j] < born[i])
    BY <2>1, <1>2, <1>3
  <2> QED  BY <2>2, <1>0
<1>5. \E k \in Found : \A j \in Found : born[k] <= born[j]
  BY <1>4
<1>6. Oldest(Found) \in Found /\ \A j \in Found : born[Oldest(Found)] <= born[j]
  BY <1>5, Zenon DEF Oldest
<1> QED  BY <1>6 DEF IsOldest

LEMMA NewestIs ==
  ASSUME born \in [Item -> Nat], Found # {}, NEW K \in Nat, \A i \in Item : born[i] <= K
  PROVE  IsNewest(Newest(Found))
<1> DEFINE S == {n \in Nat : \E i \in Found : n = K - born[i]}
<1>0. \A i \in Found : i \in Item /\ born[i] \in Nat /\ born[i] <= K
  BY DEF Found
<1>1. S \in SUBSET Nat /\ S # {}
  <2>1. PICK i \in Found : TRUE
    OBVIOUS
  <2>2. K - born[i] \in Nat
    BY <1>0
  <2> QED  BY <2>2
<1>2. PICK n \in S : \A m \in S : ~(m < n)
  <2> HIDE DEF S
  <2> QED  BY <1>1, Least
<1>3. PICK i \in Found : n = K - born[i]
  BY <1>2
<1>4. \A j \in Found : born[j] <= born[i]
  <2> SUFFICES ASSUME NEW j \in Found PROVE born[j] <= born[i]
    OBVIOUS
  <2>1. K - born[j] \in S
    BY <1>0
  <2>2. ~(K - born[j] < K - born[i])
    BY <2>1, <1>2, <1>3
  <2> QED  BY <2>2, <1>0
<1>5. \E k \in Found : \A j \in Found : born[j] <= born[k]
  BY <1>4
<1>6. Newest(Found) \in Found /\ \A j \in Found : born[j] <= born[Newest(Found)]
  BY <1>5, Zenon DEF Newest
<1> QED  BY <1>6 DEF IsNewest

(* The order of the item that comes next.                                  *)
LEMMA NextBirth ==
  ASSUME SentTypes, Births, NEW i \in transit
  PROVE  LET n == 1 + Max({born[j] : j \in Item})
         IN  /\ n \in Nat /\ n # 0
             /\ n <= Cardinality(Item \ (Await \ {i}))
             /\ \A j \in Item : born[j] < n
<1> DEFINE B == {born[j] : j \in Item}
           A == Item \ Await
           K == Cardinality(A)
<1>0. born \in [Item -> Nat] /\ i \in Item /\ i \in Await
  BY DEF SentTypes, Await
<1>1. K \in Nat /\ IsFiniteSet(A)
  BY ItemsFinite
<1>2. \A j \in Item : born[j] \in Nat /\ born[j] <= K
  BY <1>0 DEF Births
<1>3. Cardinality(Item \ (Await \ {i})) = K + 1
  <2>1. Item \ (Await \ {i}) = A \cup {i} /\ i \notin A
    BY <1>0
  <2> QED  BY <2>1, <1>1, FS_AddElement
<1> HIDE DEF K
<1> DEFINE S == {n \in Nat : \E j \in Item : n = K - born[j]}
<1>4. S \in SUBSET Nat /\ S # {}
  <2>1. K - born[i] \in Nat
    BY <1>0, <1>1, <1>2
  <2> QED  BY <2>1, <1>0
<1>5. PICK n \in S : \A m \in S : ~(m < n)
  <2> HIDE DEF S
  <2> QED  BY <1>4, Least
<1>6. PICK k \in Item : n = K - born[k]
  BY <1>5
<1>7. \A j \in Item : born[j] <= born[k]
  <2> SUFFICES ASSUME NEW j \in Item PROVE born[j] <= born[k]
    OBVIOUS
  <2>1. K - born[j] \in S
    BY <1>1, <1>2
  <2>2. ~(K - born[j] < K - born[k])
    BY <2>1, <1>5, <1>6
  <2> QED  BY <2>2, <1>1, <1>2
<1>8. born[k] \in B /\ \A b \in B : born[k] >= b
  BY <1>2, <1>7
<1>9. Max(B) \in B /\ \A b \in B : Max(B) >= b
  <2> HIDE DEF B
  <2>1. \E x \in B : \A y \in B : x >= y
    BY <1>8
  <2> QED  BY <2>1, Zenon DEF Max
<1>10. Max(B) \in Nat /\ Max(B) <= K /\ \A j \in Item : born[j] <= Max(B)
  BY <1>2, <1>9
<1> HIDE DEF B
<1>11. /\ 1 + Max(B) \in Nat /\ 1 + Max(B) # 0 /\ 1 + Max(B) <= K + 1
       /\ \A j \in Item : born[j] < 1 + Max(B)
  BY <1>1, <1>2, <1>10
<1> QED  BY <1>3, <1>11 DEF B

(***************************************************************************)
(* What the steps do                                                       *)
(***************************************************************************)

\* A fork goes through the gateway, and may start a clean-up.
ForkStep(f) ==
  /\ f \notin done /\ done' = done \cup {f} /\ transit' \in {transit, transit \cup {f}}
  /\ registered' \in BOOLEAN
  /\ \/ cleaner' = cleaner
     \/ \E c \in Cleaners : /\ c.at = "wait" /\ (c.mode = "encrypted" <=> f \in cipher)
                            /\ cleaner' = [cleaner EXCEPT ![f] = c]
  /\ UNCHANGED <<updates, cipher, born, readable, sentStops, wasReadable>>

LEMMA NoCleanerIn == NoCleaner \in Cleaners /\ NoCleaner.at = "off"
BY DEF NoCleaner, Cleaners, Modes, Passes, Item

LEMMA SchedulesIs ==
  ASSUME NEW f, NEW mode \in Modes, Schedules(f, mode)
  PROVE  \E c \in Cleaners : /\ c.at = "wait" /\ c.mode = mode
                             /\ cleaner' = [cleaner EXCEPT ![f] = c]
<1> DEFINE c == [NoCleaner EXCEPT !.at = "wait", !.mode = mode]
<1>1. c \in Cleaners /\ c.at = "wait" /\ c.mode = mode
  BY NoCleanerIn DEF Cleaners
<1>2. cleaner' = [cleaner EXCEPT ![f] = c]
  BY DEF Schedules
<1> QED  BY <1>1, <1>2

LEMMA ForkIs ==
  ASSUME SentTypes, NEW f \in SentFork, Process(f) \/ PassOn(f) \/ ReleaseHeld(f)
  PROVE  ForkStep(f)
<1>0. /\ updates \in BOOLEAN /\ registered \in BOOLEAN
      /\ "signed" \in Modes /\ "encrypted" \in Modes /\ "duplicates" \in Modes
  BY DEF SentTypes, Modes
<1>1. CASE Process(f)
  <2>1. \/ cleaner' = cleaner
        \/ Schedules(f, IF f \in cipher THEN "encrypted" ELSE "signed")
    BY <1>1 DEF Process
  <2>2. /\ f \notin done /\ done' = done \cup {f} /\ transit' \in {transit, transit \cup {f}}
        /\ registered' = TRUE
        /\ UNCHANGED <<updates, cipher, born, readable, sentStops, wasReadable>>
    BY <1>1 DEF Process, Stores
  <2>3. CASE f \in cipher
    <3>1. cleaner' = cleaner \/ Schedules(f, "encrypted")
      BY <2>1, <2>3
    <3> QED  BY <1>0, <2>2, <2>3, <3>1, SchedulesIs DEF ForkStep
  <2>4. CASE f \notin cipher
    <3>1. cleaner' = cleaner \/ Schedules(f, "signed")
      BY <2>1, <2>4
    <3> QED  BY <1>0, <2>2, <2>4, <3>1, SchedulesIs DEF ForkStep
  <2> QED  BY <2>3, <2>4
<1>2. CASE PassOn(f)
  <2>1. cleaner' = cleaner \/ Schedules(f, "duplicates")
    BY <1>2 DEF PassOn
  <2>2. /\ f \notin done /\ f \notin cipher /\ done' = done \cup {f}
        /\ transit' \in {transit, transit \cup {f}}
        /\ registered' = TRUE \/ registered' = registered
        /\ UNCHANGED <<updates, cipher, born, readable, sentStops, wasReadable>>
    BY <1>2 DEF PassOn
  <2>3. registered' \in BOOLEAN
    BY <1>0, <2>2
  <2> QED  BY <1>0, <2>1, <2>2, <2>3, SchedulesIs DEF ForkStep
<1>3. CASE ReleaseHeld(f)
  <2>1. cleaner' = cleaner \/ (f \notin cipher /\ Schedules(f, "signed"))
    BY <1>3 DEF ReleaseHeld
  <2>2. /\ f \notin done /\ done' = done \cup {f} /\ transit' \in {transit, transit \cup {f}}
        /\ registered' = (registered \/ updates)
        /\ UNCHANGED <<updates, cipher, born, readable, sentStops, wasReadable>>
    BY <1>3 DEF ReleaseHeld, Stores
  <2>3. registered' \in BOOLEAN
    BY <2>2
  <2> QED  BY <1>0, <2>1, <2>2, <2>3, SchedulesIs DEF ForkStep
<1> QED  BY <1>1, <1>2, <1>3

\* A clean-up goes on without deleting anything.
CleanStep(f) ==
  /\ \E c \in Cleaners :
       /\ cleaner' = [cleaner EXCEPT ![f] = c]
       /\ \/ c.at = "off"
          \/ c.at = "wait" /\ c.mode = cleaner[f].mode /\ cleaner[f].at # "off"
          \/ /\ c.at \in {"patch", "delete"} /\ cleaner[f].at = "wait"
             /\ c.mode = cleaner[f].mode /\ c.found = Found
             /\ c.mode = "encrypted" => c.at = "patch" /\ IsOldest(c.kept)
             /\ c.at = "patch" => c.mode = "encrypted" \/ Cardinality(Found) = 1
             /\ c.at = "delete" => IsNewest(c.kept)
          \/ /\ c = [cleaner[f] EXCEPT !.at = "delete"] /\ cleaner[f].at = "patch"
             /\ Cardinality(cleaner[f].found) > 1 /\ cleaner[f].kept \in readable'
  /\ UNCHANGED <<readable, wasReadable>>
       \/ \E i \in Found : readable' = readable \cup {i} /\ wasReadable' = TRUE
  /\ UNCHANGED <<updates, cipher, done, transit, born, registered, sentStops>>

LEMMA AgainIs ==
  ASSUME SentTypes, NEW f \in SentFork, Again(f)
  PROVE  \E c \in Cleaners : /\ cleaner' = [cleaner EXCEPT ![f] = c]
                             /\ c.at = "off" \/ (c.at = "wait" /\ c.mode = cleaner[f].mode)
<1> DEFINE next == [NoCleaner EXCEPT !.at = "wait", !.mode = cleaner[f].mode, !.pass = cleaner[f].pass + 1]
<1>1. cleaner[f] \in Cleaners
  BY DEF SentTypes
<1>2. CASE cleaner[f].pass + 1 = Passes
  BY <1>2, NoCleanerIn DEF Again
<1>3. CASE cleaner[f].pass + 1 # Passes
  <2>2. cleaner[f].mode \in Modes /\ cleaner[f].pass + 1 \in 0..(Passes - 1)
    BY <1>1, <1>3 DEF Cleaners, Passes
  <2>3. next \in Cleaners /\ next.at = "wait" /\ next.mode = cleaner[f].mode
    BY <2>2, NoCleanerIn DEF Cleaners
  <2>4. cleaner' = [cleaner EXCEPT ![f] = next]
    BY <1>3 DEF Again
  <2> QED  BY <2>3, <2>4
<1> QED  BY <1>2, <1>3

LEMMA GoesIs ==
  ASSUME SentTypes, NEW f \in SentFork, cleaner[f].at = "wait", NEW at \in {"patch", "delete"},
         NEW i \in Item, Goes(f, at, i)
  PROVE  \E c \in Cleaners :
            /\ cleaner' = [cleaner EXCEPT ![f] = c]
            /\ c.at = at /\ c.mode = cleaner[f].mode /\ c.found = Found /\ c.kept = i
<1> DEFINE c == [cleaner[f] EXCEPT !.at = at, !.found = Found, !.kept = i]
<1>1. cleaner[f] \in Cleaners /\ Found \subseteq Item
  BY DEF SentTypes, Found
<1>2. c \in Cleaners /\ c.at = at /\ c.mode = cleaner[f].mode /\ c.found = Found /\ c.kept = i
  BY <1>1 DEF Cleaners
<1>3. cleaner' = [cleaner EXCEPT ![f] = c]
  BY DEF Goes
<1> QED  BY <1>2, <1>3

LEMMA SearchIs ==
  ASSUME SentTypes, Births, NEW f \in SentFork, Search(f)
  PROVE  CleanStep(f)
<1>0. /\ cleaner[f].at = "wait" /\ born \in [Item -> Nat] /\ cleaner[f].mode \in Modes
      /\ UNCHANGED <<updates, cipher, done, transit, born, readable, registered, sentStops, wasReadable>>
  BY DEF Search, SentTypes, Cleaners
<1>1. CASE Again(f)
  BY <1>0, <1>1, AgainIs DEF CleanStep
<1>2. CASE Cardinality(Found) = 1 /\ cleaner[f].mode # "duplicates" /\ Goes(f, "patch", Oldest(Found))
  <2>1. IsOldest(Oldest(Found)) /\ Oldest(Found) \in Item
    BY <1>0, <1>2, FoundIs, OldestIs DEF IsOldest, Found
  <2>2. PICK c \in Cleaners :
            /\ cleaner' = [cleaner EXCEPT ![f] = c]
            /\ c.at = "patch" /\ c.mode = cleaner[f].mode /\ c.found = Found /\ c.kept = Oldest(Found)
    BY <1>0, <1>2, <2>1, GoesIs
  <2> QED  BY <1>0, <1>2, <2>1, <2>2 DEF CleanStep
<1>3. CASE Cardinality(Found) > 1 /\ cleaner[f].mode = "encrypted" /\ Goes(f, "patch", Oldest(Found))
  <2>1. IsOldest(Oldest(Found)) /\ Oldest(Found) \in Item
    BY <1>0, <1>3, FoundIs, OldestIs DEF IsOldest, Found
  <2>2. PICK c \in Cleaners :
            /\ cleaner' = [cleaner EXCEPT ![f] = c]
            /\ c.at = "patch" /\ c.mode = cleaner[f].mode /\ c.found = Found /\ c.kept = Oldest(Found)
    BY <1>0, <1>3, <2>1, GoesIs
  <2> QED  BY <1>0, <1>3, <2>1, <2>2 DEF CleanStep
<1>4. CASE Cardinality(Found) > 1 /\ cleaner[f].mode # "encrypted" /\ Goes(f, "delete", Newest(Found))
  <2>1. IsNewest(Newest(Found)) /\ Newest(Found) \in Item
    <3>1. Cardinality(Item \ Await) \in Nat /\ \A i \in Item : born[i] <= Cardinality(Item \ Await)
      BY ItemsFinite DEF Births
    <3> QED  BY <1>0, <1>4, <3>1, FoundIs, NewestIs DEF IsNewest, Found
  <2>2. PICK c \in Cleaners :
            /\ cleaner' = [cleaner EXCEPT ![f] = c]
            /\ c.at = "delete" /\ c.mode = cleaner[f].mode /\ c.found = Found /\ c.kept = Newest(Found)
    BY <1>0, <1>4, <2>1, GoesIs
  <2> QED  BY <1>0, <1>4, <2>1, <2>2 DEF CleanStep
<1> QED  BY <1>1, <1>2, <1>3, <1>4 DEF Search

LEMMA PatchIs ==
  ASSUME SentTypes, NEW f \in SentFork, Patch(f)
  PROVE  CleanStep(f)
<1> DEFINE c == cleaner[f] i == c.kept several == Cardinality(c.found) > 1
<1>0. /\ c.at = "patch" /\ c \in Cleaners /\ i \in Item
      /\ UNCHANGED <<updates, cipher, done, transit, born, registered, sentStops>>
  BY DEF Patch, SentTypes, Cleaners
<1>1. \/ /\ born[i] # 0
         /\ readable' = readable \cup {i} /\ wasReadable' = TRUE
         /\ \/ several /\ cleaner' = [cleaner EXCEPT ![f].at = "delete"]
            \/ ~several /\ c.mode = "encrypted" /\ Again(f)
            \/ ~several /\ c.mode = "signed" /\ Stop(f)
      \/ (Stop(f) \/ Again(f)) /\ UNCHANGED <<readable, wasReadable>>
  BY DEF Patch
<1>2. /\ Stop(f) \/ Again(f) \/ (several /\ i \in readable' /\ cleaner' = [cleaner EXCEPT ![f].at = "delete"])
      /\ UNCHANGED <<readable, wasReadable>>
           \/ \E j \in Found : readable' = readable \cup {j} /\ wasReadable' = TRUE
  BY <1>0, <1>1 DEF Found
<1>3. CASE Stop(f)
  BY <1>0, <1>2, <1>3, NoCleanerIn DEF Stop, CleanStep
<1>4. CASE Again(f)
  <2>1. PICK d \in Cleaners : /\ cleaner' = [cleaner EXCEPT ![f] = d]
                              /\ d.at = "off" \/ (d.at = "wait" /\ d.mode = cleaner[f].mode)
    BY <1>4, AgainIs
  <2> QED  BY <1>0, <1>2, <2>1 DEF CleanStep
<1>5. CASE several /\ i \in readable' /\ cleaner' = [cleaner EXCEPT ![f].at = "delete"]
  <2>1. [c EXCEPT !.at = "delete"] \in Cleaners
    BY <1>0 DEF Cleaners
  <2> QED  BY <1>0, <1>2, <1>5, <2>1 DEF CleanStep
<1> QED  BY <1>2, <1>3, <1>4, <1>5

(***************************************************************************)
(* The invariant is kept                                                   *)
(***************************************************************************)

\* Nothing happens in the folder, less is still to come, and one clean-up
\* (or none) is c from now on.
LEMMA AwaitShrinks ==
  ASSUME SentTypes, Births, born' = born, Await' \subseteq Await
  PROVE  Births'
<1>1. Await \subseteq Item
  BY DEF SentTypes, Await, Item
<1>2. Item \ Await \subseteq Item \ Await' /\ IsFiniteSet(Item \ Await')
  BY ItemsFinite
<1>3. Cardinality(Item \ Await) <= Cardinality(Item \ Await')
  BY <1>2, FS_Subset
<1>4. Cardinality(Item \ Await) \in Nat /\ Cardinality(Item \ Await') \in Nat
  BY ItemsFinite
<1>5. \A i \in Item : born[i] \in Nat
  BY DEF SentTypes
<1> QED  BY <1>3, <1>4, <1>5 DEF Births

LEMMA ForkKeeps ==
  ASSUME SentInv, NEW f \in SentFork, ForkStep(f)
  PROVE  SentInv'
<1>a. SentTypes /\ Unborn /\ Births /\ ReadableIs /\ PlainMail /\ SecretMail
  BY DEF SentInv
<1>b. /\ done' = done \cup {f} /\ transit' \in {transit, transit \cup {f}}
      /\ registered' \in BOOLEAN
      /\ UNCHANGED <<updates, cipher, born, readable, sentStops, wasReadable>>
  BY DEF ForkStep
<1>c. /\ cleaner' \in [SentFork -> Cleaners]
      /\ \A g \in SentFork : \/ cleaner'[g] = cleaner[g]
                             \/ /\ cleaner'[g].at = "wait"
                                /\ cleaner'[g].mode = "encrypted" <=> g \in cipher
  <2>1. cleaner \in [SentFork -> Cleaners]
    BY <1>a DEF SentTypes
  <2>2. CASE cleaner' = cleaner
    BY <2>1, <2>2
  <2>3. ASSUME NEW c \in Cleaners, c.at = "wait", c.mode = "encrypted" <=> f \in cipher,
               cleaner' = [cleaner EXCEPT ![f] = c]
        PROVE  <1>c!2 /\ <1>c!1
    BY <2>1, <2>3
  <2> QED  BY <2>2, <2>3 DEF ForkStep
<1>d. Await' \subseteq Await
  <2>1. f \in Await /\ Await' = transit' \cup (SentFork \ done')
    BY DEF ForkStep, Await
  <2> QED  BY <1>b, <2>1 DEF Await
<1>e. Found' = Found /\ \A i : (IsNewest(i)' <=> IsNewest(i)) /\ (IsOldest(i)' <=> IsOldest(i))
  BY <1>b DEF Found, IsNewest, IsOldest
<1>1. SentTypes'
  <2>1. f \in Item /\ (SentFork \cap transit') \subseteq done' /\ transit' \subseteq Item
    BY <1>a, <1>b DEF SentTypes, Item
  <2> QED  BY <1>a, <1>b, <1>c, <2>1 DEF SentTypes
<1>2. Unborn'
  BY <1>a, <1>b, <1>c, <1>d DEF Unborn, AtWork
<1>3. Births'
  BY <1>a, <1>b, <1>d, AwaitShrinks
<1>4. ReadableIs'
  BY <1>a, <1>b, <1>e DEF ReadableIs
<1>5. PlainMail'
  <2> SUFFICES ASSUME cipher' = {} PROVE PlainMail'
    BY DEF PlainMail
  <2>1. cipher = {}
    BY <1>b
  <2>2. ASSUME NEW g \in SentFork
        PROVE  /\ cleaner'[g].at # "off" => cleaner'[g].mode # "encrypted"
               /\ cleaner'[g].at = "patch" => ~(Cardinality(cleaner'[g].found) > 1)
               /\ cleaner'[g].at = "delete" =>
                    \A i \in Item : IsNewest(i)' => i \notin Superfluous(cleaner'[g])
    <3>1. CASE cleaner'[g] = cleaner[g]
      BY <1>a, <1>e, <2>1, <3>1 DEF PlainMail
    <3>2. CASE cleaner'[g].at = "wait" /\ (cleaner'[g].mode = "encrypted" <=> g \in cipher)
      BY <2>1, <3>2
    <3> QED  BY <1>c, <3>1, <3>2
  <2> QED  BY <1>a, <1>b, <1>e, <2>1, <2>2 DEF PlainMail
<1>6. SecretMail'
  <2> SUFFICES ASSUME cipher' = SentFork PROVE SecretMail'
    BY DEF SecretMail
  <2>1. cipher = SentFork
    BY <1>b
  <2>2. ASSUME NEW g \in SentFork
        PROVE  /\ cleaner'[g].at # "off" => cleaner'[g].mode = "encrypted"
               /\ AtWork(g)' => IsOldest(cleaner[g].kept)' /\ cleaner'[g].kept = cleaner[g].kept
               /\ cleaner'[g].at = "delete" => cleaner'[g].kept \in readable'
    <3>1. CASE cleaner'[g] = cleaner[g]
      BY <1>a, <1>b, <1>e, <2>1, <3>1 DEF SecretMail, AtWork, IsOldest
    <3>2. CASE cleaner'[g].at = "wait" /\ (cleaner'[g].mode = "encrypted" <=> g \in cipher)
      BY <2>1, <3>2 DEF AtWork
    <3> QED  BY <1>c, <3>1, <3>2
  <2> QED  BY <1>a, <1>b, <1>e, <2>1, <2>2 DEF SecretMail, IsOldest
<1> QED  BY <1>1, <1>2, <1>3, <1>4, <1>5, <1>6 DEF SentInv

LEMMA CleanKeeps ==
  ASSUME SentInv, NEW f \in SentFork, CleanStep(f)
  PROVE  SentInv'
<1>a. SentTypes /\ Unborn /\ Births /\ ReadableIs /\ PlainMail /\ SecretMail
  BY DEF SentInv
<1>b. /\ UNCHANGED <<readable, wasReadable>>
           \/ \E i \in Found : readable' = readable \cup {i} /\ wasReadable' = TRUE
      /\ UNCHANGED <<updates, cipher, done, transit, born, registered, sentStops>>
  BY DEF CleanStep
<1>c. PICK c \in Cleaners :
       /\ cleaner' = [cleaner EXCEPT ![f] = c]
       /\ \/ c.at = "off"
          \/ c.at = "wait" /\ c.mode = cleaner[f].mode /\ cleaner[f].at # "off"
          \/ /\ c.at \in {"patch", "delete"} /\ cleaner[f].at = "wait"
             /\ c.mode = cleaner[f].mode /\ c.found = Found
             /\ c.mode = "encrypted" => c.at = "patch" /\ IsOldest(c.kept)
             /\ c.at = "patch" => c.mode = "encrypted" \/ Cardinality(Found) = 1
             /\ c.at = "delete" => IsNewest(c.kept)
          \/ /\ c = [cleaner[f] EXCEPT !.at = "delete"] /\ cleaner[f].at = "patch"
             /\ Cardinality(cleaner[f].found) > 1 /\ cleaner[f].kept \in readable'
  BY DEF CleanStep
<1>d. /\ cleaner \in [SentFork -> Cleaners] /\ cleaner' \in [SentFork -> Cleaners]
      /\ cleaner'[f] = c /\ \A g \in SentFork : g # f => cleaner'[g] = cleaner[g]
  BY <1>a, <1>c DEF SentTypes
<1>e. /\ Await' = Await /\ Found' = Found
      /\ \A i : (IsNewest(i)' <=> IsNewest(i)) /\ (IsOldest(i)' <=> IsOldest(i))
  BY <1>b DEF Await, Found, IsNewest, IsOldest
<1>f. /\ readable \subseteq readable' /\ readable' \subseteq readable \cup Found
      /\ wasReadable' \in BOOLEAN
      /\ wasReadable' => wasReadable \/ (Found # {} /\ readable' # {})
  <2>1. CASE UNCHANGED <<readable, wasReadable>>
    BY <1>a, <2>1 DEF SentTypes
  <2>2. ASSUME NEW i \in Found, readable' = readable \cup {i}, wasReadable' = TRUE
        PROVE  /\ readable \subseteq readable' /\ readable' \subseteq readable \cup Found
               /\ Found # {} /\ readable' # {}
    BY <2>2
  <2> QED  BY <1>b, <2>1, <2>2
<1>1. SentTypes'
  BY <1>a, <1>b, <1>d, <1>f DEF SentTypes
<1>2. Unborn'
  <2>1. ASSUME NEW i \in Await, c.at \in {"patch", "delete"} PROVE i \notin c.found
    <3>1. i \notin Found
      BY <1>a DEF Unborn, Found
    <3>2. c.found = Found \/ (c.found = cleaner[f].found /\ AtWork(f))
      BY <1>c, <1>d, <2>1 DEF AtWork, Cleaners
    <3> QED  BY <1>a, <3>1, <3>2 DEF Unborn
  <2> QED  BY <1>a, <1>b, <1>d, <1>e, <2>1 DEF Unborn, AtWork
<1>3. Births'
  BY <1>a, <1>b, <1>e DEF Births
<1>4. ReadableIs'
  BY <1>a, <1>b, <1>e, <1>f DEF ReadableIs
<1>5. PlainMail'
  <2> SUFFICES ASSUME cipher' = {} PROVE PlainMail'
    BY DEF PlainMail
  <2>1. /\ cipher = {} /\ (wasReadable => Found # {})
        /\ cleaner[f].at # "off" => cleaner[f].mode # "encrypted"
        /\ cleaner[f].at = "patch" => ~(Cardinality(cleaner[f].found) > 1)
    BY <1>a, <1>b DEF PlainMail
  <2>2. c.at # "off" => c.mode # "encrypted"
    BY <1>c, <2>1, <1>d DEF Cleaners
  <2>3. c.at = "patch" => ~(Cardinality(c.found) > 1)
    <3>1. ~(1 > 1)
      OBVIOUS
    <3>2. c.at = "patch" => Cardinality(c.found) = 1
      BY <1>c, <1>d, <2>1 DEF Cleaners
    <3> QED  BY <3>1, <3>2
  <2>4. ASSUME c.at = "delete", NEW i \in Item, IsNewest(i) PROVE i \notin Superfluous(c)
    <3>1. IsNewest(c.kept)
      BY <1>c, <2>1, <2>4
    <3>2. i \in Item /\ c.kept \in Item /\ born[i] # 0 /\ born[i] = born[c.kept]
      <4>1. \A j \in Item : born[j] \in Nat
        BY <1>a DEF SentTypes
      <4> QED  BY <2>4, <3>1, <4>1 DEF IsNewest, Found
    <3>3. i = c.kept
      BY <1>a, <3>2 DEF Births
    <3> QED  BY <3>3 DEF Superfluous
  <2>5. ASSUME NEW g \in SentFork
        PROVE  /\ cleaner'[g].at # "off" => cleaner'[g].mode # "encrypted"
               /\ cleaner'[g].at = "patch" => ~(Cardinality(cleaner'[g].found) > 1)
               /\ cleaner'[g].at = "delete" =>
                    \A i \in Item : IsNewest(i)' => i \notin Superfluous(cleaner'[g])
    <3>1. CASE g = f
      BY <1>d, <1>e, <2>2, <2>3, <2>4, <3>1
    <3>2. CASE g # f
      BY <1>a, <1>d, <1>e, <2>1, <3>2 DEF PlainMail
    <3> QED  BY <3>1, <3>2
  <2> QED  BY <1>e, <1>f, <2>1, <2>5 DEF PlainMail
<1>6. SecretMail'
  <2> SUFFICES ASSUME cipher' = SentFork PROVE SecretMail'
    BY DEF SecretMail
  <2>1. /\ cipher = SentFork
        /\ cleaner[f].at # "off" => cleaner[f].mode = "encrypted"
        /\ AtWork(f) => IsOldest(cleaner[f].kept)
        /\ wasReadable => readable # {}
    BY <1>a, <1>b DEF SecretMail
  <2>2. c.at # "off" => c.mode = "encrypted"
    BY <1>c, <2>1, <1>d DEF Cleaners
  <2>3. c.at \in {"patch", "delete"} => IsOldest(c.kept)
    BY <1>c, <1>d, <2>1, <2>2 DEF Cleaners, AtWork
  <2>4. c.at = "delete" => c.kept \in readable'
    BY <1>c, <1>d, <2>1, <2>2 DEF Cleaners
  <2>5. ASSUME NEW g \in SentFork
        PROVE  /\ cleaner'[g].at # "off" => cleaner'[g].mode = "encrypted"
               /\ AtWork(g)' => IsOldest(cleaner'[g].kept)
               /\ cleaner'[g].at = "delete" => cleaner'[g].kept \in readable'
    <3>1. CASE g = f
      BY <1>d, <2>2, <2>3, <2>4, <3>1 DEF AtWork
    <3>2. CASE g # f
      BY <1>a, <1>d, <1>f, <2>1, <3>2 DEF SecretMail, AtWork
    <3> QED  BY <3>1, <3>2
  <2>6. \A g \in SentFork : AtWork(g)' => IsOldest(cleaner[g].kept)'
    <3> SUFFICES ASSUME NEW g \in SentFork, AtWork(g)' PROVE IsOldest(cleaner[g].kept)'
      OBVIOUS
    <3>1. IsOldest(cleaner'[g].kept)
      BY <2>5
    <3> QED  BY <1>b, <3>1 DEF IsOldest, Found
  <2>7. wasReadable' => readable' # {}
    BY <1>f, <2>1
  <2> QED  BY <2>5, <2>6, <2>7 DEF SecretMail
<1> QED  BY <1>1, <1>2, <1>3, <1>4, <1>5, <1>6 DEF SentInv

LEMMA AppearKeeps ==
  ASSUME SentInv, NEW i \in Item, Appear(i)
  PROVE  SentInv'
<1>a. SentTypes /\ Unborn /\ Births /\ ReadableIs /\ PlainMail /\ SecretMail
  BY DEF SentInv
<1> DEFINE n == 1 + Max({born[j] : j \in Item})
<1>b. /\ i \in transit /\ transit' = transit \ {i} /\ born' = [born EXCEPT ![i] = n]
      /\ readable' = (IF i \in cipher THEN readable ELSE readable \cup {i})
      /\ wasReadable' = (wasReadable \/ i \notin cipher)
      /\ UNCHANGED <<updates, cipher, done, registered, cleaner, sentStops>>
  BY DEF Appear
<1>c. /\ n \in Nat /\ n # 0 /\ n <= Cardinality(Item \ (Await \ {i}))
      /\ \A j \in Item : born[j] < n
  BY <1>a, <1>b, NextBirth
<1> HIDE DEF n
<1>d. Await' = Await \ {i} /\ i \in Await
  BY <1>a, <1>b DEF Await, SentTypes
<1>e. /\ born \in [Item -> Nat] /\ born' \in [Item -> Nat] /\ born'[i] = n
      /\ born[i] = 0 /\ \A j \in Item : j # i => born'[j] = born[j]
  BY <1>a, <1>b, <1>c, <1>d DEF SentTypes, Unborn
<1>f. Found' = Found \cup {i} /\ i \notin Found
  BY <1>c, <1>e DEF Found
<1>g. wasReadable' \in BOOLEAN /\ readable \subseteq readable' /\ readable' \subseteq readable \cup {i}
  BY <1>a, <1>b DEF SentTypes
<1>1. SentTypes'
  <2>1. transit' \subseteq Item /\ transit' \cap SentFork \subseteq done'
    BY <1>a, <1>b DEF SentTypes
  <2> QED  BY <1>a, <1>b, <1>e, <1>g, <2>1 DEF SentTypes
<1>2. Unborn'
  <2>1. Await \subseteq Item
    BY <1>a DEF SentTypes, Await, Item
  <2> QED  BY <1>a, <1>b, <1>d, <1>e, <2>1 DEF Unborn, AtWork
<1>3. Births'
  <2>1. ASSUME NEW j \in Item, NEW k \in Item, born'[j] # 0, born'[j] = born'[k] PROVE j = k
    <3>1. CASE j # i /\ k # i
      BY <1>a, <1>e, <2>1, <3>1 DEF Births
    <3>2. CASE j = i /\ k # i
      BY <1>c, <1>e, <2>1, <3>2
    <3>3. CASE j # i /\ k = i
      BY <1>c, <1>e, <2>1, <3>3
    <3> QED  BY <3>1, <3>2, <3>3
  <2>2. ASSUME NEW j \in Item PROVE born'[j] <= Cardinality(Item \ Await')
    <3>1. n <= Cardinality(Item \ Await') /\ Cardinality(Item \ Await') \in Nat
      BY <1>c, <1>d, ItemsFinite
    <3>2. born'[j] <= n /\ born'[j] \in Nat
      BY <1>c, <1>e
    <3> QED  BY <1>c, <3>1, <3>2
  <2> QED  BY <2>1, <2>2 DEF Births
<1>4. ReadableIs'
  BY <1>a, <1>b, <1>f DEF ReadableIs
<1>5. PlainMail'
  <2> SUFFICES ASSUME cipher' = {} PROVE PlainMail'
    BY DEF PlainMail
  <2>1. cipher = {}
    BY <1>b
  <2>2. ASSUME NEW j \in Item, IsNewest(j)' PROVE j = i
    <3>1. j \in Found' /\ \A k \in Found' : born'[k] <= born'[j]
      BY <2>2 DEF IsNewest
    <3>2. n <= born'[j]
      BY <1>e, <1>f, <3>1
    <3> QED  BY <1>c, <1>e, <3>2
  <2>3. ASSUME NEW g \in SentFork, cleaner[g].at = "delete" PROVE i \notin Superfluous(cleaner[g])
    BY <1>a, <1>d, <2>3 DEF Unborn, AtWork, Superfluous
  <2>4. \A g \in SentFork : cleaner'[g].at = "delete" =>
            \A j \in Item : IsNewest(j)' => j \notin Superfluous(cleaner'[g])
    BY <1>b, <2>2, <2>3
  <2>5. Found' # {}
    BY <1>f
  <2> QED  BY <1>a, <1>b, <2>1, <2>4, <2>5 DEF PlainMail
<1>6. SecretMail'
  <2> SUFFICES ASSUME cipher' = SentFork PROVE SecretMail'
    BY DEF SecretMail
  <2>1. cipher = SentFork
    BY <1>b
  <2>2. ASSUME NEW g \in SentFork, AtWork(g)' PROVE IsOldest(cleaner[g].kept)'
    <3>1. IsOldest(cleaner[g].kept)
      BY <1>a, <1>b, <2>1, <2>2 DEF SecretMail, AtWork
    <3>2. cleaner[g].kept \in Found /\ \A j \in Found : born[cleaner[g].kept] <= born[j]
      BY <3>1 DEF IsOldest
    <3>3. cleaner[g].kept \in Item /\ cleaner[g].kept # i
      BY <1>f, <3>2 DEF Found
    <3>4. ASSUME NEW j \in Found' PROVE born'[cleaner[g].kept] <= born'[j]
      <4>0. born[cleaner[g].kept] < n /\ born[cleaner[g].kept] \in Nat
        BY <1>c, <1>e, <3>3
      <4>1. CASE j = i
        BY <1>c, <1>e, <3>3, <4>0, <4>1
      <4>2. CASE j # i
        <5>1. j \in Found /\ j \in Item
          BY <1>f, <4>2, <3>4 DEF Found
        <5> QED  BY <1>e, <3>2, <3>3, <4>2, <5>1
      <4> QED  BY <4>1, <4>2
    <3> QED  BY <1>b, <1>f, <3>2, <3>4 DEF IsOldest
  <2>3. wasReadable' => readable' # {}
    BY <1>a, <1>b, <2>1 DEF SecretMail
  <2> QED  BY <1>a, <1>b, <1>g, <2>1, <2>2, <2>3 DEF SecretMail, AtWork
<1> QED  BY <1>1, <1>2, <1>3, <1>4, <1>5, <1>6 DEF SentInv

LEMMA DeleteKeeps ==
  ASSUME SentInv, NEW f \in SentFork, Delete(f)
  PROVE  SentInv'
<1>a. SentTypes /\ Unborn /\ Births /\ ReadableIs /\ PlainMail /\ SecretMail
  BY DEF SentInv
<1>b. /\ cleaner[f].at = "delete" /\ cleaner' = [cleaner EXCEPT ![f] = NoCleaner]
      /\ UNCHANGED <<updates, cipher, done, transit, registered, sentStops, wasReadable>>
  BY DEF Delete, Stop
<1>c. PICK gone \in SUBSET Superfluous(cleaner[f]) :
        /\ born' = [i \in Item |-> IF i \in gone THEN 0 ELSE born[i]]
        /\ readable' = readable \ gone
  BY DEF Delete
<1>d. /\ cleaner \in [SentFork -> Cleaners] /\ cleaner' \in [SentFork -> Cleaners]
      /\ \A g \in SentFork : cleaner'[g] = cleaner[g] \/ cleaner'[g].at = "off"
  BY <1>a, <1>b, NoCleanerIn DEF SentTypes
<1>e. /\ born \in [Item -> Nat] /\ born' \in [Item -> Nat]
      /\ \A i \in Item : born'[i] = IF i \in gone THEN 0 ELSE born[i]
  BY <1>a, <1>c DEF SentTypes
<1>f. Found' = Found \ gone /\ Await' = Await
  BY <1>b, <1>e DEF Found, Await
<1>g. \A g \in SentFork : AtWork(g)' => AtWork(g) /\ cleaner'[g] = cleaner[g]
  BY <1>d DEF AtWork
<1>1. SentTypes'
  BY <1>a, <1>b, <1>d, <1>e DEF SentTypes
<1>2. Unborn'
  <2>1. Await \subseteq Item
    BY <1>a DEF SentTypes, Await, Item
  <2> QED  BY <1>a, <1>e, <1>f, <1>g, <2>1 DEF Unborn
<1>3. Births'
  <2>1. \A i \in Item : born[i] \in Nat /\ born[i] <= Cardinality(Item \ Await)
    BY <1>a, <1>e DEF Births
  <2>2. Cardinality(Item \ Await) \in Nat
    BY ItemsFinite
  <2>3. \A i \in Item : born'[i] <= Cardinality(Item \ Await')
    BY <1>e, <1>f, <2>1, <2>2
  <2>4. \A i, j \in Item : born'[i] # 0 /\ born'[i] = born'[j] => i = j
    BY <1>a, <1>e DEF Births
  <2> QED  BY <2>3, <2>4 DEF Births
<1>4. ReadableIs'
  BY <1>a, <1>b, <1>c, <1>f DEF ReadableIs
<1>5. PlainMail'
  <2> SUFFICES ASSUME cipher' = {} PROVE PlainMail'
    BY DEF PlainMail
  <2>1. cipher = {}
    BY <1>b
  <2>2. Found # {} => \E i \in Found : IsNewest(i) /\ i \notin gone
    <3>1. ASSUME Found # {} PROVE IsNewest(Newest(Found)) /\ Newest(Found) \in Item
      <4>1. Cardinality(Item \ Await) \in Nat /\ \A i \in Item : born[i] <= Cardinality(Item \ Await)
        BY <1>a, ItemsFinite DEF Births
      <4> QED  BY <3>1, <4>1, <1>e, NewestIs DEF IsNewest, Found
    <3>2. \A i \in Item : IsNewest(i) => i \notin Superfluous(cleaner[f])
      BY <1>a, <1>b, <2>1 DEF PlainMail
    <3> QED  BY <1>c, <3>1, <3>2 DEF IsNewest
  <2>3. ASSUME NEW j \in Item, IsNewest(j)' PROVE IsNewest(j)
    <3>1. j \in Found /\ j \notin gone /\ \A k \in Found \ gone : born'[k] <= born'[j]
      BY <1>f, <2>3 DEF IsNewest
    <3>2. PICK i \in Found : IsNewest(i) /\ i \notin gone
      BY <2>2, <3>1
    <3>3. i \in Item /\ born[i] <= born[j]
      BY <1>e, <3>1, <3>2 DEF Found
    <3>4. ASSUME NEW k \in Found PROVE born[k] <= born[j]
      <4>1. born[k] <= born[i]
        BY <3>2 DEF IsNewest
      <4>2. k \in Item
        BY DEF Found
      <4> QED  BY <1>e, <3>3, <4>1, <4>2
    <3> QED  BY <3>1, <3>4 DEF IsNewest
  <2>4. ASSUME NEW g \in SentFork
        PROVE  /\ cleaner'[g].at # "off" => cleaner'[g].mode # "encrypted"
               /\ cleaner'[g].at = "patch" => ~(Cardinality(cleaner'[g].found) > 1)
               /\ cleaner'[g].at = "delete" =>
                    \A i \in Item : IsNewest(i)' => i \notin Superfluous(cleaner'[g])
    <3>1. CASE cleaner'[g] = cleaner[g]
      BY <1>a, <2>1, <2>3, <3>1 DEF PlainMail
    <3>2. CASE cleaner'[g].at = "off"
      BY <3>2
    <3> QED  BY <1>d, <3>1, <3>2
  <2>5. wasReadable' => Found' # {}
    <3>1. wasReadable => Found # {}
      BY <1>a, <2>1 DEF PlainMail
    <3> QED  BY <1>b, <1>f, <2>2, <3>1
  <2> QED  BY <2>4, <2>5 DEF PlainMail
<1>6. SecretMail'
  <2> SUFFICES ASSUME cipher' = SentFork PROVE SecretMail'
    BY DEF SecretMail
  <2>1. cipher = SentFork
    BY <1>b
  <2>2. /\ IsOldest(cleaner[f].kept) /\ cleaner[f].kept \in readable
        /\ cleaner[f].kept \notin gone
    BY <1>a, <1>b, <1>c, <2>1 DEF SecretMail, AtWork, Superfluous
  <2>3. ASSUME NEW g \in SentFork, AtWork(g)'
        PROVE  IsOldest(cleaner[g].kept)' /\ cleaner'[g].kept \in readable'
    <3>0. AtWork(g) /\ cleaner'[g] = cleaner[g]
      BY <1>g, <2>3
    <3>1. IsOldest(cleaner[g].kept)
      BY <1>a, <2>1, <3>0 DEF SecretMail
    <3> DEFINE i == cleaner[f].kept j == cleaner[g].kept
    <3>2. /\ i \in Found /\ j \in Found /\ i \in Item /\ j \in Item
          /\ born[i] <= born[j] /\ born[j] <= born[i] /\ born[i] # 0
      BY <2>2, <3>1 DEF IsOldest, Found
    <3>3. born[i] = born[j]
      BY <1>e, <3>2
    <3>4. i = j
      BY <1>a, <3>2, <3>3 DEF Births
    <3>5. \A k \in Found' : born'[j] <= born'[k]
      <4> SUFFICES ASSUME NEW k \in Found' PROVE born'[j] <= born'[k]
        OBVIOUS
      <4>1. k \in Found /\ k \in Item /\ k \notin gone
        BY <1>f DEF Found
      <4>2. born[j] <= born[k]
        BY <3>1, <4>1 DEF IsOldest
      <4> QED  BY <1>e, <2>2, <3>2, <3>4, <4>1, <4>2
    <3>6. j \in Found'
      BY <1>f, <2>2, <3>2, <3>4
    <3>7. IsOldest(cleaner[g].kept)'
      BY <3>0, <3>5, <3>6 DEF IsOldest
    <3>8. cleaner'[g].kept \in readable'
      BY <1>c, <2>2, <3>0, <3>4
    <3> QED  BY <3>7, <3>8
  <2>4. \A g \in SentFork : cleaner'[g].at # "off" => cleaner'[g].mode = "encrypted"
    BY <1>a, <1>d, <2>1 DEF SecretMail
  <2>5. readable' # {}
    BY <1>c, <2>2
  <2> QED  BY <2>3, <2>4, <2>5 DEF SecretMail, AtWork
<1> QED  BY <1>1, <1>2, <1>3, <1>4, <1>5, <1>6 DEF SentInv

LEMMA SentStart == SentInit => SentInv
<1> SUFFICES ASSUME SentInit PROVE SentInv
  OBVIOUS
<1>0. /\ done = {} /\ transit = {Original} /\ born = [i \in Item |-> 0] /\ readable = {}
      /\ cleaner = [f \in SentFork |-> NoCleaner] /\ sentStops = 0
      /\ updates \in BOOLEAN /\ cipher \in SUBSET SentFork /\ registered = FALSE /\ wasReadable = FALSE
  BY DEF SentInit
<1>1. SentTypes
  <2>1. cleaner \in [SentFork -> Cleaners]
    BY <1>0, NoCleanerIn
  <2>2. sentStops \in 0..MaxSentStop
    BY <1>0
  <2>3. born \in [Item -> Nat]
    BY <1>0
  <2>4. registered \in BOOLEAN /\ wasReadable \in BOOLEAN
    BY <1>0
  <2>5. transit \subseteq Item /\ transit \cap SentFork = {} /\ done = {}
    BY <1>0 DEF Item
  <2> QED  BY <1>0, <2>1, <2>2, <2>3, <2>4, <2>5 DEF SentTypes
<1>2. \A f \in SentFork : cleaner[f].at = "off" /\ ~AtWork(f)
  BY <1>0, NoCleanerIn DEF AtWork
<1>3. Found = {} /\ \A i \in Item : born[i] = 0
  BY <1>0 DEF Found
<1>4. Unborn
  <2>1. Await \subseteq Item
    BY <1>1 DEF SentTypes, Await, Item
  <2> QED  BY <1>2, <1>3, <2>1 DEF Unborn
<1>5. Births
  <2>1. Cardinality(Item \ Await) \in Nat
    BY ItemsFinite
  <2> QED  BY <1>3, <2>1 DEF Births
<1>6. ReadableIs
  BY <1>0, <1>3 DEF ReadableIs
<1>7. PlainMail
  BY <1>0, <1>2 DEF PlainMail
<1>8. SecretMail
  BY <1>0, <1>2 DEF SecretMail
<1> QED  BY <1>1, <1>4, <1>5, <1>6, <1>7, <1>8 DEF SentInv

\* Only the registry of mails, or all that is in memory, is lost.
LEMMA LossKeeps ==
  ASSUME SentInv,
         UNCHANGED <<updates, cipher, done, transit, born, readable, wasReadable>>,
         registered' \in BOOLEAN, sentStops' \in 0..MaxSentStop,
         cleaner' = cleaner \/ cleaner' = [f \in SentFork |-> NoCleaner]
  PROVE  SentInv'
<1>a. SentTypes /\ Unborn /\ Births /\ ReadableIs /\ PlainMail /\ SecretMail
  BY DEF SentInv
<1>d. /\ cleaner' \in [SentFork -> Cleaners]
      /\ \A g \in SentFork : cleaner'[g] = cleaner[g] \/ cleaner'[g].at = "off"
  BY <1>a, NoCleanerIn DEF SentTypes
<1>e. Found' = Found /\ Await' = Await /\ \A i : (IsNewest(i)' <=> IsNewest(i))
  BY DEF Found, Await, IsNewest
<1>g. \A g \in SentFork : AtWork(g)' => AtWork(g) /\ cleaner'[g] = cleaner[g]
  BY <1>d DEF AtWork
<1>1. SentTypes'
  BY <1>a, <1>d DEF SentTypes
<1>2. Unborn'
  BY <1>a, <1>e, <1>g DEF Unborn
<1>3. Births'
  BY <1>a, <1>e DEF Births
<1>4. ReadableIs'
  BY <1>a, <1>e DEF ReadableIs
<1>5. PlainMail'
  <2> SUFFICES ASSUME cipher' = {} PROVE PlainMail'
    BY DEF PlainMail
  <2>1. cipher = {}
    OBVIOUS
  <2>2. ASSUME NEW g \in SentFork
        PROVE  /\ cleaner'[g].at # "off" => cleaner'[g].mode # "encrypted"
               /\ cleaner'[g].at = "patch" => ~(Cardinality(cleaner'[g].found) > 1)
               /\ cleaner'[g].at = "delete" =>
                    \A i \in Item : IsNewest(i)' => i \notin Superfluous(cleaner'[g])
    <3>1. CASE cleaner'[g] = cleaner[g]
      BY <1>a, <1>e, <2>1, <3>1 DEF PlainMail
    <3>2. CASE cleaner'[g].at = "off"
      BY <3>2
    <3> QED  BY <1>d, <3>1, <3>2
  <2> QED  BY <1>a, <1>e, <2>1, <2>2 DEF PlainMail
<1>6. SecretMail'
  <2> SUFFICES ASSUME cipher' = SentFork PROVE SecretMail'
    BY DEF SecretMail
  <2>1. cipher = SentFork
    OBVIOUS
  <2>2. ASSUME NEW g \in SentFork
        PROVE  /\ cleaner'[g].at # "off" => cleaner'[g].mode = "encrypted"
               /\ cleaner'[g].at = "delete" => cleaner'[g].kept \in readable'
    <3>1. CASE cleaner'[g] = cleaner[g]
      BY <1>a, <2>1, <3>1 DEF SecretMail
    <3>2. CASE cleaner'[g].at = "off"
      BY <3>2
    <3> QED  BY <1>d, <3>1, <3>2
  <2>3. ASSUME NEW g \in SentFork, AtWork(g)' PROVE IsOldest(cleaner[g].kept)'
    <3>1. IsOldest(cleaner[g].kept) /\ cleaner'[g] = cleaner[g]
      BY <1>a, <1>g, <2>1, <2>3 DEF SecretMail
    <3> QED  BY <3>1, <1>e DEF IsOldest
  <2> QED  BY <1>a, <2>1, <2>2, <2>3 DEF SecretMail
<1> QED  BY <1>1, <1>2, <1>3, <1>4, <1>5, <1>6 DEF SentInv

LEMMA SentStep == SentInv /\ [SentNext]_sentVars => SentInv'
<1> SUFFICES ASSUME SentInv, [SentNext]_sentVars PROVE SentInv'
  OBVIOUS
<1>0. SentTypes /\ Births
  BY DEF SentInv
<1>1. ASSUME NEW f \in SentFork, Process(f) \/ PassOn(f) \/ ReleaseHeld(f) PROVE SentInv'
  BY <1>0, <1>1, ForkIs, ForkKeeps
<1>2. ASSUME NEW f \in SentFork, Search(f) PROVE SentInv'
  BY <1>0, <1>2, SearchIs, CleanKeeps
<1>3. ASSUME NEW f \in SentFork, Patch(f) PROVE SentInv'
  BY <1>0, <1>3, PatchIs, CleanKeeps
<1>4. ASSUME NEW f \in SentFork, Delete(f) PROVE SentInv'
  BY <1>4, DeleteKeeps
<1>5. ASSUME NEW i \in Item, Appear(i) PROVE SentInv'
  BY <1>5, AppearKeeps
<1>6. CASE RegistryExpires
  BY <1>0, <1>6, LossKeeps DEF RegistryExpires, SentTypes
<1>7. CASE SentRestart
  <2>1. sentStops' \in 0..MaxSentStop
    BY <1>0, <1>7 DEF SentRestart, SentTypes
  <2> QED  BY <1>7, <2>1, LossKeeps DEF SentRestart
<1>8. CASE UNCHANGED sentVars
  BY <1>0, <1>8, LossKeeps DEF sentVars, SentTypes
<1> QED  BY <1>1, <1>2, <1>3, <1>4, <1>5, <1>6, <1>7, <1>8 DEF SentNext

LEMMA SentCorrect == SentInit /\ [][SentNext]_sentVars => []SentInv
BY SentStart, SentStep, PTL

LEMMA SentFromInv == SentInv => SentTypeOK /\ AlikeStayReadable
<1> SUFFICES ASSUME SentInv PROVE SentTypeOK /\ AlikeStayReadable
  OBVIOUS
<1>0. SentTypes /\ Births /\ ReadableIs /\ PlainMail /\ SecretMail
  BY DEF SentInv
<1>1. SentTypeOK
  <2>1. born \in [Item -> 0..Cardinality(Item)]
    <3> SUFFICES ASSUME NEW i \in Item PROVE born[i] \in 0..Cardinality(Item)
      BY <1>0 DEF SentTypes
    <3>1. Cardinality(Item \ Await) <= Cardinality(Item)
      BY ItemsFinite, FS_Subset
    <3>2. Cardinality(Item \ Await) \in Nat /\ Cardinality(Item) \in Nat
      BY ItemsFinite
    <3>3. born[i] \in Nat /\ born[i] <= Cardinality(Item \ Await)
      BY <1>0 DEF SentTypes, Births
    <3> QED  BY <3>1, <3>2, <3>3
  <2> QED  BY <1>0, <2>1 DEF SentTypes, ReadableIs, SentTypeOK, Cleaners, Modes
<1>2. CASE cipher = {}
  <2>1. wasReadable => readable # {}
    BY <1>0, <1>2 DEF PlainMail, ReadableIs
  <2> QED  BY <1>1, <2>1 DEF AlikeStayReadable, SentStaysReadable
<1>3. CASE cipher = SentFork
  <2>1. wasReadable => readable # {}
    BY <1>0, <1>3 DEF SecretMail
  <2> QED  BY <1>1, <2>1 DEF AlikeStayReadable, SentStaysReadable
<1> QED  BY <1>1, <1>2, <1>3 DEF AlikeStayReadable

HIDE SentAssumption

-----------------------------------------------------------------------------
(* Signatures                                                              *)

USE SignatureAssumption

Letters == [from : Author \cup Outsider, form : Form, shows : [Place -> Look]]
Blocks == [form : Form, look : Look, adds : BOOLEAN]
Hows == {"keep", "strip", "prefix", "cut"}

Seen(t, s, b) == {k \in Place : s[k] # "gone" /\ t[k].from = b}
Fulls(t, s, b) == {k \in Seen(t, s, b) : t[k].form = "full"}

SignatureTypes ==
  /\ thread \in Seq(Letters) /\ Len(thread) <= MaxThread
  /\ reply \in {"none", "short", "long"} /\ skip \in BOOLEAN /\ last \in {"addin", "gateway"}
  /\ signed \subseteq Author \X Place /\ odd \subseteq Cause

(* A mail shows blocks of mails up to it, those of an author with one in   *)
(* full among them; a mail of an author shows one of his.                  *)
Shown(t, i) ==
  /\ \A k \in Place : t[i].shows[k] # "gone" => k <= i
  /\ \A b \in Author : Seen(t, t[i].shows, b) # {}
                         => \E k \in Place : Fulls(t, t[i].shows, b) = {k}
  /\ t[i].from \in Author => Seen(t, t[i].shows, t[i].from) # {}

Blocked == \A i \in 1..Len(thread) : Shown(thread, i)

(* Only an author's own mails are remembered for him.                      *)
SignedOwn == \A s \in signed : s[2] \in 1..Len(thread) /\ thread[s[2]].from = s[1]

SignatureInv == SignatureTypes /\ Blocked /\ SignedOwn

LEMMA BlockIs ==
  ASSUME NEW form, NEW look
  PROVE  /\ Block(form, look, FALSE).form = form /\ ~Block(form, look, FALSE).adds
         /\ Block(form, look, TRUE).form = form
BY DEF Block

LEMMA CarriedIs ==
  ASSUME NEW how \in Hows, NEW look \in Look
  PROVE  Carried(how, look) \in Look /\ (Carried(how, look) # "gone" <=> look # "gone")
<1>1. CASE how = "strip" /\ look # "gone"
  BY <1>1 DEF Look, Carried
<1>2. CASE how = "prefix" /\ look = "bare"
  BY <1>2 DEF Look, Carried
<1>3. CASE ~(how = "strip" /\ look # "gone") /\ ~(how = "prefix" /\ look = "bare")
  BY <1>3 DEF Look, Carried
<1> QED  BY <1>1, <1>2, <1>3

LEMMA QuoteIs ==
  ASSUME SignatureTypes, NEW j \in 0..Len(thread), NEW how \in Hows
  PROVE  /\ Quote(j, how) \in [Place -> Look]
         /\ j = 0 \/ how = "cut" => \A k \in Place : Quote(j, how)[k] = "gone"
         /\ j # 0 /\ how # "cut" =>
              \A k \in Place : Quote(j, how)[k] # "gone" <=> thread[j].shows[k] # "gone"
<1>1. j # 0 => \A k \in Place : thread[j].shows[k] \in Look
  <2> SUFFICES ASSUME j # 0, NEW k \in Place PROVE thread[j].shows[k] \in Look
    OBVIOUS
  <2>1. j \in 1..Len(thread) /\ thread \in Seq(Letters)
    BY DEF SignatureTypes
  <2>2. thread[j] \in Letters
    BY <2>1
  <2> QED  BY <2>2 DEF Letters
<1>2. j # 0 => \A k \in Place : /\ Carried(how, thread[j].shows[k]) \in Look
                                /\ Carried(how, thread[j].shows[k]) # "gone"
                                     <=> thread[j].shows[k] # "gone"
  BY <1>1, CarriedIs
<1>3. "gone" \in Look
  BY DEF Look
<1> QED  BY <1>2, <1>3 DEF Quote

(* What is left of a quote shows what the mail it quotes has shown.        *)
LEMMA QuoteShows ==
  ASSUME SignatureInv, NEW j \in 0..Len(thread), NEW how \in Hows, NEW s,
         \A k \in Place : s[k] # "gone" <=> Quote(j, how)[k] # "gone"
  PROVE  /\ \A k \in Place : s[k] # "gone" => k \in 1..Len(thread)
         /\ \A b \in Author : Seen(thread, s, b) # {} =>
                                \E k \in Place : Fulls(thread, s, b) = {k}
         /\ \A b \in Author : j # 0 /\ how # "cut" /\ thread[j].from = b
                                => Seen(thread, s, b) # {}
         /\ \A b \in Author : j = 0 => Seen(thread, s, b) = {}
<1>0. SignatureTypes /\ Blocked /\ Len(thread) \in Nat
  BY DEF SignatureInv, SignatureTypes
<1>1. CASE j = 0 \/ how = "cut"
  <2>1. \A k \in Place : s[k] = "gone"
    BY <1>0, <1>1, QuoteIs
  <2>2. \A b : Seen(thread, s, b) = {}
    BY <2>1 DEF Seen
  <2> QED  BY <2>1, <2>2, <1>1
<1>2. CASE j # 0 /\ how # "cut"
  <2>1. \A k \in Place : s[k] # "gone" <=> thread[j].shows[k] # "gone"
    BY <1>0, <1>2, QuoteIs
  <2>2. j \in 1..Len(thread)
    BY <1>2, <1>0
  <2>3. Shown(thread, j)
    BY <2>2, <1>0 DEF Blocked
  <2>4. \A b : Seen(thread, s, b) = Seen(thread, thread[j].shows, b)
    BY <2>1 DEF Seen
  <2>5. \A b : Fulls(thread, s, b) = Fulls(thread, thread[j].shows, b)
    BY <2>4 DEF Fulls
  <2>6. \A k \in Place : s[k] # "gone" => k \in 1..Len(thread)
    <3> SUFFICES ASSUME NEW k \in Place, s[k] # "gone" PROVE k \in 1..Len(thread)
      OBVIOUS
    <3>1. k <= j
      BY <2>1, <2>3 DEF Shown
    <3>2. k \in Nat /\ k >= 1
      BY DEF Place
    <3> QED  BY <3>1, <3>2, <2>2, <1>0
  <2>7. \A b \in Author : Seen(thread, s, b) # {} => \E k \in Place : Fulls(thread, s, b) = {k}
    BY <2>3, <2>4, <2>5 DEF Shown
  <2>8. \A b \in Author : thread[j].from = b => Seen(thread, s, b) # {}
    BY <2>3, <2>4 DEF Shown
  <2> QED  BY <2>6, <2>7, <2>8, <1>2
<1> QED  BY <1>1, <1>2

(* The thread with one more mail.                                          *)
LEMMA AddKeeps ==
  ASSUME SignatureInv, Len(thread) < MaxThread, NEW e \in Letters,
         thread' = Append(thread, e), signed' \subseteq signed \cup {<<e.from, Len(thread) + 1>>},
         signed' \subseteq signed \/ e.from \in Author,
         \A k \in Place : e.shows[k] # "gone" => k <= Len(thread) + 1,
         \A b \in Author : Seen(thread', e.shows, b) # {}
                             => \E k \in Place : Fulls(thread', e.shows, b) = {k},
         e.from \in Author => Seen(thread', e.shows, e.from) # {}
  PROVE  /\ thread' \in Seq(Letters) /\ Len(thread') <= MaxThread
         /\ signed' \subseteq Author \X Place
         /\ Blocked' /\ SignedOwn'
<1> DEFINE n == Len(thread)
<1>0. thread \in Seq(Letters) /\ n \in Nat /\ MaxThread \in Nat /\ n < MaxThread
  BY DEF SignatureInv, SignatureTypes
<1>1. /\ thread' \in Seq(Letters) /\ Len(thread') = n + 1
      /\ \A i \in 1..n : thread'[i] = thread[i]
      /\ thread'[n + 1] = e
  BY <1>0, AppendProperties
<1>2. Len(thread') <= MaxThread /\ n + 1 \in Place
  BY <1>0, <1>1 DEF Place
<1>3. signed' \subseteq Author \X Place
  BY <1>2 DEF SignatureInv, SignatureTypes
<1>4. Blocked'
  <2> SUFFICES ASSUME NEW i \in 1..Len(thread') PROVE Shown(thread', i)
    BY DEF Blocked
  <2>1. CASE i = n + 1
    <3>1. thread'[i] = e
      BY <2>1, <1>1
    <3> QED  BY <3>1, <2>1 DEF Shown
  <2>2. CASE i \in 1..n
    <3>1. Shown(thread, i) /\ thread'[i] = thread[i]
      BY <2>2, <1>1 DEF SignatureInv, Blocked
    <3>2. \A k \in Place : thread[i].shows[k] # "gone" => k \in 1..n
      <4> SUFFICES ASSUME NEW k \in Place, thread[i].shows[k] # "gone" PROVE k \in 1..n
        OBVIOUS
      <4>1. k <= i
        BY <3>1 DEF Shown
      <4>2. k \in Nat /\ k >= 1
        BY DEF Place
      <4> QED  BY <4>1, <4>2, <2>2, <1>0
    <3>3. \A b : Seen(thread', thread'[i].shows, b) = Seen(thread, thread[i].shows, b)
      BY <3>1, <3>2, <1>1 DEF Seen
    <3>4. \A b : Fulls(thread', thread'[i].shows, b) = Fulls(thread, thread[i].shows, b)
      <4> SUFFICES ASSUME NEW b
            PROVE  Fulls(thread', thread'[i].shows, b) = Fulls(thread, thread[i].shows, b)
        OBVIOUS
      <4>1. \A k \in Seen(thread, thread[i].shows, b) : thread'[k] = thread[k]
        BY <3>2, <1>1 DEF Seen
      <4> QED  BY <4>1, <3>3 DEF Fulls
    <3> QED  BY <3>1, <3>3, <3>4 DEF Shown
  <2> QED  BY <2>1, <2>2, <1>1, <1>0
<1>5. SignedOwn'
  <2> SUFFICES ASSUME NEW s \in signed'
        PROVE  s[2] \in 1..Len(thread') /\ thread'[s[2]].from = s[1]
    BY DEF SignedOwn
  <2>1. CASE s \in signed
    <3>1. s[2] \in 1..n /\ thread[s[2]].from = s[1]
      BY <2>1 DEF SignatureInv, SignedOwn
    <3>2. s[2] \in 1..Len(thread')
      BY <3>1, <1>1, <1>0
    <3> QED  BY <3>1, <3>2, <1>1
  <2>2. CASE s = <<e.from, n + 1>>
    BY <2>2, <1>1, <1>0
  <2> QED  BY <2>1, <2>2
<1> QED  BY <1>1, <1>2, <1>3, <1>4, <1>5

(* What a draft may hold.                                                  *)
LEMMA DraftIs ==
  ASSUME SignatureTypes, NEW to, NEW m \in Mails(to)
  PROVE  /\ m.to = to /\ m.how \in Hows
         /\ m.html \in BOOLEAN /\ m.known \in BOOLEAN /\ m.linked \in BOOLEAN /\ m.nosig \in BOOLEAN
         /\ m.draft.form \in Form /\ m.draft.look \in Look
         /\ m.draft.by \in {"nobody", "button", "choice"}
         /\ m.draft.form = "none" <=> m.draft.look = "gone"
         /\ m.draft.form # "none" => m.draft.by # "nobody"
         /\ m.draft.by = "button" => m.draft.form = "full"
         /\ ~m.html => m.known /\ m.draft.by = "nobody"
         /\ to = 0 => m.known /\ ~m.linked
<1>1. /\ m.to = to /\ m.how \in Hows
      /\ m.html \in BOOLEAN /\ m.known \in BOOLEAN /\ m.linked \in BOOLEAN /\ m.nosig \in BOOLEAN
      /\ m.draft \in Drafts
      /\ ~m.html => m.known /\ m.draft.by = "nobody"
      /\ to = 0 => m.known /\ ~m.linked
  BY DEF Mails, Hows
<1>2. \A d \in Drafts :
         /\ d.form \in Form /\ d.look \in Look /\ d.by \in {"nobody", "button", "choice"}
         /\ d.form = "none" <=> d.look = "gone"
         /\ d.form # "none" => d.by # "nobody"
         /\ d.by = "button" => d.form = "full"
  BY DEF Drafts, Form, Look, SignatureTypes
<1> QED  BY <1>1, <1>2

LEMMA OutcomeIn ==
  ASSUME SignatureTypes, NEW to, NEW m \in Mails(to), NEW q, NEW chain \in BOOLEAN
  PROVE  Outcome(m, q, chain) \in Blocks
<1>1. /\ m.html \in BOOLEAN /\ m.draft.form \in Form /\ m.draft.look \in Look
      /\ reply \in Form
  BY DraftIs DEF SignatureTypes, Form
<1>2. \A f \in Form, l \in Look, b \in BOOLEAN : Block(f, l, b) \in Blocks
  BY DEF Block, Blocks
<1>3. /\ "none" \in Form /\ "full" \in Form
      /\ "gone" \in Look /\ "marked" \in Look /\ "text" \in Look
  BY DEF Form, Look
<1> DEFINE over == Overruled(m, q, chain)
           form == IF over THEN "none" ELSE m.draft.form
           look == IF over THEN "gone" ELSE m.draft.look
           placed == IF m.html THEN "marked" ELSE "text"
           silent == m.nosig \/ InDraft(m, q, look)
<1>4. form \in Form /\ look \in Look /\ placed \in Look
  BY <1>1, <1>3
<1>5. Outcome(m, q, chain) =
        IF silent \/ (chain /\ reply = "none") THEN Block(form, look, FALSE)
        ELSE IF chain THEN Block(reply, placed, TRUE)
        ELSE IF skip /\ m.html /\ AnyMark(q) THEN Block(form, look, TRUE)
        ELSE Block("full", placed, TRUE)
  BY DEF Outcome
<1> HIDE DEF form, look, placed, silent
<1> QED  BY <1>1, <1>2, <1>3, <1>4, <1>5

(* In a chain no full block goes out, unless the promise leaves it out.    *)
LEMMA OutcomeInChain ==
  ASSUME SignatureTypes, NEW a, NEW to, NEW m \in Mails(to), NEW q, NEW chain \in BOOLEAN, chain,
         Causes(a, m, q, chain) = {}
  PROVE  Outcome(m, q, chain).form # "full"
<1> DEFINE over == Overruled(m, q, chain)
           form == IF over THEN "none" ELSE m.draft.form
           look == IF over THEN "gone" ELSE m.draft.look
           placed == IF m.html THEN "marked" ELSE "text"
           silent == m.nosig \/ InDraft(m, q, look)
           out == Outcome(m, q, chain)
<1>1. out = IF silent \/ reply = "none" THEN Block(form, look, FALSE)
            ELSE Block(reply, placed, TRUE)
  BY DEF Outcome
<1>2. out.form = form \/ out.form = reply
  <2> HIDE DEF form, look, placed, silent, out
  <2> QED  BY <1>1, BlockIs
<1>3. SUFFICES ASSUME ~over, m.draft.form = "full" PROVE out.form # "full"
  BY <1>2 DEF SignatureTypes
<1>4. InDraft(m, q, m.draft.look)
  BY <1>3, DraftIs DEF InDraft
<1>5. out = Block(m.draft.form, m.draft.look, FALSE)
  BY <1>1, <1>3, <1>4
<1>6. out.form = m.draft.form /\ ~out.adds
  <2> HIDE DEF form, look, placed, silent, out
  <2> QED  BY <1>5, BlockIs
<1>7. m.nosig => "asked" \in Causes(a, m, q, chain)
  BY DEF Causes, Cause
<1>8. m.draft.by = "button" \/ last = "addin"
  <2>1. m.draft.stuck /\ Disagrees(m, q, chain) => "stuck" \in Causes(a, m, q, chain)
    BY DEF Causes, Cause
  <2> QED  BY <1>3, <1>4, <1>7, <2>1, DraftIs DEF Overruled, Disagrees, SignatureTypes
<1>9. "by_hand" \in Causes(a, m, q, chain)
  BY <1>3, <1>6, <1>8 DEF Causes, Cause
<1> QED  BY <1>9

(* Outside a chain a full one does.                                        *)
LEMMA OutcomeAlone ==
  ASSUME SignatureTypes, NEW a, NEW to, NEW m \in Mails(to), NEW q, NEW chain \in BOOLEAN, ~chain,
         ~AnyMark(q), Causes(a, m, q, chain) = {}
  PROVE  Outcome(m, q, chain).form = "full" /\ Outcome(m, q, chain).look # "gone"
<1> DEFINE over == Overruled(m, q, chain)
           form == IF over THEN "none" ELSE m.draft.form
           look == IF over THEN "gone" ELSE m.draft.look
           placed == IF m.html THEN "marked" ELSE "text"
           silent == m.nosig \/ InDraft(m, q, look)
           out == Outcome(m, q, chain)
<1>1. out = IF silent THEN Block(form, look, FALSE) ELSE Block("full", placed, TRUE)
  BY DEF Outcome
<1>2. CASE ~silent
  BY <1>1, <1>2 DEF Block
<1>3. CASE silent
  <2>1. ~m.nosig
    <3>1. m.nosig => "asked" \in Causes(a, m, q, chain)
      BY DEF Causes, Cause
    <3> QED  BY <3>1
  <2>2. InDraft(m, q, look) /\ m.html /\ look # "gone"
    BY <1>3, <2>1 DEF InDraft
  <2>3. ~over /\ InDraft(m, q, m.draft.look)
    BY <2>2
  <2>4. out = Block(m.draft.form, m.draft.look, FALSE) /\ m.draft.look # "gone"
    BY <1>1, <1>3, <2>2, <2>3
  <2>5. out.form = m.draft.form /\ out.look = m.draft.look /\ ~out.adds
    BY <2>4 DEF Block
  <2>6. CASE m.draft.form # "full"
    <3>1. last = "addin" /\ m.draft.form # "none"
      <4>1. m.draft.stuck /\ Disagrees(m, q, chain) => "stuck" \in Causes(a, m, q, chain)
        BY DEF Causes, Cause
      <4> QED  BY <2>1, <2>3, <2>4, <2>6, <4>1, DraftIs DEF Overruled, Disagrees, SignatureTypes
    <3>2. "by_hand" \in Causes(a, m, q, chain)
      BY <2>5, <3>1 DEF Causes, Cause
    <3> QED  BY <3>2
  <2> QED  BY <2>4, <2>5, <2>6
<1> QED  BY <1>2, <1>3

(* What the gateway takes for a chain is one.                              *)
LEMMA ChainShows ==
  ASSUME SignatureInv, NEW a \in Author, NEW to \in 0..Len(thread), NEW m \in Mails(to),
         NEW chain, Causes(a, m, Quote(to, m.how), chain) = {}
  PROVE  LET q == Quote(to, m.how)
         IN  /\ InChain(a, m, q) => Seen(thread, q, a) # {}
             /\ ~InChain(a, m, q) => Fulls(thread, q, a) = {} /\ ~AnyMark(q)
<1> DEFINE q == Quote(to, m.how)
<1>0. SignatureTypes /\ m.to = to /\ m.how \in Hows /\ (to = 0 => m.known /\ ~m.linked)
  BY DraftIs DEF SignatureInv
<1>1. \A k \in Place : q[k] \in Look
  BY <1>0, QuoteIs
<1>2. to = 0 => \A k \in Place : q[k] = "gone"
  BY <1>0, QuoteIs
<1>3. to # 0 => m.html /\ m.known
  <2>1. to # 0 /\ ~(m.html /\ m.known) => "unseen" \in Causes(a, m, q, chain)
    BY <1>0 DEF Causes, Cause
  <2> QED  BY <2>1
<1>4. AnyMark(q) => Marked(q)
  <2>1. AnyMark(q) /\ ~Marked(q) => "bare" \in Causes(a, m, q, chain)
    BY DEF Causes, Cause
  <2> QED  BY <2>1
<1>5. ASSUME InChain(a, m, q) PROVE Seen(thread, q, a) # {}
  <2>1. CASE Knows(a, m)
    <3>1. to # 0 /\ thread[to].from = a
      <4>1. m.linked /\ <<a, to>> \in signed
        BY <2>1, <1>0 DEF Knows
      <4> QED  BY <4>1, <1>0 DEF SignatureInv, SignedOwn
    <3>2. m.how # "cut"
      <4>1. m.how = "cut" => "cut_off" \in Causes(a, m, q, chain)
        BY <2>1 DEF Causes, Cause
      <4> QED  BY <4>1
    <3> HIDE DEF q
    <3>3. q = Quote(to, m.how)
      BY DEF q
    <3> QED  BY <3>1, <3>2, <3>3, <1>0, QuoteShows
  <2>2. CASE Marked(q)
    <3>1. ~Foreign(a, q)
      <4>1. Foreign(a, q) => "colleague" \in Causes(a, m, q, chain)
        BY DEF Causes, Cause
      <4> QED  BY <4>1
    <3> HIDE DEF q
    <3> QED  BY <2>2, <3>1 DEF Marked, Foreign, Seen
  <2>3. CASE Legible(a, q)
    <3> HIDE DEF q
    <3> QED  BY <2>3 DEF Legible, Seen
  <2> QED  BY <1>5, <2>1, <2>2, <2>3 DEF InChain
<1>6. ASSUME ~InChain(a, m, q) PROVE Fulls(thread, q, a) = {} /\ ~AnyMark(q)
  <2>1. CASE to = 0
    <3> HIDE DEF q
    <3> QED  BY <2>1, <1>2 DEF Fulls, Seen, AnyMark
  <2>2. CASE to # 0
    <3>1. ~Marked(q) /\ ~Legible(a, q)
      BY <2>2, <1>3, <1>6 DEF InChain
    <3> HIDE DEF q
    <3> QED  BY <3>1, <1>4 DEF Legible, Fulls, Seen
  <2> QED  BY <2>1, <2>2
<1> QED  BY <1>5, <1>6

LEMMA SignatureStart == SignatureInit => SignatureInv
<1> SUFFICES ASSUME SignatureInit PROVE SignatureInv
  OBVIOUS
<1>1. SignatureTypes
  BY DEF SignatureInit, SignatureTypes
<1>2. Blocked /\ SignedOwn
  BY DEF SignatureInit, Blocked, SignedOwn
<1> QED  BY <1>1, <1>2 DEF SignatureInv

LEMMA SendKeeps ==
  ASSUME SignatureInv, NEW a \in Author, Send(a)
  PROVE  SignatureInv'
<1>0. /\ SignatureTypes /\ Len(thread) \in Nat /\ Len(thread) < MaxThread /\ odd = {}
      /\ UNCHANGED <<reply, skip, last>>
  BY DEF SignatureInv, SignatureTypes, Send
<1>a. PICK to \in 0..Len(thread) : \E m \in Mails(to) :
        LET q == Quote(to, m.how)
            out == Outcome(m, q, InChain(a, m, q))
        IN  /\ odd' = Causes(a, m, q, InChain(a, m, q))
            /\ IF odd' = {}
                  THEN /\ Add(a, out.form, out.look,
                              IF m.html THEN q ELSE [k \in Place |-> Carried("strip", q[k])])
                       /\ Remembers(a, out)
                  ELSE UNCHANGED <<thread, signed>>
  BY DEF Send
<1>1. PICK m \in Mails(to) :
        LET q == Quote(to, m.how)
            out == Outcome(m, q, InChain(a, m, q))
        IN  /\ odd' = Causes(a, m, q, InChain(a, m, q))
            /\ IF odd' = {}
                  THEN /\ Add(a, out.form, out.look,
                              IF m.html THEN q ELSE [k \in Place |-> Carried("strip", q[k])])
                       /\ Remembers(a, out)
                  ELSE UNCHANGED <<thread, signed>>
  BY <1>a
<1> DEFINE q == Quote(to, m.how)
           chain == InChain(a, m, q)
           out == Outcome(m, q, chain)
           carried == IF m.html THEN q ELSE [k \in Place |-> Carried("strip", q[k])]
<1>2. odd' \subseteq Cause /\ odd' = Causes(a, m, q, chain)
  BY <1>1 DEF Causes
<1>3. CASE odd' # {}
  <2>1. UNCHANGED <<thread, signed>>
    BY <1>1, <1>3
  <2>2. SignatureTypes'
    BY <1>0, <1>2, <2>1 DEF SignatureTypes
  <2>3. Blocked'
    BY <2>1 DEF SignatureInv, Blocked
  <2>4. SignedOwn'
    BY <2>1 DEF SignatureInv, SignedOwn
  <2> QED  BY <2>2, <2>3, <2>4 DEF SignatureInv
<1>4. CASE odd' = {}
  <2>0. m.how \in Hows
    BY <1>0, DraftIs
  <2>1. Add(a, out.form, out.look, carried) /\ Remembers(a, out)
    BY <1>1, <1>4
  <2>2. chain \in BOOLEAN
    BY DEF InChain
  <2>3. out \in Blocks
    <3> HIDE DEF q, chain
    <3> QED  BY <1>0, <2>2, OutcomeIn
  <2>4. /\ chain => Seen(thread, q, a) # {} /\ out.form # "full"
        /\ ~chain => Fulls(thread, q, a) = {} /\ out.form = "full" /\ out.look # "gone"
    <3>1. Causes(a, m, q, chain) = {}
      BY <1>2, <1>4
    <3>2. /\ chain => Seen(thread, q, a) # {}
          /\ ~chain => Fulls(thread, q, a) = {} /\ ~AnyMark(q)
      <4> HIDE DEF out
      <4> QED  BY <3>1, ChainShows
    <3> HIDE DEF q, chain
    <3>3. chain => out.form # "full"
      BY <1>0, <2>2, <3>1, OutcomeInChain
    <3>4. ~chain => out.form = "full" /\ out.look # "gone"
      BY <1>0, <2>2, <3>1, <3>2, OutcomeAlone
    <3> QED  BY <3>2, <3>3, <3>4
  <2>5. carried \in [Place -> Look] /\ \A k \in Place : carried[k] # "gone" <=> q[k] # "gone"
    <3>1. q \in [Place -> Look]
      BY <1>0, <2>0, QuoteIs
    <3> HIDE DEF q
    <3>2. \A k \in Place : /\ Carried("strip", q[k]) \in Look
                           /\ Carried("strip", q[k]) # "gone" <=> q[k] # "gone"
      BY <3>1, CarriedIs DEF Hows
    <3> QED  BY <3>1, <3>2
  <2>6. /\ \A k \in Place : carried[k] # "gone" => k \in 1..Len(thread)
        /\ \A b \in Author : Seen(thread, carried, b) # {} =>
                               \E k \in Place : Fulls(thread, carried, b) = {k}
    <3> HIDE DEF carried
    <3> QED  BY <2>0, <2>5, QuoteShows
  <2>7. Seen(thread, carried, a) = Seen(thread, q, a)
    <3> HIDE DEF q, carried
    <3> QED  BY <2>5 DEF Seen
  <2>8. Fulls(thread, carried, a) = Fulls(thread, q, a)
    BY <2>7 DEF Fulls
  <2> HIDE DEF q, chain, out, carried
  <2> DEFINE n == Len(thread)
             e == [from |-> a, form |-> out.form, shows |-> [carried EXCEPT ![n + 1] = out.look]]
  <2>9. /\ thread' = Append(thread, e)
        /\ signed' \subseteq signed \cup {<<a, n + 1>>}
    BY <2>1 DEF Add, Remembers
  <2>10. n + 1 \in Place /\ n \in Nat
    BY <1>0 DEF Place
  <2>11. /\ e \in Letters /\ e.from = a /\ e.form = out.form
         /\ \A k \in Place : e.shows[k] = IF k = n + 1 THEN out.look ELSE carried[k]
    BY <2>3, <2>5, <2>10 DEF Letters, Blocks
  <2> HIDE DEF e
  <2>12. /\ thread'[n + 1] = e
         /\ \A k \in 1..n : thread'[k] = thread[k]
    BY <1>0, <2>9, <2>11, AppendProperties DEF SignatureTypes
  <2>13. \A k \in Place : e.shows[k] # "gone" => k <= n + 1
    BY <2>6, <2>10, <2>11
  <2>14. \A b \in Author : Seen(thread', e.shows, b) =
            Seen(thread, carried, b) \cup (IF b = a /\ out.look # "gone" THEN {n + 1} ELSE {})
    <3> SUFFICES ASSUME NEW b \in Author, NEW k \in Place
          PROVE  e.shows[k] # "gone" /\ thread'[k].from = b <=>
                   \/ carried[k] # "gone" /\ thread[k].from = b
                   \/ k = n + 1 /\ b = a /\ out.look # "gone"
      BY <2>10 DEF Seen
    <3>1. CASE k = n + 1
      <4>1. carried[k] = "gone"
        BY <2>6, <2>10, <3>1
      <4> QED  BY <3>1, <4>1, <2>11, <2>12
    <3>2. CASE k # n + 1 /\ carried[k] # "gone"
      BY <3>2, <2>6, <2>11, <2>12
    <3>3. CASE k # n + 1 /\ carried[k] = "gone"
      BY <3>3, <2>11
    <3> QED  BY <3>1, <3>2, <3>3
  <2>15. \A b \in Author : Fulls(thread', e.shows, b) =
            Fulls(thread, carried, b)
              \cup (IF b = a /\ out.look # "gone" /\ out.form = "full" THEN {n + 1} ELSE {})
    <3> SUFFICES ASSUME NEW b \in Author
          PROVE  Fulls(thread', e.shows, b) =
            Fulls(thread, carried, b)
              \cup (IF b = a /\ out.look # "gone" /\ out.form = "full" THEN {n + 1} ELSE {})
      OBVIOUS
    <3>1. \A k \in Seen(thread, carried, b) : thread'[k] = thread[k]
      BY <2>6, <2>12 DEF Seen
    <3>2. thread'[n + 1].form = out.form
      BY <2>11, <2>12
    <3> QED  BY <2>14, <3>1, <3>2 DEF Fulls
  <2>16. Seen(thread', e.shows, a) # {}
    BY <2>4, <2>7, <2>14
  <2>17. \A b \in Author : Seen(thread', e.shows, b) # {}
                             => \E k \in Place : Fulls(thread', e.shows, b) = {k}
    <3> SUFFICES ASSUME NEW b \in Author, Seen(thread', e.shows, b) # {}
          PROVE  \E k \in Place : Fulls(thread', e.shows, b) = {k}
      OBVIOUS
    <3>1. CASE b # a
      BY <3>1, <2>6, <2>14, <2>15
    <3>2. CASE b = a /\ chain
      BY <3>2, <2>4, <2>6, <2>7, <2>15
    <3>3. CASE b = a /\ ~chain
      BY <3>3, <2>4, <2>8, <2>10, <2>15
    <3> QED  BY <3>1, <3>2, <3>3
  <2>18. /\ thread' \in Seq(Letters) /\ Len(thread') <= MaxThread
         /\ signed' \subseteq Author \X Place
         /\ Blocked' /\ SignedOwn'
    BY <1>0, <2>9, <2>11, <2>13, <2>16, <2>17, AddKeeps
  <2>19. SignatureTypes'
    BY <1>0, <1>2, <2>18 DEF SignatureTypes
  <2> QED  BY <2>18, <2>19 DEF SignatureInv
<1> QED  BY <1>3, <1>4

LEMMA ReceiveKeeps ==
  ASSUME SignatureInv, NEW o \in Outsider, Receive(o)
  PROVE  SignatureInv'
<1>0. /\ SignatureTypes /\ Len(thread) \in Nat /\ Len(thread) < MaxThread
      /\ UNCHANGED <<reply, skip, last, signed, odd>>
  BY DEF SignatureInv, SignatureTypes, Receive
<1>1. PICK j \in 0..Len(thread), how \in Hows : Add(o, "none", "gone", Quote(j, how))
  BY DEF Receive, Hows
<1> DEFINE q == Quote(j, how)
           n == Len(thread)
           e == [from |-> o, form |-> "none", shows |-> [q EXCEPT ![n + 1] = "gone"]]
<1>2. q \in [Place -> Look]
  BY <1>0, QuoteIs
<1>3. /\ \A k \in Place : q[k] # "gone" => k \in 1..Len(thread)
      /\ \A b \in Author : Seen(thread, q, b) # {} => \E k \in Place : Fulls(thread, q, b) = {k}
  <2> HIDE DEF q
  <2>1. \A k \in Place : q[k] # "gone" <=> Quote(j, how)[k] # "gone"
    BY DEF q
  <2> QED  BY <2>1, QuoteShows
<1>4. thread' = Append(thread, e)
  BY <1>1 DEF Add
<1> HIDE DEF q
<1>5. n + 1 \in Place /\ n \in Nat
  BY <1>0 DEF Place
<1>6. /\ e \in Letters /\ e.from = o
      /\ \A k \in Place : e.shows[k] = q[k]
  BY <1>2, <1>3, <1>5 DEF Letters, Form, Look
<1> HIDE DEF e
<1>7. \A k \in 1..n : thread'[k] = thread[k]
  BY <1>0, <1>4, <1>6, AppendProperties DEF SignatureTypes
<1>8. \A b \in Author : Seen(thread', e.shows, b) = Seen(thread, q, b)
  BY <1>3, <1>6, <1>7 DEF Seen
<1>9. \A b \in Author : Fulls(thread', e.shows, b) = Fulls(thread, q, b)
  <2> SUFFICES ASSUME NEW b \in Author PROVE Fulls(thread', e.shows, b) = Fulls(thread, q, b)
    OBVIOUS
  <2>1. \A k \in Seen(thread, q, b) : thread'[k] = thread[k]
    BY <1>3, <1>7 DEF Seen
  <2> QED  BY <1>8, <2>1 DEF Fulls
<1>10. \A k \in Place : e.shows[k] # "gone" => k <= n + 1
  BY <1>3, <1>5, <1>6
<1>11. e.from \notin Author
  BY <1>6
<1>12. \A b \in Author : Seen(thread', e.shows, b) # {}
                           => \E k \in Place : Fulls(thread', e.shows, b) = {k}
  BY <1>3, <1>8, <1>9
<1>13. /\ thread' \in Seq(Letters) /\ Len(thread') <= MaxThread
       /\ signed' \subseteq Author \X Place
       /\ Blocked' /\ SignedOwn'
  BY <1>0, <1>4, <1>6, <1>10, <1>11, <1>12, AddKeeps
<1>14. SignatureTypes'
  BY <1>0, <1>13 DEF SignatureTypes
<1> QED  BY <1>13, <1>14 DEF SignatureInv

LEMMA SignatureStep == SignatureInv /\ [SignatureNext]_signatureVars => SignatureInv'
<1> SUFFICES ASSUME SignatureInv, [SignatureNext]_signatureVars PROVE SignatureInv'
  OBVIOUS
<1>1. ASSUME NEW a \in Author, Send(a) PROVE SignatureInv'
  BY <1>1, SendKeeps
<1>2. ASSUME NEW o \in Outsider, Receive(o) PROVE SignatureInv'
  BY <1>2, ReceiveKeeps
<1>3. CASE Forget
  <2>1. SignatureTypes'
    BY <1>3 DEF Forget, SignatureInv, SignatureTypes
  <2>2. Blocked'
    BY <1>3 DEF Forget, SignatureInv, Blocked
  <2>3. SignedOwn'
    BY <1>3 DEF Forget, SignedOwn
  <2> QED  BY <2>1, <2>2, <2>3 DEF SignatureInv
<1>4. CASE UNCHANGED signatureVars
  <2>1. SignatureTypes'
    BY <1>4 DEF signatureVars, SignatureInv, SignatureTypes
  <2>2. Blocked'
    BY <1>4 DEF signatureVars, SignatureInv, Blocked
  <2>3. SignedOwn'
    BY <1>4 DEF signatureVars, SignatureInv, SignedOwn
  <2> QED  BY <2>1, <2>2, <2>3 DEF SignatureInv
<1> QED  BY <1>1, <1>2, <1>3, <1>4 DEF SignatureNext

LEMMA SignatureCorrect ==
  SignatureInit /\ [][SignatureNext]_signatureVars => []SignatureInv
BY SignatureStart, SignatureStep, PTL

LEMMA SignatureFromInv ==
  ASSUME SignatureInv
  PROVE  SignatureTypeOK /\ OneFullBlock
<1>1. SignatureTypeOK
  <2>1. \A i \in 1..Len(thread) : thread[i] \in Letters
    BY DEF SignatureInv, SignatureTypes
  <2> QED  BY <2>1 DEF SignatureInv, SignatureTypes, SignatureTypeOK, Letters
<1>2. ASSUME NEW i \in 1..Len(thread), thread[i].from \in Author
      PROVE  \E k \in Place : FullBlocks(i) = {k}
  <2>1. PICK k \in Place : Fulls(thread, thread[i].shows, thread[i].from) = {k}
    BY <1>2 DEF SignatureInv, Blocked, Shown
  <2>2. FullBlocks(i) = Fulls(thread, thread[i].shows, thread[i].from)
    BY DEF FullBlocks, Fulls, Seen
  <2> QED  BY <2>1, <2>2
<1> QED  BY <1>1, <1>2 DEF OneFullBlock

HIDE SignatureAssumption

-----------------------------------------------------------------------------
(* Admins                                                                  *)

USE AdminAssumption

Lists == {l \in Seq(Entry) : Len(l) <= MaxListed}
Change ==
  {c \in [kind : {"add"}, list : Lists, new : Entry] : Len(c.list) < MaxListed}
    \cup [kind : {"refresh", "save"}, list : Lists]

AdminTypes ==
  /\ users \in Lists /\ page \in Lists
  /\ nameOf \in [Person -> Upn]
  /\ session \in [Person -> [upn : Upn, role : Role \cup {"none"}]]
  /\ asking \subseteq Change

AdminNumbers ==
  listChanges \in 0..MaxListChange /\ renames \in 0..MaxRename /\ demoted \in BOOLEAN

(* Every list that may still be written has an administrator in it.        *)
ListsHaveAdmin ==
  demoted \/ /\ HasAdmin(users)
             /\ page = <<>> \/ HasAdmin(page)
             /\ \A c \in asking : HasAdmin(c.list)

AdminInv == AdminTypes /\ AdminNumbers /\ ListsHaveAdmin

(* What the recursion in WithoutName stands for, up to the n-th entry.     *)
Filtering(list, u, n, f) ==
  f = [i \in 0..n |-> IF i = 0 THEN <<>>
          ELSE IF list[i].upn = u THEN f[i - 1] ELSE Append(f[i - 1], list[i])]

(* There is a function that the recursion defines: otherwise there is a    *)
(* least n up to which there is none, and the one up to n - 1 goes on.     *)
LEMMA FilteringExists ==
  ASSUME NEW list \in Seq(Entry), NEW u
  PROVE  \E f : Filtering(list, u, Len(list), f)
<1> DEFINE S == {n \in 0..Len(list) : ~ \E f : Filtering(list, u, n, f)}
<1>0. Len(list) \in Nat
  OBVIOUS
<1> SUFFICES S = {}
  <2>1. Len(list) \in 0..Len(list)
    BY <1>0
  <2> QED  BY <2>1
<1> SUFFICES ASSUME S # {} PROVE FALSE
  OBVIOUS
<1>1. PICK n \in S : \A m \in S : ~(m < n)
  <2>1. S \in SUBSET Nat
    BY <1>0
  <2> HIDE DEF S
  <2> QED  BY <2>1, Least
<1>2. n # 0
  <2> DEFINE f0 == [i \in 0..0 |-> <<>>]
  <2>1. Filtering(list, u, 0, f0)
    BY DEF Filtering
  <2> QED  BY <2>1
<1>3. n - 1 \in 0..Len(list) /\ n - 1 < n /\ n \in 1..Len(list)
  BY <1>2, <1>0
<1>4. PICK f : Filtering(list, u, n - 1, f)
  BY <1>1, <1>3
<1> DEFINE g == [i \in 0..n |-> IF i = n THEN IF list[n].upn = u THEN f[n - 1] ELSE Append(f[n - 1], list[n])
                                ELSE f[i]]
<1>5. Filtering(list, u, n, g)
  <2>1. f = [i \in 0..n-1 |-> IF i = 0 THEN <<>>
          ELSE IF list[i].upn = u THEN f[i - 1] ELSE Append(f[i - 1], list[i])]
    BY <1>4 DEF Filtering
  <2>2. ASSUME NEW i \in 0..n
        PROVE  g[i] = IF i = 0 THEN <<>>
          ELSE IF list[i].upn = u THEN g[i - 1] ELSE Append(g[i - 1], list[i])
    <3>1. CASE i = n
      <4>1. g[i - 1] = f[n - 1]
        BY <3>1, <1>3
      <4> QED  BY <3>1, <4>1, <1>3
    <3>2. CASE i # n /\ i # 0
      <4>1. i \in 0..n-1 /\ i - 1 \in 0..n-1 /\ i - 1 \in 0..n /\ i - 1 # n
        BY <3>2, <1>3
      <4>2. g[i] = f[i] /\ g[i-1] = f[i-1]
        BY <3>2, <4>1
      <4>3. f[i] = IF list[i].upn = u THEN f[i - 1] ELSE Append(f[i - 1], list[i])
        BY <2>1, <4>1, <3>2
      <4> QED  BY <4>2, <4>3, <3>2
    <3>3. CASE i # n /\ i = 0
      BY <3>3, <2>1, <1>3
    <3> QED  BY <3>1, <3>2, <3>3
  <2> DEFINE h == [i \in 0..n |-> IF i = 0 THEN <<>>
          ELSE IF list[i].upn = u THEN g[i - 1] ELSE Append(g[i - 1], list[i])]
  <2>3. g = h
    <3>1. \A i \in 0..n : g[i] = h[i]
      BY <2>2
    <3>2. DOMAIN g = 0..n /\ DOMAIN h = 0..n
      OBVIOUS
    <3>3. g = [i \in 0..n |-> g[i]] /\ h = [i \in 0..n |-> h[i]]
      OBVIOUS
    <3> HIDE DEF g, h
    <3> QED  BY <3>1, <3>3
  <2> QED  BY <2>3 DEF Filtering
<1> QED  BY <1>5, <1>1

LEMMA WithoutNameIs ==
  ASSUME NEW list \in Seq(Entry), NEW u
  PROVE  \E f : Filtering(list, u, Len(list), f) /\ WithoutName(list, u) = f[Len(list)]
<1> DEFINE f == CHOOSE f : f = [i \in 0..Len(list) |-> IF i = 0 THEN <<>>
          ELSE IF list[i].upn = u THEN f[i - 1] ELSE Append(f[i - 1], list[i])]
<1>1. WithoutName(list, u) = f[Len(list)]
  BY DEF WithoutName
<1>2. Filtering(list, u, Len(list), f)
  <2>1. \E h : h = [i \in 0..Len(list) |-> IF i = 0 THEN <<>>
          ELSE IF list[i].upn = u THEN h[i - 1] ELSE Append(h[i - 1], list[i])]
    <3>1. PICK h : Filtering(list, u, Len(list), h)
      BY FilteringExists
    <3>2. h = [i \in 0..Len(list) |-> IF i = 0 THEN <<>>
          ELSE IF list[i].upn = u THEN h[i - 1] ELSE Append(h[i - 1], list[i])]
      BY <3>1 DEF Filtering
    <3> QED  BY <3>2, Zenon
  <2>2. f = [i \in 0..Len(list) |-> IF i = 0 THEN <<>>
          ELSE IF list[i].upn = u THEN f[i - 1] ELSE Append(f[i - 1], list[i])]
    BY <2>1, Zenon
  <2> QED  BY <2>2 DEF Filtering
<1> QED  BY <1>1, <1>2

(* Without a name the list is a list, and no longer than before.           *)
LEMMA WithoutNameType ==
  ASSUME NEW list \in Lists, NEW u
  PROVE  WithoutName(list, u) \in Lists
<1>0. list \in Seq(Entry) /\ Len(list) \in Nat /\ Len(list) <= MaxListed
  BY DEF Lists
<1>1. PICK f : Filtering(list, u, Len(list), f) /\ WithoutName(list, u) = f[Len(list)]
  BY <1>0, WithoutNameIs
<1>2. /\ 0 \in 0..Len(list) => f[0] = <<>>
      /\ \A i \in 0..Len(list) : i # 0 => f[i] = f[i - 1] \/ f[i] = Append(f[i - 1], list[i])
  <2>1. f = [i \in 0..Len(list) |-> IF i = 0 THEN <<>>
          ELSE IF list[i].upn = u THEN f[i - 1] ELSE Append(f[i - 1], list[i])]
    BY <1>1 DEF Filtering
  <2> QED  BY <2>1
<1> DEFINE S == {n \in 0..Len(list) : ~(f[n] \in Seq(Entry) /\ Len(f[n]) <= n)}
<1>3. S = {}
  <2> SUFFICES ASSUME S # {} PROVE FALSE
    OBVIOUS
  <2>1. S \in SUBSET Nat
    BY <1>0
  <2>2. PICK n \in S : \A m \in S : ~(m < n)
    <3> HIDE DEF S
    <3> QED  BY <2>1, Least
  <2>3. n # 0
    <3>1. <<>> \in Seq(Entry) /\ Len(<<>>) = 0
      OBVIOUS
    <3>2. f[0] = <<>>
      <4>1. 0 \in 0..Len(list)
        BY <1>0
      <4> QED  BY <4>1, <1>2
    <3>3. f[0] \in Seq(Entry) /\ Len(f[0]) <= 0
      BY <3>1, <3>2
    <3> QED  BY <2>2, <3>3
  <2>4. n - 1 \in 0..Len(list) /\ n - 1 < n /\ n \in 1..Len(list) /\ list[n] \in Entry
    BY <2>3, <1>0
  <2>5. f[n - 1] \in Seq(Entry) /\ Len(f[n - 1]) <= n - 1
    BY <2>2, <2>4
  <2>6. f[n] = f[n - 1] \/ f[n] = Append(f[n - 1], list[n])
    BY <1>2, <2>4
  <2>7. Append(f[n - 1], list[n]) \in Seq(Entry) /\ Len(Append(f[n - 1], list[n])) = Len(f[n - 1]) + 1
    BY <2>4, <2>5, AppendProperties
  <2>8. f[n] \in Seq(Entry) /\ Len(f[n]) <= n
    <3>1. Len(f[n - 1]) \in Nat /\ n \in Nat
      BY <2>4, <2>5
    <3>2. CASE f[n] = f[n - 1]
      BY <3>1, <3>2, <2>5
    <3>3. CASE f[n] = Append(f[n - 1], list[n])
      BY <3>1, <3>3, <2>5, <2>7
    <3> QED  BY <2>6, <3>2, <3>3
  <2> QED  BY <2>2, <2>8
<1>4. f[Len(list)] \in Seq(Entry) /\ Len(f[Len(list)]) <= Len(list)
  BY <1>0, <1>3
<1> QED  BY <1>0, <1>1, <1>4 DEF Lists

LEMMA EntryOf ==
  ASSUME NEW list \in Lists, NEW i \in 1..Len(list)
  PROVE  /\ list[i] \in Entry /\ list[i].role \in Role
         /\ \A r \in Role : [list[i] EXCEPT !.role = r] \in Entry
         /\ \A u \in Upn : /\ [list[i] EXCEPT !.upn = u] \in Entry
                          /\ [list[i] EXCEPT !.upn = u].role = list[i].role
         /\ \A p \in Person \cup {NoPerson} : /\ [list[i] EXCEPT !.id = p] \in Entry
                                             /\ [list[i] EXCEPT !.id = p].role = list[i].role
<1>1. list[i] \in Entry
  BY DEF Lists
<1> QED  BY <1>1 DEF Entry

(* One entry replaced: with its role, an administrator stays.              *)
LEMMA ReplacedIn ==
  ASSUME NEW list \in Lists, NEW i \in 1..Len(list), NEW e \in Entry
  PROVE  /\ [list EXCEPT ![i] = e] \in Lists
         /\ Len([list EXCEPT ![i] = e]) = Len(list)
         /\ e.role = list[i].role /\ HasAdmin(list) => HasAdmin([list EXCEPT ![i] = e])
<1> DEFINE new == [list EXCEPT ![i] = e]
<1>0. list \in Seq(Entry) /\ Len(list) <= MaxListed
  BY DEF Lists
<1>1. new \in Seq(Entry) /\ Len(new) = Len(list)
      /\ \A j \in 1..Len(list) : new[j] = IF j = i THEN e ELSE list[j]
  BY <1>0, ExceptSeq
<1> HIDE DEF new
<1>2. new \in Lists
  BY <1>0, <1>1 DEF Lists
<1>3. e.role = list[i].role /\ HasAdmin(list) => HasAdmin(new)
  BY <1>1 DEF HasAdmin
<1> QED  BY <1>1, <1>2, <1>3 DEF new

(* The first of a set of places in a list.                                 *)
LEMMA FirstOf ==
  ASSUME NEW list \in Lists, NEW S \in SUBSET (1..Len(list)), S # {}
  PROVE  First(S) \in S
<1>0. Len(list) \in Nat
  BY DEF Lists
<1>1. S \in SUBSET Nat
  BY <1>0
<1>2. PICK i \in S : \A j \in S : ~(j < i)
  BY <1>1, Least
<1>3. \A j \in S : i <= j
  BY <1>1, <1>2
<1> QED  BY <1>3, Zenon DEF First

(* A sign-in changes a name or an id, never a role.                        *)
LEMMA PatchKeeps ==
  ASSUME NEW list \in Lists, NEW p \in Person, nameOf \in [Person -> Upn]
  PROVE  /\ AutoPatch(list, p) \in Lists
         /\ HasAdmin(list) => HasAdmin(AutoPatch(list, p))
<1> DEFINE named == {i \in ByName(list, nameOf[p]) : list[i].id = NoPerson}
<1>0. \A i \in 1..Len(list) : list[i] \in Entry
  BY DEF Lists
<1>1. CASE ById(list, p) # {}
  <2>1. First(ById(list, p)) \in ById(list, p) /\ ById(list, p) \subseteq 1..Len(list)
    BY <1>1, FirstOf DEF ById
  <2> DEFINE i == First(ById(list, p))
  <2>2. i \in 1..Len(list)
    BY <2>1
  <2>3. AutoPatch(list, p) = [list EXCEPT ![i] = [list[i] EXCEPT !.upn = nameOf[p]]]
    BY <1>1 DEF AutoPatch
  <2> HIDE DEF i
  <2> DEFINE e == [list[i] EXCEPT !.upn = nameOf[p]]
  <2>4. e \in Entry /\ e.role = list[i].role
    BY <2>2, EntryOf
  <2> HIDE DEF e
  <2>5. /\ [list EXCEPT ![i] = e] \in Lists
        /\ HasAdmin(list) => HasAdmin([list EXCEPT ![i] = e])
    BY <2>2, <2>4, ReplacedIn
  <2> QED  BY <2>3, <2>5 DEF e
<1>2. CASE ById(list, p) = {} /\ named # {}
  <2>1. First(named) \in named /\ named \subseteq 1..Len(list)
    BY <1>2, FirstOf DEF ByName
  <2> DEFINE i == First(named)
  <2>2. i \in 1..Len(list)
    BY <2>1
  <2>3. AutoPatch(list, p) = [list EXCEPT ![i] = [list[i] EXCEPT !.id = p]]
    BY <1>2 DEF AutoPatch
  <2> HIDE DEF i
  <2> DEFINE e == [list[i] EXCEPT !.id = p]
  <2>4. e \in Entry /\ e.role = list[i].role
    BY <2>2, EntryOf
  <2> HIDE DEF e
  <2>5. /\ [list EXCEPT ![i] = e] \in Lists
        /\ HasAdmin(list) => HasAdmin([list EXCEPT ![i] = e])
    BY <2>2, <2>4, ReplacedIn
  <2> QED  BY <2>3, <2>5 DEF e
<1>3. CASE ById(list, p) = {} /\ named = {}
  BY <1>3 DEF AutoPatch
<1> QED  BY <1>1, <1>2, <1>3

(* A list of the same length with the same roles.                          *)
LEMMA SameRoles ==
  ASSUME NEW list \in Lists, NEW new, new = [i \in 1..Len(list) |-> new[i]],
         \A i \in 1..Len(list) : new[i] \in Entry /\ new[i].role = list[i].role
  PROVE  /\ new \in Lists
         /\ HasAdmin(list) => HasAdmin(new)
<1>0. Len(list) \in Nat /\ Len(list) <= MaxListed
  BY DEF Lists
<1>1. new \in [1..Len(list) -> Entry]
  OBVIOUS
<1>2. new \in Seq(Entry) /\ Len(new) = Len(list)
  BY <1>0, <1>1, SeqDef, LenProperties
<1> QED  BY <1>0, <1>2 DEF Lists, HasAdmin

LEMMA AdminStep == AdminInv /\ [AdminNext]_adminVars => AdminInv'
<1> SUFFICES ASSUME AdminInv, [AdminNext]_adminVars PROVE AdminInv'
  OBVIOUS
<1>a. AdminTypes /\ AdminNumbers /\ ListsHaveAdmin
  BY DEF AdminInv
<1>1. ASSUME NEW p \in Person, SignIn(p)
      PROVE  AdminInv'
  <2>0. /\ users' \in Lists /\ (HasAdmin(users) => HasAdmin(users'))
        /\ \E r \in Role \cup {"none"} : session' = [session EXCEPT ![p] = [upn |-> nameOf[p], role |-> r]]
    <3>1. RoleIn(users, p) \in Role \cup {"none"}
      <4>1. \A i \in 1..Len(users) : users[i].role \in Role
        BY <1>a, EntryOf DEF AdminTypes
      <4>2. ById(users, p) # {} => First(ById(users, p)) \in 1..Len(users)
        <5>1. ById(users, p) \in SUBSET (1..Len(users))
          BY DEF ById
        <5> QED  BY <5>1, <1>a, FirstOf DEF AdminTypes
      <4>3. ByName(users, nameOf[p]) # {} => First(ByName(users, nameOf[p])) \in 1..Len(users)
        <5>1. ByName(users, nameOf[p]) \in SUBSET (1..Len(users))
          BY DEF ByName
        <5> QED  BY <5>1, <1>a, FirstOf DEF AdminTypes
      <4> QED  BY <4>1, <4>2, <4>3 DEF RoleIn
    <3>2. AutoPatch(users, p) \in Lists /\ (HasAdmin(users) => HasAdmin(AutoPatch(users, p)))
      BY <1>a, PatchKeeps DEF AdminTypes
    <3>3. \/ users' = AutoPatch(users, p)
             /\ session' = [session EXCEPT ![p] = [upn |-> nameOf[p], role |-> RoleIn(users, p)]]
          \/ users' = users /\ session' = [session EXCEPT ![p] = [upn |-> nameOf[p], role |-> "self"]]
      BY <1>1 DEF SignIn
    <3> QED  BY <3>1, <3>2, <3>3, <1>a DEF AdminTypes, Role
  <2>k. UNCHANGED <<nameOf, page, asking, listChanges, renames, demoted>>
    BY <1>1 DEF SignIn
  <2>1. AdminTypes'
    <3>1. PICK r \in Role \cup {"none"} : session' = [session EXCEPT ![p] = [upn |-> nameOf[p], role |-> r]]
      BY <2>0
    <3>2. [upn |-> nameOf[p], role |-> r] \in [upn : Upn, role : Role \cup {"none"}]
      BY <1>a DEF AdminTypes
    <3> QED  BY <2>0, <2>k, <3>1, <3>2, <1>a DEF AdminTypes
  <2>2. AdminNumbers'
    BY <2>k, <1>a DEF AdminNumbers
  <2>3. ListsHaveAdmin'
    BY <2>0, <2>k, <1>a DEF ListsHaveAdmin
  <2> QED  BY <2>1, <2>2, <2>3 DEF AdminInv
<1>2. ASSUME NEW p \in Person, SessionEnds(p)
      PROVE  AdminInv'
  <2>1. AdminTypes'
    <3>1. NoSession \in [upn : Upn, role : Role \cup {"none"}]
      <4>1. (CHOOSE u \in Upn : TRUE) \in Upn
        BY <1>a DEF AdminTypes
      <4> QED  BY <4>1 DEF NoSession
    <3> QED  BY <3>1, <1>2, <1>a DEF SessionEnds, AdminTypes
  <2>2. AdminNumbers'
    BY <1>2, <1>a DEF SessionEnds, AdminNumbers
  <2>3. ListsHaveAdmin'
    BY <1>2, <1>a DEF SessionEnds, ListsHaveAdmin
  <2> QED  BY <2>1, <2>2, <2>3 DEF AdminInv
<1>3. ASSUME NEW p \in Person, NEW u \in Upn, Rename(p, u)
      PROVE  AdminInv'
  <2>1. AdminTypes'
    BY <1>3, <1>a DEF Rename, AdminTypes
  <2>2. AdminNumbers'
    BY <1>3, <1>a DEF Rename, AdminNumbers
  <2>3. ListsHaveAdmin'
    BY <1>3, <1>a DEF Rename, ListsHaveAdmin
  <2> QED  BY <2>1, <2>2, <2>3 DEF AdminInv
<1>4. CASE LoadPage
  <2>k. /\ asking' = asking \cup {[kind |-> "refresh", list |-> users]}
        /\ UNCHANGED <<users, nameOf, session, page, demoted>>
    BY <1>4 DEF LoadPage
  <2>1. AdminTypes'
    <3>1. [kind |-> "refresh", list |-> users] \in Change
      BY <1>a DEF AdminTypes, Change
    <3> QED  BY <2>k, <3>1, <1>a DEF AdminTypes
  <2>2. AdminNumbers'
    BY <1>4, <1>a DEF LoadPage, Begins, AdminNumbers
  <2>3. ListsHaveAdmin'
    BY <2>k, <1>a DEF ListsHaveAdmin
  <2> QED  BY <2>1, <2>2, <2>3 DEF AdminInv
<1>5. CASE SavePage
  <2>s. PICK list \in Edited : HasAdmin(list) /\ asking' = asking \cup {[kind |-> "save", list |-> list]}
    BY <1>5 DEF SavePage
  <2>k. UNCHANGED <<users, nameOf, session, page, demoted>>
    BY <1>5 DEF SavePage
  <2>p. page \in Seq(Entry) /\ Len(page) <= MaxListed /\ Len(page) \in Nat
    BY <1>a DEF AdminTypes, Lists
  <2>l. list \in Lists
    <3>1. CASE list = page
      BY <3>1, <1>a DEF AdminTypes
    <3>2. ASSUME NEW i \in 1..Len(page), list = RemoveAt(page, i) PROVE list \in Lists
      <4>1. SubSeq(page, 1, i - 1) \in Seq(Entry) /\ Len(SubSeq(page, 1, i - 1)) = i - 1
        <5>1. \A k \in 1..i-1 : page[k] \in Entry
          BY <2>p
        <5> QED  BY <5>1, <2>p, SubSeqProperties
      <4>2. SubSeq(page, i + 1, Len(page)) \in Seq(Entry) /\ Len(SubSeq(page, i + 1, Len(page))) = Len(page) - i
        <5>1. \A k \in i+1..Len(page) : page[k] \in Entry
          BY <2>p
        <5> QED  BY <5>1, <2>p, SubSeqProperties
      <4>3. RemoveAt(page, i) \in Seq(Entry) /\ Len(RemoveAt(page, i)) = (i - 1) + (Len(page) - i)
        <5> DEFINE s1 == SubSeq(page, 1, i - 1)
                   s2 == SubSeq(page, i + 1, Len(page))
        <5>1. RemoveAt(page, i) = s1 \o s2
          BY DEF RemoveAt
        <5> HIDE DEF s1, s2
        <5>2. s1 \in Seq(Entry) /\ s2 \in Seq(Entry)
          BY <4>1, <4>2 DEF s1, s2
        <5>3. s1 \o s2 \in Seq(Entry) /\ Len(s1 \o s2) = Len(s1) + Len(s2)
          BY <5>2, ConcatProperties
        <5> QED  BY <5>1, <5>3, <4>1, <4>2 DEF s1, s2
      <4> QED  BY <3>2, <4>3, <2>p DEF Lists
    <3>3. ASSUME NEW i \in 1..Len(page), NEW r \in Role, list = [page EXCEPT ![i].role = r] PROVE list \in Lists
      <4>1. [page[i] EXCEPT !.role = r] \in Entry
        BY <1>a, EntryOf DEF AdminTypes
      <4>2. page \in Lists
        BY <1>a DEF AdminTypes
      <4> QED  BY <3>3, <4>1, <4>2, ReplacedIn
    <3> QED  BY <3>1, <3>2, <3>3 DEF Edited
  <2>1. AdminTypes'
    <3>1. [kind |-> "save", list |-> list] \in Change
      BY <2>l DEF Change
    <3> QED  BY <2>k, <2>s, <3>1, <1>a DEF AdminTypes
  <2>2. AdminNumbers'
    BY <1>5, <1>a DEF SavePage, Begins, AdminNumbers
  <2>3. ListsHaveAdmin'
    BY <2>k, <2>s, <1>a DEF ListsHaveAdmin
  <2> QED  BY <2>1, <2>2, <2>3 DEF AdminInv
<1>6. ASSUME NEW by \in Acting, NEW u \in Upn, RemoveUser(by, u)
      PROVE  AdminInv'
  <2>1. AdminTypes'
    BY <1>6, <1>a, WithoutNameType DEF RemoveUser, Begins, AdminTypes
  <2>2. AdminNumbers'
    BY <1>6, <1>a, WithoutNameType DEF RemoveUser, Begins, AdminNumbers
  <2>3. ListsHaveAdmin'
    BY <1>6, <1>a, WithoutNameType DEF RemoveUser, Begins, ListsHaveAdmin
  <2> QED  BY <2>1, <2>2, <2>3 DEF AdminInv
<1>7. ASSUME NEW by \in Acting, NEW u \in Upn, NEW r \in Role, AddUser(by, u, r)
      PROVE  AdminInv'
  <2>k. /\ asking' = asking \cup {[kind |-> "add", list |-> users, new |-> [upn |-> u, role |-> r, id |-> NoPerson]]}
        /\ Len(users) < MaxListed
        /\ UNCHANGED <<users, nameOf, session, page, demoted>>
    BY <1>7 DEF AddUser
  <2>1. AdminTypes'
    <3>0. [upn |-> u, role |-> r, id |-> NoPerson] \in Entry
      BY DEF Entry
    <3>1. [kind |-> "add", list |-> users, new |-> [upn |-> u, role |-> r, id |-> NoPerson]] \in Change
      BY <3>0, <2>k, <1>a DEF AdminTypes, Change
    <3> QED  BY <2>k, <3>1, <1>a DEF AdminTypes
  <2>2. AdminNumbers'
    BY <1>7, <1>a DEF AddUser, Begins, AdminNumbers
  <2>3. ListsHaveAdmin'
    BY <2>k, <1>a DEF ListsHaveAdmin
  <2> QED  BY <2>1, <2>2, <2>3 DEF AdminInv
<1>8. ASSUME NEW by \in Acting, NEW u \in Upn, NEW r \in Role, ChangeRole(by, u, r)
      PROVE  AdminInv'
  <2>k. /\ users' = [users EXCEPT ![First(ByName(users, u))].role = r] /\ u \in Names(users)
        /\ demoted' = (demoted \/ ~HasAdmin(users'))
        /\ UNCHANGED <<nameOf, session, page, asking>>
    BY <1>8 DEF ChangeRole
  <2>l. users' \in Lists
    <3>1. ByName(users, u) # {} /\ ByName(users, u) \subseteq 1..Len(users)
      BY <2>k DEF Names, ByName
    <3>2. First(ByName(users, u)) \in 1..Len(users)
      BY <3>1, <1>a, FirstOf DEF AdminTypes
    <3> DEFINE i == First(ByName(users, u))
    <3>3. [users[i] EXCEPT !.role = r] \in Entry
      BY <3>2, <1>a, EntryOf DEF AdminTypes
    <3>4. users' = [users EXCEPT ![i] = [users[i] EXCEPT !.role = r]]
      BY <2>k
    <3> HIDE DEF i
    <3>5. users \in Lists /\ i \in 1..Len(users)
      BY <3>2, <1>a DEF i, AdminTypes
    <3> QED  BY <3>3, <3>4, <3>5, ReplacedIn
  <2>1. AdminTypes'
    BY <2>k, <2>l, <1>a DEF AdminTypes
  <2>2. AdminNumbers'
    <3>1. demoted' \in BOOLEAN
      BY <2>k, <1>a DEF AdminNumbers
    <3>2. listChanges' \in 0..MaxListChange /\ renames' = renames
      BY <1>8, <1>a DEF ChangeRole, Begins, AdminNumbers
    <3> QED  BY <3>1, <3>2, <1>a DEF AdminNumbers
  <2>3. ListsHaveAdmin'
    <3> SUFFICES ASSUME ~demoted' PROVE HasAdmin(users') /\ (page = <<>> \/ HasAdmin(page)) /\ \A c \in asking : HasAdmin(c.list)
      BY <2>k DEF ListsHaveAdmin
    <3> QED  BY <2>k, <1>a DEF ListsHaveAdmin
  <2> QED  BY <2>1, <2>2, <2>3 DEF AdminInv
<1>9. ASSUME NEW c \in asking, AddAnswered(c)
      PROVE  AdminInv'
  <2>c. c \in Change /\ c.kind = "add"
    BY <1>9, <1>a DEF AddAnswered, AdminTypes
  <2>d. c.list \in Seq(Entry) /\ Len(c.list) < MaxListed /\ c.new \in Entry
    BY <2>c DEF Change, Lists
  <2>e. PICK id \in Resolutions(c.new.upn) : users' = Append(c.list, [c.new EXCEPT !.id = id])
    BY <1>9 DEF AddAnswered
  <2>f. [c.new EXCEPT !.id = id] \in Entry
    BY <2>d DEF Resolutions, Entry
  <2>g. /\ users' \in Seq(Entry) /\ Len(users') = Len(c.list) + 1
        /\ \A i \in 1..Len(c.list) : users'[i] = c.list[i]
    BY <2>d, <2>e, <2>f, AppendProperties
  <2>h. users' \in Lists /\ (HasAdmin(c.list) => HasAdmin(users'))
    BY <2>d, <2>g DEF Lists, HasAdmin
  <2>k. asking' \subseteq asking /\ UNCHANGED <<nameOf, session, page, demoted>>
    BY <1>9 DEF AddAnswered
  <2>1. AdminTypes'
    BY <2>h, <2>k, <1>a DEF AdminTypes
  <2>2. AdminNumbers'
    BY <1>9, <1>a DEF AddAnswered, AdminNumbers
  <2>3. ListsHaveAdmin'
    BY <2>h, <2>k, <1>a DEF ListsHaveAdmin
  <2> QED  BY <2>1, <2>2, <2>3 DEF AdminInv
<1>10. ASSUME NEW c \in asking, PageLoaded(c)
      PROVE  AdminInv'
  <2>c. c \in Change /\ c.kind = "refresh"
    BY <1>10, <1>a DEF PageLoaded, AdminTypes
  <2>d. c.list \in Lists
    BY <2>c DEF Change
  <2>e. PICK list \in Refreshed(c.list) : page' = list /\ users' = (IF list # c.list THEN list ELSE users)
    BY <1>10 DEF PageLoaded
  <2>f. list \in Lists /\ (HasAdmin(c.list) => HasAdmin(list))
    <3>1. PICK told \in SUBSET (1..Len(c.list)) :
            list = [i \in 1..Len(c.list) |->
                      IF i \in told /\ c.list[i].id # NoPerson
                         THEN [c.list[i] EXCEPT !.upn = nameOf[c.list[i].id]] ELSE c.list[i]]
      BY <2>e DEF Refreshed
    <3>2. \A i \in 1..Len(c.list) : list[i] \in Entry /\ list[i].role = c.list[i].role
      <4>1. nameOf \in [Person -> Upn]
        BY <1>a DEF AdminTypes
      <4>2. \A i \in 1..Len(c.list) : c.list[i].id # NoPerson => nameOf[c.list[i].id] \in Upn
        BY <2>d, <4>1, EntryOf DEF Entry
      <4> QED  BY <2>d, <3>1, <4>2, EntryOf
    <3>3. list = [i \in 1..Len(c.list) |-> list[i]]
      BY <3>1
    <3> QED  BY <2>d, <3>2, <3>3, SameRoles
  <2>h. /\ users' \in Lists /\ page' \in Lists
        /\ HasAdmin(users) /\ HasAdmin(c.list) => HasAdmin(users') /\ HasAdmin(page')
    BY <2>e, <2>f, <1>a DEF AdminTypes
  <2>k. asking' \subseteq asking /\ UNCHANGED <<nameOf, session, demoted>>
    BY <1>10 DEF PageLoaded
  <2>1. AdminTypes'
    BY <2>h, <2>k, <1>a DEF AdminTypes
  <2>2. AdminNumbers'
    BY <1>10, <1>a DEF PageLoaded, AdminNumbers
  <2>3. ListsHaveAdmin'
    BY <2>h, <2>k, <1>a DEF ListsHaveAdmin
  <2> QED  BY <2>1, <2>2, <2>3 DEF AdminInv
<1>11. ASSUME NEW c \in asking, PageSaved(c)
      PROVE  AdminInv'
  <2>c. c \in Change /\ c.kind = "save"
    BY <1>11, <1>a DEF PageSaved, AdminTypes
  <2>d. c.list \in Lists
    BY <2>c DEF Change
  <2>e. PICK ids \in [1..Len(c.list) -> Person \cup {NoPerson}] :
          users' = [i \in 1..Len(c.list) |-> [c.list[i] EXCEPT !.id = ids[i]]]
    BY <1>11 DEF PageSaved
  <2>f. \A i \in 1..Len(c.list) : users'[i] \in Entry /\ users'[i].role = c.list[i].role
    BY <2>d, <2>e, EntryOf
  <2>g. users' = [i \in 1..Len(c.list) |-> users'[i]]
    BY <2>e
  <2>h. users' \in Lists /\ (HasAdmin(c.list) => HasAdmin(users'))
    BY <2>d, <2>f, <2>g, SameRoles
  <2>k. asking' \subseteq asking /\ UNCHANGED <<nameOf, session, page, demoted>>
    BY <1>11 DEF PageSaved
  <2>1. AdminTypes'
    BY <2>h, <2>k, <1>a DEF AdminTypes
  <2>2. AdminNumbers'
    BY <1>11, <1>a DEF PageSaved, AdminNumbers
  <2>3. ListsHaveAdmin'
    BY <2>h, <2>k, <1>a DEF ListsHaveAdmin
  <2> QED  BY <2>1, <2>2, <2>3 DEF AdminInv
<1>12. CASE AdminRestart
  <2>1. AdminTypes'
    BY <1>12, <1>a DEF AdminRestart, AdminTypes
  <2>2. AdminNumbers'
    BY <1>12, <1>a DEF AdminRestart, AdminNumbers
  <2>3. ListsHaveAdmin'
    BY <1>12, <1>a DEF AdminRestart, ListsHaveAdmin
  <2> QED  BY <2>1, <2>2, <2>3 DEF AdminInv
<1>13. CASE UNCHANGED adminVars
  <2>1. AdminTypes'
    BY <1>13, <1>a DEF adminVars, AdminTypes
  <2>2. AdminNumbers'
    BY <1>13, <1>a DEF adminVars, AdminNumbers
  <2>3. ListsHaveAdmin'
    BY <1>13, <1>a DEF adminVars, ListsHaveAdmin
  <2> QED  BY <2>1, <2>2, <2>3 DEF AdminInv
<1> QED  BY <1>1, <1>2, <1>3, <1>4, <1>5, <1>6, <1>7, <1>8, <1>9, <1>10, <1>11, <1>12, <1>13 DEF AdminNext

LEMMA AdminStarts == AdminInit => AdminInv
<1> SUFFICES ASSUME AdminInit PROVE AdminInv
  OBVIOUS
<1>1. PICK p \in Person, known \in BOOLEAN :
        users = << [upn |-> nameOf[p], role |-> "admin", id |-> IF known THEN p ELSE NoPerson] >>
  BY DEF AdminInit
<1>2. nameOf \in [Person -> Upn]
  BY DEF AdminInit
<1>3. [upn |-> nameOf[p], role |-> "admin", id |-> IF known THEN p ELSE NoPerson] \in Entry
  BY <1>2 DEF Entry, Role
<1>4. users \in Seq(Entry) /\ Len(users) = 1 /\ users[1].role = "admin"
  BY <1>1, <1>3
<1>5. users \in Lists
  <2>1. 1 <= MaxListed
    BY AdminAssumption
  <2> QED  BY <1>4, <2>1 DEF Lists
<1>6. NoSession \in [upn : Upn, role : Role \cup {"none"}]
  <2>1. (CHOOSE u \in Upn : TRUE) \in Upn
    BY <1>2
  <2> QED  BY <2>1 DEF NoSession
<1>7. /\ session = [q \in Person |-> NoSession] /\ page = <<>> /\ asking = {}
      /\ listChanges = 0 /\ renames = 0 /\ demoted = FALSE
  BY DEF AdminInit
<1>8. page \in Lists
  BY <1>7 DEF Lists
<1>9. AdminTypes
  BY <1>2, <1>5, <1>6, <1>7, <1>8 DEF AdminTypes
<1>10. AdminNumbers
  <2>1. listChanges \in 0..MaxListChange /\ renames \in 0..MaxRename
    BY <1>7
  <2> QED  BY <2>1, <1>7 DEF AdminNumbers
<1>11. ListsHaveAdmin
  BY <1>4, <1>7 DEF ListsHaveAdmin, HasAdmin
<1> QED  BY <1>9, <1>10, <1>11 DEF AdminInv

LEMMA AdminCorrect == AdminInit /\ [][AdminNext]_adminVars => []AdminInv
BY AdminStarts, AdminStep, PTL

LEMMA AdminFromInv == AdminInv => AdminTypeOK /\ AdminRemains
<1> SUFFICES ASSUME AdminInv PROVE AdminTypeOK /\ AdminRemains
  OBVIOUS
<1>1. AdminTypeOK
  <2>1. users \in Seq(Entry) /\ page \in Seq(Entry) /\ Len(users) <= MaxListed + MaxListChange
    BY DEF AdminInv, AdminTypes, Lists
  <2>2. \A c \in asking : c.kind \in {"add", "refresh", "save"} /\ c.list \in Seq(Entry)
    BY DEF AdminInv, AdminTypes, Change, Lists
  <2>3. nameOf \in [Person -> Upn] /\ session \in [Person -> [upn : Upn, role : Role \cup {"none"}]]
    BY DEF AdminInv, AdminTypes
  <2>4. listChanges \in 0..MaxListChange /\ renames \in 0..MaxRename /\ demoted \in BOOLEAN
    BY DEF AdminInv, AdminNumbers
  <2> QED  BY <2>1, <2>2, <2>3, <2>4 DEF AdminTypeOK
<1>2. AdminRemains
  BY DEF AdminInv, ListsHaveAdmin, AdminRemains
<1> QED  BY <1>1, <1>2

HIDE AdminAssumption

-----------------------------------------------------------------------------
(* SignIns                                                                 *)

Pairs == SignInId \X Effect

(* What the steps below rely on of the types.                              *)
Shape ==
  /\ kept \in [SignInId -> Purpose \cup {"none"}]
  /\ begun \in [SignInId -> Purpose \cup {"none"}]
  /\ answer \in [SignInId -> {"none", "code", "refused"}]
  /\ exchanging \subseteq Pairs /\ effects \subseteq Pairs

(* A session keeps the purpose it was begun for, and only what was begun   *)
(* has an answer.                                                          *)
Remembered ==
  \A s \in SignInId : /\ kept[s] # "none" => kept[s] = begun[s]
                      /\ answer[s] # "none" => begun[s] # "none"

(* What may come of the sign-in s.                                         *)
Allowed(s, e) == begun[s] # "none" /\ e \in {begun[s], "pool", "login"}
OnlyAllowed ==
  /\ \A x \in exchanging : Allowed(x[1], x[2])
  /\ \A x \in effects : Allowed(x[1], x[2]) /\ x[1] \in spent
  /\ \A x, y \in effects : x[1] = y[1] => x = y

SignInInv == Shape /\ Remembered /\ OnlyAllowed

-----------------------------------------------------------------------------
(* An answer that comes back starts the exchange for an allowed effect, or *)
(* none, and uses the session up.                                          *)
LEMMA ComesBackKeeps ==
  ASSUME SignInInv, NEW s \in SignInId, NEW effect \in Effect \cup {"none", "nothing"},
         ComesBack(s, effect), kept[s] # "none" => effect \in {kept[s], "pool", "login", "nothing"}
  PROVE  SignInInv'
<1>1. UNCHANGED <<begun, answer, spent, effects>> /\ answer[s] # "none"
  BY DEF ComesBack
<1>2. begun[s] # "none"
  BY <1>1 DEF SignInInv, Remembered
<1>3. /\ kept' \in [SignInId -> Purpose \cup {"none"}]
      /\ \A t \in SignInId : kept'[t] # "none" => kept'[t] = kept[t]
  BY DEF ComesBack, Pop, Pruned, SignInInv, Shape
<1>4. exchanging' = exchanging
        \/ /\ exchanging' = exchanging \cup {<<s, effect>>}
           /\ effect # "nothing" /\ kept[s] # "none"
  BY DEF ComesBack, Exchange, Kept
<1>5. exchanging' \subseteq Pairs /\ \A x \in exchanging' : Allowed(x[1], x[2])
  <2>1. CASE exchanging' = exchanging
    BY <2>1 DEF SignInInv, Shape, OnlyAllowed
  <2>2. CASE /\ exchanging' = exchanging \cup {<<s, effect>>}
             /\ effect # "nothing" /\ kept[s] # "none"
    <3>1. kept[s] = begun[s] /\ begun[s] \in Purpose
      BY <1>2, <2>2 DEF SignInInv, Remembered, Shape
    <3>2. effect \in Effect /\ Allowed(s, effect)
      BY <1>2, <2>2, <3>1 DEF Allowed, Effect
    <3> QED  BY <2>2, <3>2 DEF SignInInv, Shape, OnlyAllowed, Pairs
  <2> QED  BY <1>4, <2>1, <2>2
<1>6. Shape'
  BY <1>1, <1>3, <1>5 DEF SignInInv, Shape
<1>7. Remembered'
  BY <1>1, <1>3 DEF SignInInv, Remembered
<1>8. OnlyAllowed'
  BY <1>1, <1>5 DEF SignInInv, OnlyAllowed, Allowed
<1> QED  BY <1>6, <1>7, <1>8 DEF SignInInv

LEMMA ReturnsKeep ==
  ASSUME SignInInv, NEW s \in SignInId,
         \/ Callback(s) \/ Paste(s) \/ PasteAzure(s) \/ PastePool(s) \/ PasteLogin(s)
  PROVE  SignInInv'
<1>0. /\ kept[s] \in Effect \cup {"none", "nothing"} /\ "nothing" \in Effect \cup {"none", "nothing"}
      /\ "azure" \in Effect \cup {"none", "nothing"} /\ "pool" \in Effect \cup {"none", "nothing"}
      /\ "login" \in Effect \cup {"none", "nothing"}
  BY DEF SignInInv, Shape, Effect, Purpose
<1>1. CASE Callback(s)
  BY <1>0, <1>1, ComesBackKeeps DEF Callback
<1>2. CASE Paste(s)
  BY <1>0, <1>2, ComesBackKeeps DEF Paste
<1>3. CASE PasteAzure(s)
  BY <1>0, <1>3, ComesBackKeeps DEF PasteAzure
<1>4. CASE PastePool(s)
  BY <1>0, <1>4, ComesBackKeeps DEF PastePool, Elsewhere
<1>5. CASE PasteLogin(s)
  BY <1>0, <1>5, ComesBackKeeps DEF PasteLogin, Elsewhere
<1> QED  BY <1>1, <1>2, <1>3, <1>4, <1>5

(* A sign-in that begins has nothing behind it.                            *)
LEMMA BeginKeeps ==
  ASSUME SignInInv, NEW s \in SignInId, NEW purpose \in Purpose, BeginSignIn(s, purpose)
  PROVE  SignInInv'
<1>1. /\ begun[s] = "none" /\ begun' = [begun EXCEPT ![s] = purpose] /\ purpose # "none"
      /\ UNCHANGED <<answer, exchanging, spent, effects>>
  BY DEF BeginSignIn, Purpose
<1>2. /\ kept' \in [SignInId -> Purpose \cup {"none"}] /\ kept'[s] = purpose
      /\ \A t \in SignInId \ {s} : kept'[t] # "none" => kept'[t] = kept[t]
  BY DEF BeginSignIn, Pruned, SignInInv, Shape
<1>3. Shape'
  BY <1>1, <1>2 DEF SignInInv, Shape
<1>4. Remembered'
  BY <1>1, <1>2 DEF SignInInv, Shape, Remembered
<1>5. \A t \in SignInId, e \in Effect : Allowed(t, e) => Allowed(t, e)'
  BY <1>1 DEF Allowed, SignInInv, Shape
<1>6. OnlyAllowed'
  BY <1>1, <1>5 DEF SignInInv, Shape, OnlyAllowed, Pairs
<1> QED  BY <1>3, <1>4, <1>6 DEF SignInInv

(* Microsoft takes a code once, so one thing comes of it.                  *)
LEMMA CompletedKeeps ==
  ASSUME SignInInv, NEW s \in SignInId, NEW effect \in Effect, Completed(s, effect)
  PROVE  SignInInv'
<1>1. /\ <<s, effect>> \in exchanging /\ exchanging' \subseteq exchanging
      /\ spent' = spent \cup {s} /\ UNCHANGED <<kept, begun, answer>>
      /\ \/ s \notin spent /\ effects' = effects \cup {<<s, effect>>}
         \/ effects' = effects
  BY DEF Completed
<1>2. Allowed(s, effect)
  BY <1>1 DEF SignInInv, OnlyAllowed
<1>3. Shape' /\ Remembered'
  BY <1>1 DEF SignInInv, Shape, Remembered, Pairs
<1>4. OnlyAllowed'
  BY <1>1, <1>2 DEF SignInInv, OnlyAllowed, Allowed
<1> QED  BY <1>3, <1>4 DEF SignInInv

LEMMA SignInStep ==
  ASSUME SignInInv, [SignInNext]_signInVars
  PROVE  SignInInv'
<1>1. ASSUME NEW s \in SignInId, NEW purpose \in Purpose, BeginSignIn(s, purpose)
      PROVE  SignInInv'
  BY <1>1, BeginKeeps
<1>2. ASSUME NEW s \in SignInId, MicrosoftAnswers(s) PROVE SignInInv'
  <2>1. /\ begun[s] # "none" /\ UNCHANGED <<kept, begun, exchanging, spent, effects>>
        /\ \E a \in {"code", "refused"} : answer' = [answer EXCEPT ![s] = a]
    BY <1>2 DEF MicrosoftAnswers
  <2> QED  BY <2>1 DEF SignInInv, Shape, Remembered, OnlyAllowed, Allowed
<1>3. ASSUME NEW s \in SignInId,
             \/ Callback(s) \/ Paste(s) \/ PasteAzure(s) \/ PastePool(s) \/ PasteLogin(s)
      PROVE  SignInInv'
  BY <1>3, ReturnsKeep
<1>4. ASSUME NEW s \in SignInId, NEW effect \in Effect, Completed(s, effect)
      PROVE  SignInInv'
  BY <1>4, CompletedKeeps
<1>5. CASE SignInTick
  BY <1>5 DEF SignInTick, SignInInv, Shape, Remembered, OnlyAllowed, Allowed
<1>6. CASE SignInRestart
  BY <1>6 DEF SignInRestart, SignInInv, Shape, Remembered, OnlyAllowed, Allowed
<1>7. CASE UNCHANGED signInVars
  BY <1>7 DEF signInVars, SignInInv, Shape, Remembered, OnlyAllowed, Allowed
<1> QED  BY <1>1, <1>2, <1>3, <1>4, <1>5, <1>6, <1>7 DEF SignInNext


(* The other types.                                                        *)
SignInNumbers ==
  /\ age \in [SignInId -> 0..(MaxAge + 1)] /\ spent \subseteq SignInId
  /\ signInStops \in 0..MaxSignInStop

LEMMA SignInNumbersStep == SignInNumbers /\ [SignInNext]_signInVars => SignInNumbers'
<1> SUFFICES ASSUME SignInNumbers, [SignInNext]_signInVars PROVE SignInNumbers'
  OBVIOUS
<1>1. age \in [SignInId -> 0..(MaxAge + 1)] /\ signInStops \in 0..MaxSignInStop /\ spent \subseteq SignInId
  BY DEF SignInNumbers
<1>2. ASSUME NEW s \in SignInId, NEW purpose \in Purpose, BeginSignIn(s, purpose)
      PROVE  SignInNumbers'
  <2>1. 0 \in 0..(MaxAge + 1)
    BY SignInAssumption
  <2> QED  BY <1>1, <1>2, <2>1 DEF BeginSignIn, SignInNumbers
<1>3. ASSUME NEW s \in SignInId,
             \/ MicrosoftAnswers(s) \/ Callback(s) \/ Paste(s) \/ PasteAzure(s)
             \/ PastePool(s) \/ PasteLogin(s)
      PROVE  SignInNumbers'
  <2>1. UNCHANGED <<age, spent, signInStops>>
    BY <1>3 DEF MicrosoftAnswers, Callback, Paste, PasteAzure, PastePool, PasteLogin, Elsewhere, ComesBack
  <2> QED  BY <1>1, <2>1 DEF SignInNumbers
<1>4. ASSUME NEW s \in SignInId, NEW effect \in Effect, Completed(s, effect)
      PROVE  SignInNumbers'
  <2>1. UNCHANGED <<age, signInStops>> /\ spent' = spent \cup {s}
    BY <1>4 DEF Completed
  <2> QED  BY <1>1, <2>1 DEF SignInNumbers
<1>5. CASE SignInTick
  <2>1. /\ UNCHANGED <<spent, signInStops>>
        /\ age' = [s \in SignInId |-> IF kept[s] # "none" /\ age[s] <= MaxAge THEN age[s] + 1 ELSE age[s]]
    BY <1>5 DEF SignInTick
  <2>2. \A s \in SignInId : age[s] <= MaxAge => age[s] + 1 \in 0..(MaxAge + 1)
    BY <1>1, SignInAssumption
  <2> QED  BY <1>1, <2>1, <2>2 DEF SignInNumbers
<1>6. CASE SignInRestart
  <2>1. UNCHANGED <<age, spent>> /\ signInStops < MaxSignInStop /\ signInStops' = signInStops + 1
    BY <1>6 DEF SignInRestart
  <2>2. signInStops' \in 0..MaxSignInStop
    BY <1>1, <2>1, SignInAssumption
  <2> QED  BY <1>1, <2>1, <2>2 DEF SignInNumbers
<1>7. CASE UNCHANGED signInVars
  BY <1>1, <1>7 DEF signInVars, SignInNumbers
<1> QED  BY <1>2, <1>3, <1>4, <1>5, <1>6, <1>7 DEF SignInNext

LEMMA SignInCorrect ==
  SignInInit /\ [][SignInNext]_signInVars => [](SignInInv /\ SignInNumbers)
<1>1. SignInInit => SignInInv
  BY DEF SignInInit, SignInInv, Shape, Remembered, OnlyAllowed
<1>2. SignInInit => SignInNumbers
  <2> SUFFICES ASSUME SignInInit PROVE SignInNumbers
    OBVIOUS
  <2>1. 0 \in 0..(MaxAge + 1) /\ 0 \in 0..MaxSignInStop
    BY SignInAssumption
  <2> QED  BY <2>1 DEF SignInInit, SignInNumbers
<1>3. SignInInv /\ [SignInNext]_signInVars => SignInInv'
  BY SignInStep
<1> QED  BY <1>1, <1>2, <1>3, SignInNumbersStep, PTL

LEMMA SignInFromInv == SignInInv /\ SignInNumbers => SignInTypeOK /\ EffectAsBegun
BY DEF SignInInv, SignInNumbers, Shape, OnlyAllowed, Allowed, Pairs, SignInTypeOK, EffectAsBegun

-----------------------------------------------------------------------------
(* The whole                                                               *)

(* Each part runs as if it were alone: the step of one leaves the variables *)
(* of the others as they are.                                              *)
LEMMA PartsOfOffice ==
  Spec => /\ PortalInit /\ [][PortalNext]_portalVars
          /\ SentInit /\ [][SentNext]_sentVars
          /\ SignatureInit /\ [][SignatureNext]_signatureVars
          /\ AdminInit /\ [][AdminNext]_adminVars
          /\ SignInInit /\ [][SignInNext]_signInVars
<1>1. Init => PortalInit /\ SentInit /\ SignatureInit /\ AdminInit /\ SignInInit
  BY DEF Init
<1>2. [Next]_mcVars =>
        /\ [PortalNext]_portalVars /\ [SentNext]_sentVars /\ [SignatureNext]_signatureVars
        /\ [AdminNext]_adminVars /\ [SignInNext]_signInVars
  BY DEF Next, People, Administrators, peopleVars, mcVars
<1> QED  BY <1>1, <1>2, PTL DEF Spec

(* Type correctness of all five parts.                                     *)
THEOREM OfficeTypes == Spec => []TypesOK
BY PartsOfOffice, PortalFromInv, PortalCorrect, SentFromInv, SentCorrect, SignatureFromInv,
   SignatureCorrect, AdminFromInv, AdminCorrect, SignInFromInv, SignInCorrect, PTL DEF TypesOK

(* The portal implements Disclosure, for every number of messages and      *)
(* browsers, every life of messages and codes and whatever fails: a        *)
(* message opens once and closes once, one browser is admitted at a time,  *)
(* and nobody else is served (portal_store.py).                            *)
THEOREM PortalKeepsPromise == Spec => DisclosureKept
BY PartsOfOffice, PromiseKept, PTL

(* An open message has its content, a code opens it for one browser, and   *)
(* what stays behind of a message does so for a known cause                *)
(* (portal_store.py): what MessagesKept says of safety.                    *)
THEOREM MessagesWhole == Spec => [](OpenHasContent /\ CodeOnce /\ LeftoversExplained)
BY PartsOfOffice, PortalFromInv, PortalCorrect, PTL

(* Where all forks of a mail are encrypted or none is, the clean-ups leave *)
(* the sender something to read, for every number of forks, however they   *)
(* overlap and whatever fails (graph_client.py).                           *)
THEOREM SentItemsKept == Spec => []AlikeStayReadable
BY PartsOfOffice, SentFromInv, SentCorrect, PTL

(* Whoever reads a mail of a mailbox finds its full signature once, in     *)
(* conversations of every length, between any number of authors and with   *)
(* whatever mail programs do to the quotes (sig_thread.py).                *)
THEOREM SignatureOnce == Spec => []OneFullBlock
BY PartsOfOffice, SignatureFromInv, SignatureCorrect, PTL

(* Somebody can administrate, whichever lists are written over each other, *)
(* but where the last administrator was demoted or removed (nutzer.py).    *)
THEOREM AdministratorStays == Spec => []AdminRemains
BY PartsOfOffice, AdminFromInv, AdminCorrect, PTL

(* Whatever is pasted where, late, twice or after a restart: at most one   *)
(* thing comes of a sign-in, what it was begun for, or an app of the pool, *)
(* or a login (pkce.py).                                                   *)
THEOREM NothingElseSetOff == Spec => []EffectAsBegun
BY PartsOfOffice, SignInFromInv, SignInCorrect, PTL
===============================================================================
