---------------------------- MODULE RecipientCerts ----------------------------
(***************************************************************************)
(* The certificates of the people mail is encrypted to: how they come in   *)
(* (smime_harvest.py), who is believed (trust_store.py), where the others  *)
(* wait (cert_wartestand.py) and whether one may still be used             *)
(* (crl_check.py, called from smime_encrypt.py for every mail).            *)
(*                                                                         *)
(* A revocation list is looked for in memory, then in a file, then on the  *)
(* net; a list that is overdue is never used, and without a list the mail  *)
(* goes through the portal.  Time counts in units of a list's life.        *)
(*                                                                         *)
(* How far this goes depends on what an authority names: a certificate     *)
(* that names no list is not checked, a list that names no next update is  *)
(* never overdue, and the signature of a list is looked at only if the     *)
(* certificate says where its issuer is.                                   *)
(***************************************************************************)
EXTENDS Naturals, FiniteSets

CONSTANTS PartnerCert,    \* certificates of one partner's address
          Issuer,         \* authorities
          MaxClock,       \* bound on the clock
          ListLife,       \* how long a list is valid: nextUpdate - thisUpdate
          PartnerCount    \* bound on the sightings of a waiting certificate

ASSUME CertAssumption ==
    /\ MaxClock \in Nat \ {0} /\ ListLife \in Nat \ {0} /\ PartnerCount \in Nat \ {0}
    /\ "none" \notin PartnerCert

NoPartnerCert == "none"
NoList == [revoked |-> {}, until |-> 0, own |-> FALSE]
Never == MaxClock + 1
Forever == Never + ListLife
Names == {"list", "next", "issuer"}   \* where the list is, when the next one comes, the issuer

VARIABLES
    clock,
    issuerOf,     \* [PartnerCert -> Issuer]
    names,        \* [Issuer -> what its certificates and lists name]
    linked,       \* certificates whose issuer can be fetched or is in the mail
    roots,        \* issuers on the downloaded root list
    freed,        \* TRUSTED_ISSUERS: issuers and single certificates
    autoKnown, autoUnknown,      \* TRUST_AUTO_KNOWN, TRUST_UNKNOWN_MODE = "auto"
    stock,        \* the certificate the address is encrypted with
    waiting,      \* [PartnerCert -> sightings while it waits, 0 when it does not]
    arrived, dismissed, used,    \* history: seen; rejected; once in stock
    revokedAt,    \* [PartnerCert -> time its issuer revoked it]
    inMemory, inFile,            \* [Issuer -> list]; own: the issuer signed it
    encrypted     \* history: the last mail encrypted, [cert, at]

trustVars == <<issuerOf, names, linked, roots, freed, autoKnown, autoUnknown>>
stockVars == <<stock, waiting, arrived, dismissed, used>>
listVars == <<revokedAt, inMemory, inFile>>
certVars == <<clock, trustVars, stockVars, listVars, encrypted>>

CertInit ==
    /\ clock = 1
    /\ issuerOf \in [PartnerCert -> Issuer]
    /\ names \in [Issuer -> SUBSET Names]
    /\ linked \in SUBSET PartnerCert
    /\ roots \in SUBSET Issuer
    /\ freed = {}
    /\ autoKnown \in BOOLEAN /\ autoUnknown \in BOOLEAN
    /\ stock = NoPartnerCert
    /\ waiting = [c \in PartnerCert |-> 0]
    /\ arrived = {} /\ dismissed = {} /\ used = {}
    /\ revokedAt = [c \in PartnerCert |-> Never]
    /\ inMemory = [i \in Issuer |-> NoList]
    /\ inFile = [i \in Issuer |-> NoList]
    /\ encrypted = [cert |-> NoPartnerCert, at |-> 0]

(***************************************************************************)
(* Coming in                                                               *)
(***************************************************************************)

\* kette_bauen reaches the issuer or stops at the certificate; bewerten looks
\* at every link of the chain.
Chain(c) == {c} \cup IF c \in linked THEN {issuerOf[c]} ELSE {}
Known(c) == Chain(c) \cap (freed \cup roots) # {}
Accept(c) == IF Known(c) THEN autoKnown ELSE autoUnknown

\* store_recipient_cert replaces what was there.
Keep(c) == stock' = c /\ used' = used \cup {c}

\* merken: the first sighting writes the entry, the others count.
Wait(c) == waiting' = [waiting EXCEPT ![c] =
                            IF @ < PartnerCount THEN @ + 1 ELSE @]

Harvest(c) ==
    /\ arrived' = arrived \cup {c}
    /\ IF Accept(c) THEN Keep(c) /\ UNCHANGED waiting
       ELSE Wait(c) /\ UNCHANGED <<stock, used>>
    /\ UNCHANGED <<clock, trustVars, dismissed, listVars, encrypted>>

\* _extract_via_openssl: what Python cannot read, and in the harvesting mailbox
\* every opaque signature, comes in without the question who is believed.
HarvestRaw(c) ==
    /\ arrived' = arrived \cup {c} /\ Keep(c)
    /\ UNCHANGED <<clock, trustVars, waiting, dismissed, listVars, encrypted>>

\* freigeben: with its issuer, when that can be determined, or alone; the
\* entry goes once the certificate is in the stock.
Free(c, too) ==
    freed' = freed \cup
        (IF ~too THEN {} ELSE IF c \in linked THEN {issuerOf[c]} ELSE {c})

\* Mutant: the entry goes first, and what follows may raise.
ReleaseLossy(c) ==
    /\ waiting[c] > 0
    /\ \/ Keep(c)
       \/ UNCHANGED <<stock, used>>
    /\ waiting' = [waiting EXCEPT ![c] = 0]
    /\ UNCHANGED <<clock, trustVars, arrived, dismissed, listVars, encrypted>>

ReleaseCert(c) ==
    /\ waiting[c] > 0
    /\ \E too \in BOOLEAN : Free(c, too)
    /\ Keep(c)
    /\ waiting' = [waiting EXCEPT ![c] = 0]
    /\ UNCHANGED <<clock, issuerOf, names, linked, roots, autoKnown, autoUnknown,
                   arrived, dismissed, listVars, encrypted>>

DismissCert(c) ==
    /\ waiting[c] > 0
    /\ waiting' = [waiting EXCEPT ![c] = 0]
    /\ dismissed' = dismissed \cup {c}
    /\ UNCHANGED <<clock, trustVars, stock, arrived, used, listVars, encrypted>>

TakeBack(x) ==
    /\ x \in freed /\ freed' = freed \ {x}
    /\ UNCHANGED <<clock, issuerOf, names, linked, roots, autoKnown, autoUnknown,
                   stockVars, listVars, encrypted>>

\* aktualisieren, in the daily run or when the list is too old; a list that
\* cannot be had or is empty leaves the old one.
RefreshRoots(rs) ==
    /\ rs # {} /\ roots' = rs
    /\ UNCHANGED <<clock, issuerOf, names, linked, freed, autoKnown, autoUnknown,
                   stockVars, listVars, encrypted>>

DeleteStock ==
    /\ stock # NoPartnerCert /\ stock' = NoPartnerCert
    /\ UNCHANGED <<clock, trustVars, waiting, arrived, dismissed, used, listVars,
                   encrypted>>

(***************************************************************************)
(* Revocation                                                              *)
(***************************************************************************)

RevokeCert(c) ==
    /\ revokedAt[c] = Never /\ revokedAt' = [revokedAt EXCEPT ![c] = clock]
    /\ UNCHANGED <<clock, trustVars, stockVars, inMemory, inFile, encrypted>>

\* What is served at the address of the list: one of today, or one the issuer
\* published a while ago, or what somebody else signed under its name.
Served(i) ==
    {[revoked |-> {c \in PartnerCert : issuerOf[c] = i /\ revokedAt[c] <= day},
      until |-> IF "next" \in names[i] THEN day + ListLife ELSE Forever,
      own |-> TRUE] : day \in 1..clock}
    \cup {[revoked |-> {}, until |-> clock + ListLife, own |-> FALSE]}

\* Mutant: a list is fresh on the very day it should have been replaced.
FreshLong(list) == list.until >= clock /\ list # NoList

Fresh(list) == list.until > clock

\* sperrliste: from memory, from the file, from the net.
FromMemory(i) == Fresh(inMemory[i])
FromFile(i) == ~Fresh(inMemory[i]) /\ Fresh(inFile[i])
FromNet(i) == ~Fresh(inMemory[i]) /\ ~Fresh(inFile[i])

\* A new list in the memory may push the others out (the budget), never itself.
Remembered(i, list) ==
    inMemory' \in {[inMemory EXCEPT ![i] = list],
                   [j \in Issuer |-> IF j = i THEN list ELSE NoList]}

\* The list found, and the caches after the look.
Lookup(i, list) ==
    \/ /\ FromMemory(i) /\ list = inMemory[i]
       /\ UNCHANGED <<inMemory, inFile>>
    \/ /\ FromFile(i) /\ list = inFile[i]
       /\ Remembered(i, list)
       /\ UNCHANGED inFile
    \/ /\ FromNet(i) /\ list \in Served(i) /\ Fresh(list)
       /\ inFile' = [inFile EXCEPT ![i] = list]
       /\ Remembered(i, list)

\* _signatur_geprueft: the list is the issuer's own, or where the issuer is
\* cannot be told and its name on the list is enough.  (An issuer that cannot
\* be had just now leaves the mail to the portal.)
Genuine(i, list) == "issuer" \in names[i] => list.own

\* One mail: get_recipient_cert_path, widerruf_geprueft.  A certificate that
\* names no list is used, and one whose list does not name it; otherwise the
\* portal serves.
Encrypt ==
    LET i == issuerOf[stock]
    IN  /\ stock # NoPartnerCert
        /\ \/ /\ "list" \notin names[i] /\ UNCHANGED <<inMemory, inFile>>
           \/ /\ "list" \in names[i]
              /\ \E list \in {inMemory[i], inFile[i]} \cup Served(i) :
                    /\ Lookup(i, list)
                    /\ Genuine(i, list) /\ stock \notin list.revoked
        /\ encrypted' = [cert |-> stock, at |-> clock]
        /\ UNCHANGED <<clock, trustVars, stockVars, revokedAt>>

\* vorwaermen, and a mail that ends in the portal: only the caches change.
Warm(i) ==
    /\ "list" \in names[i]
    /\ \E list \in {inMemory[i], inFile[i]} \cup Served(i) : Lookup(i, list)
    /\ UNCHANGED <<clock, trustVars, stockVars, revokedAt, encrypted>>

CertTick ==
    /\ clock < MaxClock /\ clock' = clock + 1
    /\ UNCHANGED <<trustVars, stockVars, listVars, encrypted>>

\* A restart forgets the lists in memory, not the files.
RestartCerts ==
    /\ inMemory' = [i \in Issuer |-> NoList]
    /\ UNCHANGED <<clock, trustVars, stockVars, revokedAt, inFile, encrypted>>

CertNext ==
    \/ \E c \in PartnerCert :
          \/ Harvest(c) \/ HarvestRaw(c) \/ ReleaseCert(c) \/ DismissCert(c) \/ RevokeCert(c)
    \/ \E x \in PartnerCert \cup Issuer : TakeBack(x)
    \/ \E rs \in SUBSET Issuer : RefreshRoots(rs)
    \/ \E i \in Issuer : Warm(i)
    \/ DeleteStock \/ Encrypt \/ CertTick \/ RestartCerts

CertSpec == CertInit /\ [][CertNext]_certVars

(***************************************************************************)
(* Properties                                                              *)
(***************************************************************************)

Lists == [revoked : SUBSET PartnerCert, until : 0..Forever, own : BOOLEAN]

CertTypeOK ==
    /\ clock \in 1..MaxClock
    /\ issuerOf \in [PartnerCert -> Issuer]
    /\ names \in [Issuer -> SUBSET Names]
    /\ linked \subseteq PartnerCert /\ roots \subseteq Issuer
    /\ freed \subseteq PartnerCert \cup Issuer
    /\ stock \in PartnerCert \cup {NoPartnerCert}
    /\ waiting \in [PartnerCert -> 0..PartnerCount]
    /\ arrived \cup dismissed \cup used \subseteq PartnerCert
    /\ revokedAt \in [PartnerCert -> 1..Never]
    /\ inMemory \in [Issuer -> Lists] /\ inFile \in [Issuer -> Lists]
    /\ encrypted \in [cert : PartnerCert \cup {NoPartnerCert}, at : 0..MaxClock]

\* Whatever cache answered, whatever restart or refill came between and whoever
\* signed what was served: a mail is encrypted to a revoked certificate at most
\* for the life of one list, if its authority names all there is to name.
RevocationBites ==
    encrypted.cert # NoPartnerCert /\ names[issuerOf[encrypted.cert]] = Names =>
        encrypted.at < revokedAt[encrypted.cert] + ListLife

\* No certificate that came in disappears without a person's word: it waits,
\* or it was in use, or it was rejected.
NothingVanishes ==
    \A c \in arrived : waiting[c] > 0 \/ c \in used \cup dismissed
===============================================================================
