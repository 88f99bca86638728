--------------------------------- MODULE OwnKeys ---------------------------------
(***************************************************************************)
(* The private keys of one mailbox (smime_store.py, keyvault.py) and what   *)
(* signing a mail makes of them (smime_signer.py, cms_sign.py).              *)
(*                                                                          *)
(* A certificate lies in a slot of its own with its key; one slot is the    *)
(* default.  A migration copies the key of a slot to the Key Vault, where   *)
(* all keys of the mailbox are versions of ONE key, keeps an encrypted      *)
(* copy or none, and removes the file.  A slot stands for its certificate   *)
(* and for the pair of keys that belongs to it.                             *)
(***************************************************************************)
EXTENDS Integers, FiniteSets

CONSTANTS
    MaxSlot,      \* certificates the mailbox may get
    Password,     \* passwords of the key files
    MaxKeyAct,    \* bound on what administrators and renewals do
    MaxKeyFault   \* bound on failing calls, failing writes and crashes

Slot == 1..MaxSlot
NoSlot == 0
NoPassphrase == "plain"                 \* a key file without a password, and no password set
Nothing == "nothing"             \* no such file
Lock == Password \cup {NoPassphrase}

ASSUME KeysAssumption ==
    /\ {MaxSlot, MaxKeyAct, MaxKeyFault} \subseteq Nat
    /\ Nothing \notin Lock

VARIABLES
    cert,         \* slots with a cert.pem
    key, bak,     \* key.pem and key.pem.bak: [Slot -> what locks the file]
    default,      \* the slot named in the file "default", or NoSlot
    vault,        \* the one key in the vault: all versions, the current one, its operations
    password,     \* SMIME_KEY_PASSWORD
    mode,         \* KV_KEY_MODE
    job,          \* the migration that is running
    keyActs, keyFaults,
    owned         \* ghost: slots that got a key and were not deleted since

files == <<cert, key, bak, default>>
keyVars == <<files, vault, password, mode, job, keyActs, keyFaults, owned>>

NoJob == [at |-> "idle", slot |-> NoSlot, lock |-> Nothing, rest |-> {}]

KeysInit ==
    /\ cert = {} /\ default = NoSlot
    /\ key = [s \in Slot |-> Nothing] /\ bak = [s \in Slot |-> Nothing]
    /\ vault = [versions |-> {}, current |-> NoSlot, ops |-> "all"]
    /\ password = NoPassphrase /\ mode = "fallback" /\ job = NoJob
    /\ keyActs = 0 /\ keyFaults = 0 /\ owned = {}

KeyAct == keyActs < MaxKeyAct /\ keyActs' = keyActs + 1
KeyFault == keyFaults < MaxKeyFault /\ keyFaults' = keyFaults + 1

First(S) == IF S = {} THEN NoSlot ELSE CHOOSE s \in S : \A t \in S : s <= t

\* schluessel_laden, openssl_passin: with the password, or without.
Unlocks(lock) == lock \in {password, NoPassphrase}

\* migrate_keys_encryption, at the start of the process.
LockedAtStart(k, pw) == [s \in Slot |-> IF k[s] = NoPassphrase THEN pw ELSE k[s]]

(***************************************************************************)
(* The store                                                               *)
(***************************************************************************)

\* store_p12_slot, store_pem_slot: what is uploaded, renewed or fetched from the
\* hub always becomes the default.  import_signing_pem keeps the bytes, with
\* the password of the gateway they come from, and may come without a key.
Store(s) ==
    /\ KeyAct
    /\ \E lock \in {password} \cup Lock \cup {Nothing} :
         /\ key' = [key EXCEPT ![s] = IF lock = Nothing THEN @ ELSE lock]
         /\ owned' = IF lock = Nothing THEN owned ELSE owned \cup {s}
    /\ cert' = cert \cup {s} /\ default' = s
    /\ UNCHANGED <<bak, vault, password, mode, job, keyFaults>>

\* The process ends between the certificate and its key.
StoreTorn(s) ==
    /\ KeyAct /\ KeyFault /\ cert' = cert \cup {s}
    /\ job' = NoJob /\ key' = LockedAtStart(key, password)
    /\ UNCHANGED <<bak, default, vault, password, mode, owned>>

\* list_user_certs: names a default when there is none.
ListCerts ==
    /\ cert # {} /\ default \notin cert
    /\ default' = First(cert)
    /\ UNCHANGED <<cert, key, bak, vault, password, mode, job, keyActs, keyFaults, owned>>

SetDefault(s) ==
    /\ KeyAct /\ s \in cert /\ default' = s
    /\ UNCHANGED <<cert, key, bak, vault, password, mode, job, keyFaults, owned>>

\* delete_cert_slot: key.pem.bak stays behind.
DeleteSlot(s) ==
    /\ KeyAct
    /\ cert' = cert \ {s} /\ key' = [key EXCEPT ![s] = Nothing]
    /\ default' = IF default = s THEN First(cert') ELSE default
    /\ owned' = owned \ {s}
    /\ UNCHANGED <<bak, vault, password, mode, job, keyFaults>>

DeleteAll ==
    /\ KeyAct /\ cert # {}
    /\ cert' = {} /\ default' = NoSlot /\ owned' = {}
    /\ key' = [s \in Slot |-> Nothing] /\ bak' = [s \in Slot |-> Nothing]
    /\ UNCHANGED <<vault, password, mode, job, keyFaults>>

(***************************************************************************)
(* The password of the files                                               *)
(***************************************************************************)

\* reencrypt_all_keys: every key.pem the old password, or none, opens.
Relocked(new, done) ==
    [s \in Slot |-> IF s \in done /\ key[s] \in {password, NoPassphrase} THEN new ELSE key[s]]

\* The setting is saved first, then the files are written one by one.
ChangePassword(new) ==
    /\ KeyAct /\ new # password
    /\ password' = new /\ key' = Relocked(new, Slot)
    /\ UNCHANGED <<cert, bak, default, vault, mode, job, keyFaults, owned>>

KeyRestart ==
    /\ KeyFault /\ job' = NoJob /\ key' = LockedAtStart(key, password)
    /\ UNCHANGED <<cert, bak, default, vault, password, mode, keyActs, owned>>

ChangeTorn(new) ==
    /\ KeyAct /\ KeyFault /\ new # password
    /\ \E done \in SUBSET Slot : key' = LockedAtStart(Relocked(new, done), new)
    /\ password' = new /\ job' = NoJob
    /\ UNCHANGED <<cert, bak, default, vault, mode, owned>>

SetMode ==
    /\ KeyAct /\ mode' \in {"fallback", "strict"} \ {mode}
    /\ UNCHANGED <<files, vault, password, job, keyFaults, owned>>

(***************************************************************************)
(* Migration to the vault                                                  *)
(***************************************************************************)

\* migrate_key_to_keyvault reads the file, then waits for the vault.  A
\* migration of everything goes through the slots it listed at the start.
Reading(s, rest) == [at |-> "asked", slot |-> s, lock |-> key[s], rest |-> rest]

NextOf(rest) ==
    LET todo == {s \in rest : key'[s] # Nothing}
    IN  IF todo = {} THEN NoJob
        ELSE [at |-> "asked", slot |-> First(todo), lock |-> key'[First(todo)],
              rest |-> {s \in rest : s > First(todo)}]

MigrateKey(s) ==
    /\ KeyAct /\ job.at = "idle" /\ s \in cert /\ key[s] # Nothing
    /\ job' = Reading(s, {})
    /\ UNCHANGED <<files, vault, password, mode, keyFaults, owned>>

MigrateAll ==
    /\ KeyAct /\ job.at = "idle" /\ key' = key
    /\ job' = NextOf(Slot) /\ job' # NoJob
    /\ UNCHANGED <<cert, bak, default, vault, password, mode, keyFaults, owned>>

\* import_rsa_key: a new version of the mailbox' key.  A vault that refuses the
\* attribute gets it again without, and without the operations to decrypt.
NewVersion(ops) ==
    vault' = [versions |-> vault.versions \cup {job.slot}, current |-> job.slot, ops |-> ops]

Imported ==
    /\ job.at = "asked" /\ Unlocks(job.lock)
    /\ \E ops \in {"all", "sign"} : NewVersion(ops)
    /\ job' = [job EXCEPT !.at = "imported"]
    /\ UNCHANGED <<files, password, mode, keyActs, keyFaults, owned>>

\* The bug import_rsa_key guards against: the status of the second attempt is not looked at.
ImportTakenAsDone ==
    /\ job.at = "asked" /\ KeyFault
    /\ job' = [job EXCEPT !.at = "imported"]
    /\ UNCHANGED <<files, vault, password, mode, keyActs, owned>>

\* No token, refused, or the answer is lost after the vault took the key.
ImportFails ==
    /\ job.at = "asked" /\ UNCHANGED <<files, password, mode, keyActs, owned>>
    /\ IF Unlocks(job.lock)
       THEN KeyFault /\ (UNCHANGED vault \/ NewVersion("all"))
       ELSE UNCHANGED <<vault, keyFaults>>
    /\ job' = NextOf(job.rest)

\* The copy is saved, the file removed; either may fail, and is only logged.
\* The copy has the lock the file had when it was read, and comes into being
\* even if the slot was deleted meanwhile.
Removed ==
    /\ job.at = "imported"
    /\ bak' = [bak EXCEPT ![job.slot] = IF mode = "fallback" THEN job.lock ELSE @]
    /\ key' = [key EXCEPT ![job.slot] = Nothing]
    /\ job' = NextOf(job.rest)
    /\ UNCHANGED <<cert, default, vault, password, mode, keyActs, keyFaults, owned>>

RemovalFails ==
    /\ job.at = "imported" /\ KeyFault
    /\ \E saved, removed \in BOOLEAN :
         /\ ~(saved /\ removed)
         /\ bak' = [bak EXCEPT ![job.slot] = IF mode = "fallback" /\ saved THEN job.lock ELSE @]
         /\ key' = [key EXCEPT ![job.slot] = IF removed THEN Nothing ELSE @]
    /\ job' = NextOf(job.rest)
    /\ UNCHANGED <<cert, default, vault, password, mode, keyActs, owned>>

\* Opening a mail mends a key without the operation to decrypt: patch_key_ops.
PatchOps ==
    /\ vault.current # NoSlot /\ vault.ops = "sign"
    /\ vault' = [vault EXCEPT !.ops = "all"]
    /\ UNCHANGED <<files, password, mode, job, keyActs, keyFaults, owned>>

KeysNext ==
    \/ \E s \in Slot : Store(s) \/ StoreTorn(s) \/ SetDefault(s) \/ DeleteSlot(s) \/ MigrateKey(s)
    \/ \E new \in Lock : ChangePassword(new) \/ ChangeTorn(new)
    \/ ListCerts \/ DeleteAll \/ SetMode \/ KeyRestart \/ MigrateAll
    \/ Imported \/ ImportFails \/ Removed \/ RemovalFails \/ PatchOps

KeysSpec == KeysInit /\ [][KeysNext]_keyVars

(***************************************************************************)
(* What the keys do                                                        *)
(***************************************************************************)

WithKey == {s \in cert : key[s] # Nothing}
WithBak == {s \in cert : bak[s] # Nothing}

\* get_signing_paths with allow_backup: the slot whose certificate and key are taken.
PairSlot ==
    CASE default \in WithKey \cup WithBak -> default
      [] default \notin WithKey \cup WithBak /\ WithKey # {} -> First(WithKey)
      [] OTHER -> First(WithBak)
PairLock == IF PairSlot \in WithKey THEN key[PairSlot] ELSE bak[PairSlot]

\* get_signing_cert_path, which the vault's signature goes with.
CertSlot == IF default \in cert THEN default ELSE First(cert)

Unsigned == [cert |-> NoSlot, key |-> NoSlot]

\* sign: the pair of one slot, if the password opens the file.
SignLocally ==
    IF PairSlot # NoSlot /\ Unlocks(PairLock) THEN [cert |-> PairSlot, key |-> PairSlot]
    ELSE Unsigned

\* sign_smime_keyvault: the vault signs with the current version, whatever slot
\* that came from.
SignByVault == [cert |-> CertSlot, key |-> vault.current]

\* sign_async: a vault that has a key for the mailbox is asked first;
\* a failing one leaves it to the files, in strict mode too.
SignAsync(up) ==
    IF up /\ vault.current # NoSlot /\ cert # {}
    THEN SignByVault
    ELSE SignLocally

(***************************************************************************)
(* Properties                                                              *)
(***************************************************************************)

KeysTypeOK ==
    /\ cert \subseteq Slot /\ default \in Slot \cup {NoSlot} /\ owned \subseteq Slot
    /\ key \in [Slot -> Lock \cup {Nothing}] /\ bak \in [Slot -> Lock \cup {Nothing}]
    /\ vault \in [versions : SUBSET Slot, current : Slot \cup {NoSlot}, ops : {"all", "sign"}]
    /\ password \in Lock /\ mode \in {"fallback", "strict"}
    /\ job.at \in {"idle", "asked", "imported"}
    /\ keyActs \in 0..MaxKeyAct /\ keyFaults \in 0..MaxKeyFault

\* A private key that was stored and not deleted lies in its file, in the copy
\* beside it, or in the vault, whatever fails or crashes between the copying
\* and the removing, and whatever is uploaded, deleted or relocked meanwhile:
\* a lost key makes every mail it was encrypted for unreadable.
NoKeyLost ==
    \A s \in owned : key[s] # Nothing \/ bak[s] # Nothing \/ s \in vault.versions

\* A mailbox whose default certificate has its key beside it signs with that
\* key, as the status of the mailbox says: 'local' signs locally.
LocalKeySigns ==
    default \in WithKey /\ Unlocks(key[default]) =>
        \A up \in BOOLEAN : SignAsync(up) = [cert |-> default, key |-> default]
==================================================================================
