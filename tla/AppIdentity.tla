------------------------------- MODULE AppIdentity -------------------------------
(***************************************************************************)
(* How the gateway signs in at Entra (setup_wizard.py, graph_client.py,     *)
(* the setup and pool routes of routen/setup.py).                           *)
(*                                                                          *)
(* The app of the gateway and the apps of its pool each have one            *)
(* certificate registered in Entra; its key is in auth.pfx.  A setup makes  *)
(* a new one, registers it at every app, writes auth.pfx and then takes the *)
(* old client secrets away, where the certificate is proven.  Between any   *)
(* two calls of Graph other requests go on, and Entra takes minutes to      *)
(* accept what was registered.                                              *)
(***************************************************************************)
EXTENDS Integers, Sequences, FiniteSets

CONSTANTS
    SetupRun,      \* completed sign-ins of an administrator, each runs a setup
    PoolAdder,     \* requests for one more app of the pool
    MaxApp,        \* bound on the registrations in Entra
    MaxCert,       \* bound on generated certificates
    MaxSetupFault, \* bound on failing calls of Graph
    MaxSetupStop   \* bound on restarts

\* A gateway that was set up before 1.10.80 may have two apps and a certificate.
ASSUME IdentityAssumption ==
    /\ MaxApp \in Nat \ {0, 1} /\ MaxCert \in Nat \ {0}
    /\ MaxSetupFault \in Nat /\ MaxSetupStop \in Nat

App == 1..MaxApp
Task == SetupRun \cup PoolAdder
Secret == {"used", "older"}     \* every setup before 1.10.80 made one more

VARIABLES
    \* Entra
    called,        \* [App -> the index in its display name], 0: not registered
    registered,    \* [App -> its certificate], 0: none
    accepted,      \* [App -> the certificate tokens are issued for]
    secretsAt,     \* [App -> its client secrets]
    \* the gateway
    pfx,           \* the certificate of auth.pfx, 0: no file
    clientId,      \* CLIENT_ID, 0: none
    pool,          \* APP_POOL
    stored,        \* apps with a secret in the settings
    bridged,       \* apps whose entry in memory was switched to the secret
    certs,         \* certificates generated so far
    task,          \* [Task -> where it is]
    setupFaults, setupStops,
    \* ghosts
    rotationsCrossed,       \* two rotations, or one and a new app of the pool, overlapped
    halfway        \* a rotation or a removal ended halfway, or a key without registration

entra == <<called, registered, accepted, secretsAt>>
gateway == <<pfx, clientId, pool, stored, bridged, certs>>
identityVars == <<entra, gateway, task, setupFaults, setupStops, rotationsCrossed, halfway>>

Idle == [at |-> "idle", app |-> 0, cert |-> 0, todo |-> <<>>]
Elements(seq) == {seq[i] : i \in 1..Len(seq)}
Named(n) == {a \in App : called[a] = n}
FreshApp == CHOOSE a \in App : called[a] = 0 /\ \A b \in App : called[b] = 0 => a <= b
CanRegister == \E a \in App : called[a] = 0

\* A new gateway; or one from before 1.10.80, with secrets, whose certificate
\* is registered at its own app only.
IdentityInit ==
    /\ \/ /\ called = [a \in App |-> 0] /\ registered = called
          /\ secretsAt = [a \in App |-> {}]
          /\ pfx = 0 /\ clientId = 0 /\ pool = <<>> /\ stored = {} /\ certs = 0
       \/ /\ \E pooled \in BOOLEAN :
                /\ called = [a \in App |-> IF a = 1 THEN 1 ELSE IF a = 2 /\ pooled THEN 2 ELSE 0]
                /\ pool = IF pooled THEN <<2>> ELSE <<>>
          /\ registered = [a \in App |-> IF a = 1 THEN 1 ELSE 0]
          /\ secretsAt = [a \in App |-> IF called[a] = 0 THEN {} ELSE Secret]
          /\ pfx = 1 /\ clientId = 1 /\ stored = {1} \cup Elements(pool) /\ certs = 1
    /\ accepted = registered /\ bridged = {}
    /\ task = [t \in Task |-> Idle] /\ setupFaults = 0 /\ setupStops = 0
    /\ rotationsCrossed = FALSE /\ halfway = FALSE

(***************************************************************************)
(* Signing in                                                              *)
(***************************************************************************)

\* _roher_pool: the pool, or the gateway's own app where there is none.
InUse == IF pool # <<>> THEN Elements(pool) ELSE {clientId} \ {0}

CertWorks(a) == pfx # 0 /\ accepted[a] = pfx
SecretWorks(a) == a \in stored /\ "used" \in secretsAt[a]

\* An entry begins with the certificate; once switched to the secret it stays
\* there until the entries are built anew.
SignsIn(a) == IF a \in bridged THEN SecretWorks(a) ELSE CertWorks(a) \/ SecretWorks(a)

\* _acquire_token, app_token_ergebnis: the certificate is refused, and there is
\* a secret.
FallBack(a) ==
    /\ a \in InUse \cap stored /\ a \notin bridged
    /\ pfx # 0 /\ ~CertWorks(a)
    /\ bridged' = bridged \cup {a}
    /\ UNCHANGED <<entra, pfx, clientId, pool, stored, certs, task, setupFaults,
                   setupStops, rotationsCrossed, halfway>>

\* _rebuild_pool_if_needed, with the next token that is asked for: after a
\* change of the settings or of auth.pfx, or reset_msal_app.
BridgedEmptied == bridged' = {}

\* Entra accepts what was registered, after some minutes.
Distributed(a) ==
    /\ accepted[a] # registered[a]
    /\ accepted' = [accepted EXCEPT ![a] = registered[a]]
    /\ UNCHANGED <<called, registered, secretsAt, gateway, task, setupFaults,
                   setupStops, rotationsCrossed, halfway>>

(***************************************************************************)
(* Registering                                                             *)
(***************************************************************************)

To(t, at) == [task EXCEPT ![t].at = at]

\* Between the making of a certificate and the writing of its key,
\* or between the reading of the certificate and the saving of an app with it.
Rotating(t) == task[t].at \in {"upload", "pool", "write", "pool_look", "pool_upload", "append"}

\* Such a span begins.
NotesCrossing(t) == rotationsCrossed' = (rotationsCrossed \/ \E u \in Task \ {t} : Rotating(u))

\* _upload_key_credential: the list of keys is replaced.
RegisterApp(a, c) ==
    /\ registered' = [registered EXCEPT ![a] = c]
    /\ UNCHANGED <<called, accepted, secretsAt>>

\* create_app_registration: is there an app of this name?
LookForApp(t) ==
    /\ task[t] = Idle
    /\ \E a \in IF Named(1) = {} THEN {0} ELSE Named(1) :
          task' = [task EXCEPT ![t] = [Idle EXCEPT !.at = "create", !.app = a]]
    /\ UNCHANGED <<entra, gateway, setupFaults, setupStops, rotationsCrossed, halfway>>

CreateApp(t) ==
    /\ task[t].at = "create"
    /\ \/ task[t].app # 0 /\ task' = To(t, "adopt") /\ UNCHANGED called
       \/ /\ task[t].app = 0 /\ CanRegister
          /\ called' = [called EXCEPT ![FreshApp] = 1]
          /\ task' = [task EXCEPT ![t] = [@ EXCEPT !.at = "adopt", !.app = FreshApp]]
    /\ UNCHANGED <<registered, accepted, secretsAt, gateway, setupFaults, setupStops,
                   rotationsCrossed, halfway>>

\* run_post_auth_setup goes on with CLIENT_ID and a new certificate.
Adopt(t) ==
    /\ task[t].at = "adopt" /\ certs < MaxCert
    /\ clientId' = task[t].app /\ certs' = certs + 1 /\ BridgedEmptied
    /\ task' = [task EXCEPT ![t] = [@ EXCEPT !.at = "upload", !.cert = certs + 1]]
    /\ NotesCrossing(t)
    /\ UNCHANGED <<entra, pfx, pool, stored, setupFaults, setupStops, halfway>>

\* The apps that are left to do.
Uploads(r, apps) == [r EXCEPT !.at = IF apps = <<>> THEN "write" ELSE "pool", !.todo = apps]

\* At the gateway's own app, then at those APP_POOL names now.
Upload(t) ==
    /\ task[t].at = "upload" /\ RegisterApp(task[t].app, task[t].cert)
    /\ task' = [task EXCEPT ![t] = Uploads(task[t], pool)]
    /\ UNCHANGED <<gateway, setupFaults, setupStops, rotationsCrossed, halfway>>

UploadNext(t) ==
    /\ task[t].at = "pool" /\ RegisterApp(Head(task[t].todo), task[t].cert)
    /\ task' = [task EXCEPT ![t] = Uploads(task[t], Tail(task[t].todo))]
    /\ UNCHANGED <<gateway, setupFaults, setupStops, rotationsCrossed, halfway>>

\* _write_auth_pfx; then secrets_abbauen begins, for the apps named now.
WritePfx(t) ==
    /\ task[t].at = "write" /\ pfx' = task[t].cert /\ BridgedEmptied
    /\ task' = [task EXCEPT ![t] = [@ EXCEPT !.at = "prove", !.todo = <<clientId>> \o pool]]
    /\ UNCHANGED <<entra, clientId, pool, stored, certs, setupFaults, setupStops,
                   rotationsCrossed, halfway>>

\* What a setup that stops leaves: a certificate whose key is nowhere, an app
\* taken over without the certificate, or secrets that are not all there.
LeavesHalf(t) ==
    \/ task[t].at \in {"pool", "write"}
    \/ task[t].at = "upload" /\ (pfx = 0 \/ registered[task[t].app] # pfx)
    \/ task[t].at = "remove" /\ secretsAt[Head(task[t].todo)] # Secret

SetupFails(t) ==
    /\ task[t].at \in {"create", "upload", "pool", "pool_look", "pool_upload"}
    /\ setupFaults < MaxSetupFault /\ setupFaults' = setupFaults + 1
    /\ halfway' = (halfway \/ LeavesHalf(t))
    /\ task' = [task EXCEPT ![t] = Idle]
    /\ UNCHANGED <<entra, gateway, setupStops, rotationsCrossed>>

(***************************************************************************)
(* secrets_abbauen                                                         *)
(***************************************************************************)

NextToProve(r) == IF Len(r.todo) <= 1 THEN Idle
                  ELSE [r EXCEPT !.at = "prove", !.todo = Tail(@)]
NextApp(t) == task' = [task EXCEPT ![t] = NextToProve(@)]

\* Mutant: the secrets go without waiting for the certificate.
RemoveUnproven(t) ==
    /\ task[t].at = "prove" /\ task' = To(t, "remove")
    /\ UNCHANGED <<entra, gateway, setupFaults, setupStops, rotationsCrossed, halfway>>

\* _zert_token_klappt, every half minute ...
Prove(t) ==
    /\ task[t].at = "prove" /\ CertWorks(Head(task[t].todo)) /\ task' = To(t, "remove")
    /\ UNCHANGED <<entra, gateway, setupFaults, setupStops, rotationsCrossed, halfway>>

\* ... for a quarter of an hour.
GiveUp(t) ==
    /\ task[t].at = "prove" /\ ~CertWorks(Head(task[t].todo)) /\ NextApp(t)
    /\ UNCHANGED <<entra, gateway, setupFaults, setupStops, rotationsCrossed, halfway>>

RemoveSecret(t) ==
    /\ task[t].at = "remove"
    /\ LET a == Head(task[t].todo)
       IN  \E s \in secretsAt[a] : secretsAt' = [secretsAt EXCEPT ![a] = @ \ {s}]
    /\ UNCHANGED <<called, registered, accepted, gateway, task, setupFaults,
                   setupStops, rotationsCrossed, halfway>>

\* _secret_aus_einstellungen, once all are gone.
ForgetSecret(t) ==
    /\ task[t].at = "remove" /\ secretsAt[Head(task[t].todo)] = {}
    /\ stored' = stored \ {Head(task[t].todo)} /\ BridgedEmptied /\ NextApp(t)
    /\ UNCHANGED <<entra, pfx, clientId, pool, certs, setupFaults, setupStops, rotationsCrossed,
                   halfway>>

SecretRemovalFails(t) ==
    /\ task[t].at = "remove"
    /\ setupFaults < MaxSetupFault /\ setupFaults' = setupFaults + 1
    /\ halfway' = (halfway \/ LeavesHalf(t))
    /\ NextApp(t)
    /\ UNCHANGED <<entra, gateway, setupStops, rotationsCrossed>>

(***************************************************************************)
(* One more app of the pool                                                *)
(***************************************************************************)

\* api_app_pool_add(_from_url), create_pool_app: list and certificate are read ...
BeginPoolApp(t) ==
    /\ task[t] = Idle /\ pfx # 0
    /\ task' = [task EXCEPT ![t] = [at |-> "pool_look", app |-> 0, cert |-> pfx,
                                    todo |-> pool]]
    /\ NotesCrossing(t)
    /\ UNCHANGED <<entra, gateway, setupFaults, setupStops, halfway>>

\* ... the app of the next index is found or made ...
CreatePoolApp(t) ==
    /\ task[t].at = "pool_look"
    /\ LET n == Len(task[t].todo) + 2
       IN  \/ \E a \in Named(n) :
                 /\ task' = [task EXCEPT ![t] = [@ EXCEPT !.at = "pool_upload", !.app = a]]
                 /\ UNCHANGED called
           \/ /\ Named(n) = {} /\ CanRegister
              /\ called' = [called EXCEPT ![FreshApp] = n]
              /\ task' = [task EXCEPT ![t] = [@ EXCEPT !.at = "pool_upload", !.app = FreshApp]]
    /\ UNCHANGED <<registered, accepted, secretsAt, gateway, setupFaults, setupStops,
                   rotationsCrossed, halfway>>

UploadPoolApp(t) ==
    /\ task[t].at = "pool_upload" /\ RegisterApp(task[t].app, task[t].cert)
    /\ task' = To(t, "append")
    /\ UNCHANGED <<gateway, setupFaults, setupStops, rotationsCrossed, halfway>>

\* ... and the list as it was read is written with it.
AppendPoolApp(t) ==
    /\ task[t].at = "append" /\ pool' = Append(task[t].todo, task[t].app) /\ BridgedEmptied
    /\ task' = [task EXCEPT ![t] = Idle]
    /\ UNCHANGED <<entra, pfx, clientId, stored, certs, setupFaults, setupStops, rotationsCrossed,
                   halfway>>

\* api_gen_auth_cert: only where there is none; the administrator has to
\* register it by hand.
GenerateByHand ==
    /\ pfx = 0 /\ certs < MaxCert /\ certs' = certs + 1 /\ pfx' = certs + 1 /\ BridgedEmptied
    /\ halfway' = TRUE
    /\ UNCHANGED <<entra, clientId, pool, stored, task, setupFaults, setupStops, rotationsCrossed>>

SetupRestart ==
    /\ setupStops < MaxSetupStop /\ setupStops' = setupStops + 1
    /\ halfway' = (halfway \/ \E t \in Task : LeavesHalf(t))
    /\ task' = [t \in Task |-> Idle] /\ BridgedEmptied
    /\ UNCHANGED <<entra, pfx, clientId, pool, stored, certs, setupFaults, rotationsCrossed>>

IdentityNext ==
    \/ \E a \in App : FallBack(a) \/ Distributed(a)
    \/ \E t \in SetupRun :
          \/ LookForApp(t) \/ CreateApp(t) \/ Adopt(t) \/ Upload(t) \/ UploadNext(t)
          \/ WritePfx(t) \/ Prove(t) \/ GiveUp(t) \/ RemoveSecret(t) \/ ForgetSecret(t)
          \/ SecretRemovalFails(t)
    \/ \E t \in PoolAdder :
          BeginPoolApp(t) \/ CreatePoolApp(t) \/ UploadPoolApp(t) \/ AppendPoolApp(t)
    \/ \E t \in Task : SetupFails(t)
    \/ GenerateByHand \/ SetupRestart

(***************************************************************************)
(* Properties                                                              *)
(***************************************************************************)

IdentityTypeOK ==
    /\ called \in [App -> 0..(MaxApp + 1)]
    /\ registered \in [App -> 0..MaxCert] /\ accepted \in [App -> 0..MaxCert]
    /\ secretsAt \in [App -> SUBSET Secret]
    /\ pfx \in 0..MaxCert /\ certs \in 0..MaxCert /\ clientId \in 0..MaxApp
    /\ pool \in Seq(App) /\ stored \subseteq App /\ bridged \subseteq stored
    /\ \A t \in Task : task[t].cert \in 0..MaxCert /\ task[t].app \in 0..MaxApp

\* "sonst stünde das Gateway ohne Graph da" (secrets_abbauen): when nothing is
\* under way, each app in use whose certificate Entra has distributed can sign
\* in, whatever was removed, retried, bridged or restarted; and secrets are
\* being taken from an app only while its certificate works, if no later setup
\* put its own in between.  Only a rotation or a removal that ended halfway, and
\* two rotations that crossed, may leave an app out.
GraphStaysReachable ==
    \/ rotationsCrossed \/ halfway
    \/ /\ (\A t \in Task : ~Rotating(t) /\ task[t].at # "remove")
             => \A a \in InUse : accepted[a] = registered[a] => SignsIn(a)
       /\ \A t \in Task :
             /\ task[t].at = "remove" /\ task[t].cert = pfx
             /\ \A u \in Task : ~Rotating(u)
             => CertWorks(Head(task[t].todo))
===============================================================================
