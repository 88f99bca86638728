--------------------------------- MODULE SignIns ---------------------------------
(***************************************************************************)
(* Sign-ins at Microsoft that are begun here and come back (pkce.py,        *)
(* routen/anmeldung.py, the addresses pasted in routen/setup.py).           *)
(*                                                                          *)
(* A sign-in is begun for one of several purposes and remembered in memory, *)
(* for half an hour at most.  Its answer comes back through the browser, or *)
(* as an address somebody pastes, into one of four fields.                  *)
(***************************************************************************)
EXTENDS Integers, FiniteSets

CONSTANTS
    SignInId,      \* sign-ins, by their state
    MaxAge,        \* _SESSION_TTL
    MaxSignInStop  \* bound on restarts

ASSUME SignInAssumption == MaxAge \in Nat /\ MaxSignInStop \in Nat

Purpose == {"setup", "permissions", "watchdog", "redirect", "azure", "login"}
Effect == Purpose \cup {"pool"}

VARIABLES
    kept,          \* [SignInId -> its purpose], in _sessions
    age,           \* [SignInId -> its age there]
    begun,         \* [SignInId -> what it was begun for]
    answer,        \* [SignInId -> what Microsoft sent back], the browser keeps it
    exchanging,    \* <<sign-in, effect>>: its code is being exchanged
    spent,         \* codes Microsoft has taken
    effects,       \* <<sign-in, effect>>: what came of it
    signInStops

signInVars == <<kept, age, begun, answer, exchanging, spent, effects, signInStops>>

SignInInit ==
    /\ kept = [s \in SignInId |-> "none"] /\ age = [s \in SignInId |-> 0]
    /\ begun = kept /\ answer = kept
    /\ exchanging = {} /\ spent = {} /\ effects = {} /\ signInStops = 0

\* _prune_sessions, with every sign-in that is begun or comes back.
Kept(s) == kept[s] # "none" /\ age[s] <= MaxAge
Pruned == [s \in SignInId |-> IF Kept(s) THEN kept[s] ELSE "none"]

\* create_session; create_implicit_session for a login.
BeginSignIn(s, purpose) ==
    /\ begun[s] = "none" /\ begun' = [begun EXCEPT ![s] = purpose]
    /\ kept' = [Pruned EXCEPT ![s] = purpose] /\ age' = [age EXCEPT ![s] = 0]
    /\ UNCHANGED <<answer, exchanging, spent, effects, signInStops>>

MicrosoftAnswers(s) ==
    /\ begun[s] # "none" /\ answer[s] = "none"
    /\ \E a \in {"code", "refused"} : answer' = [answer EXCEPT ![s] = a]
    /\ UNCHANGED <<kept, age, begun, exchanging, spent, effects, signInStops>>

\* pop_session: whatever comes of it, it is used up.
Pop(s) == kept' = [Pruned EXCEPT ![s] = "none"]

Exchange(s, effect) ==
    exchanging' = IF effect = "nothing" THEN exchanging ELSE exchanging \cup {<<s, effect>>}

ComesBack(s, effect) ==
    /\ answer[s] # "none" /\ Pop(s)
    /\ Exchange(s, IF Kept(s) /\ answer[s] = "code" THEN effect ELSE "nothing")
    /\ UNCHANGED <<age, begun, answer, spent, effects, signInStops>>

\* auth_callback and auth_callback_implicit: as it was begun.  (Nothing begins
\* the login by code any more.)
Callback(s) == ComesBack(s, kept[s])

\* Mutant: whatever address is pasted completes the setup.
PasteSetsUp(s) == answer[s] = "code" /\ ComesBack(s, "setup")

\* api_auth_paste: logins and Azure tokens do not belong here.
Paste(s) ==
    /\ answer[s] = "code"
    /\ ComesBack(s, IF kept[s] \in {"login", "azure"} THEN "nothing" ELSE kept[s])

\* api_keyvault_arm_paste.
PasteAzure(s) ==
    /\ answer[s] = "code"
    /\ ComesBack(s, IF kept[s] = "azure" THEN "azure" ELSE "nothing")

\* Any code is taken for another app of the pool, or for a login; an implicit
\* login has no verifier to exchange one with.
Elsewhere(s, effect) ==
    answer[s] = "code" /\ ComesBack(s, IF kept[s] = "login" THEN "nothing" ELSE effect)

\* api_app_pool_add_from_url.
PastePool(s) == Elsewhere(s, "pool")

\* api_sso_paste.
PasteLogin(s) == Elsewhere(s, "login")

\* exchange_code and what follows, nachlauf or the session.  Microsoft takes a
\* code once; a login brings its token along and is verified.
Completed(s, effect) ==
    /\ <<s, effect>> \in exchanging /\ exchanging' = exchanging \ {<<s, effect>>}
    /\ spent' = spent \cup {s}
    /\ \/ s \notin spent /\ effects' = effects \cup {<<s, effect>>}
       \/ UNCHANGED effects              \* refused, unverified or failed
    /\ UNCHANGED <<kept, age, begun, answer, signInStops>>

SignInTick ==
    /\ \E s \in SignInId : kept[s] # "none" /\ age[s] <= MaxAge
    /\ age' = [s \in SignInId |-> IF kept[s] # "none" /\ age[s] <= MaxAge THEN age[s] + 1 ELSE age[s]]
    /\ UNCHANGED <<kept, begun, answer, exchanging, spent, effects, signInStops>>

SignInRestart ==
    /\ signInStops < MaxSignInStop /\ signInStops' = signInStops + 1
    /\ kept' = [s \in SignInId |-> "none"] /\ exchanging' = {}
    /\ UNCHANGED <<age, begun, answer, spent, effects>>

SignInNext ==
    \/ \E s \in SignInId :
          \/ \E purpose \in Purpose : BeginSignIn(s, purpose)
          \/ MicrosoftAnswers(s) \/ Callback(s) \/ Paste(s) \/ PasteAzure(s)
          \/ PastePool(s) \/ PasteLogin(s)
          \/ \E effect \in Effect : Completed(s, effect)
    \/ SignInTick \/ SignInRestart

(***************************************************************************)
(* Properties                                                              *)
(***************************************************************************)

SignInTypeOK ==
    /\ kept \in [SignInId -> Purpose \cup {"none"}]
    /\ age \in [SignInId -> 0..(MaxAge + 1)]
    /\ begun \in [SignInId -> Purpose \cup {"none"}]
    /\ answer \in [SignInId -> {"none", "code", "refused"}]
    /\ exchanging \subseteq SignInId \X Effect /\ effects \subseteq SignInId \X Effect
    /\ spent \subseteq SignInId /\ signInStops \in 0..MaxSignInStop

\* "Der Ablauf entscheidet die Wirkung" (routen/setup.py): whichever way the
\* answer of a sign-in comes back, late, after another one or after a restart,
\* at most one thing comes of it, and in the tenant nothing else than what it
\* was begun for.  The pool and the login take the code of any purpose.
EffectAsBegun ==
    \A x \in effects :
        /\ x[2] \in {begun[x[1]], "pool", "login"}
        /\ \A y \in effects : x[1] = y[1] => x = y
===============================================================================
