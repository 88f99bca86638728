------------------------------- MODULE Watchdog -------------------------------
(***************************************************************************)
(* The bypass watchers (contrib/watchdog, waechter_*.py): programs outside *)
(* the gateway that ask for its health every few minutes, turn the         *)
(* transport rule off while it does not answer, so that mail goes on       *)
(* unsigned, and on again afterwards.                                      *)
(*                                                                         *)
(* Nothing coordinates them, with each other or with the gateway's set-up, *)
(* which turns the same rule on with the first active mailbox and off with *)
(* the last.  The gateway warns of a bypass on two grounds: what a watcher *)
(* reported last, and its own look at the rule once a day.                 *)
(***************************************************************************)
EXTENDS Naturals

CONSTANTS Watcher,      \* watchers
          MaxOutage,    \* bound on times the gateway cannot be reached
          MaxSetup,     \* bound on set-ups and changes of the register
          MaxDeath      \* bound on watchers that stop

ASSUME WatchAssumption ==
    MaxOutage \in Nat /\ MaxSetup \in Nat /\ MaxDeath \in Nat

RuleState == {"", "Enabled", "Disabled"}

VARIABLES
    reachable,      \* /health answers, and so would the heartbeat's route
    rule,           \* the transport rule in Exchange
    mailboxes,      \* a mailbox is active, so mail is to be signed
    setup,          \* a set-up has switched the rule and not said so yet
    looked,         \* what the daily check has read and not noted yet
    ruleState,      \* rule_state of watchdog_state.json
    armed,          \* WATCHDOG_ENABLED
    register,       \* watchers in the register
    bypass,         \* of those, the ones with bypass_active
    alive,          \* watchers that run
    watch,          \* [Watcher -> [at, healthy, saw, tells]]
    outages, setups, deaths

watchVars == <<reachable, rule, mailboxes, setup, looked, ruleState, armed, register,
               bypass, alive, watch, outages, setups, deaths>>

watchBounds == <<outages, setups, deaths>>
watchGateway == <<setup, looked, ruleState, armed, register, bypass>>

Resting == [at |-> "rest", healthy |-> TRUE, saw |-> "", tells |-> FALSE]

\* After the set-up of the first watcher.
WatchInit ==
    /\ reachable = TRUE /\ rule = "Enabled" /\ mailboxes = TRUE
    /\ setup = FALSE /\ looked = "" /\ ruleState = "" /\ armed = TRUE
    /\ register = Watcher /\ bypass = {} /\ alive = Watcher
    /\ watch = [w \in Watcher |-> Resting]
    /\ outages = 0 /\ setups = 0 /\ deaths = 0

(***************************************************************************)
(* The world                                                               *)
(***************************************************************************)

GatewayFails ==
    /\ reachable /\ outages < MaxOutage
    /\ reachable' = FALSE /\ outages' = outages + 1
    /\ UNCHANGED <<rule, mailboxes, watchGateway, alive, watch, setups, deaths>>

GatewayBack ==
    /\ ~reachable /\ reachable' = TRUE
    /\ UNCHANGED <<rule, mailboxes, watchGateway, alive, watch, watchBounds>>

WatcherDies(w) ==
    /\ w \in alive /\ deaths < MaxDeath
    /\ alive' = alive \ {w} /\ deaths' = deaths + 1
    /\ watch' = [watch EXCEPT ![w] = Resting]
    /\ UNCHANGED <<reachable, rule, mailboxes, watchGateway, outages, setups>>

(***************************************************************************)
(* A watcher's run                                                         *)
(***************************************************************************)

\* Test-GatewayHealthy: one answer is enough.
Judge(w) ==
    /\ w \in alive /\ watch[w].at = "rest"
    /\ watch' = [watch EXCEPT ![w] = [Resting EXCEPT !.at = "judged",
                                                     !.healthy = reachable]]
    /\ UNCHANGED <<reachable, rule, mailboxes, watchGateway, alive, watchBounds>>

ReadRule(w) ==
    /\ w \in alive /\ watch[w].at = "judged"
    /\ watch' = [watch EXCEPT ![w] = [@ EXCEPT !.at = "read", !.saw = rule]]
    /\ UNCHANGED <<reachable, rule, mailboxes, watchGateway, alive, watchBounds>>

\* Exchange does not answer: the heartbeat says that there is no bypass.
ExchangeFails(w) ==
    /\ w \in alive /\ watch[w].at \in {"judged", "read"}
    /\ watch' = [watch EXCEPT ![w] = [@ EXCEPT !.at = "tell", !.tells = FALSE]]
    /\ UNCHANGED <<reachable, rule, mailboxes, watchGateway, alive, watchBounds>>

\* Mutant: the rule is turned on only by the watcher that turned it off.
OnlyOwnBypass(w) ==
    CASE ~watch[w].healthy /\ watch[w].saw = "Enabled" -> "Disabled"
      [] watch[w].healthy /\ w \in bypass -> "Enabled"
      [] OTHER -> rule

\* What the cmdlet leaves behind: it goes by what was read.
Switched(w) ==
    CASE ~watch[w].healthy /\ watch[w].saw = "Enabled" -> "Disabled"
      [] watch[w].healthy /\ watch[w].saw = "Disabled" -> "Enabled"
      [] OTHER -> rule

Act(w) ==
    /\ w \in alive /\ watch[w].at = "read"
    /\ rule' = Switched(w)
    /\ watch' = [watch EXCEPT ![w] = [@ EXCEPT !.at = "tell",
                                            !.tells = ~watch[w].healthy]]
    /\ UNCHANGED <<reachable, mailboxes, watchGateway, alive, watchBounds>>

\* Mutant: the route does not look the watcher up.
AnyHeartbeat(w) ==
    /\ w \in alive /\ watch[w].at = "tell"
    /\ bypass' = IF ~reachable THEN bypass
                 ELSE IF watch[w].tells THEN bypass \cup {w} ELSE bypass \ {w}
    /\ watch' = [watch EXCEPT ![w] = Resting]
    /\ UNCHANGED <<reachable, rule, mailboxes, setup, looked, ruleState, armed,
                   register, alive, watchBounds>>

\* Send-Heartbeat, watchdog_heartbeat: lost while the gateway cannot be
\* reached, refused after a removal.
Heartbeat(w) ==
    /\ w \in alive /\ watch[w].at = "tell"
    /\ bypass' = IF ~reachable \/ w \notin register THEN bypass
                 ELSE IF watch[w].tells THEN bypass \cup {w} ELSE bypass \ {w}
    /\ watch' = [watch EXCEPT ![w] = Resting]
    /\ UNCHANGED <<reachable, rule, mailboxes, setup, looked, ruleState, armed,
                   register, alive, watchBounds>>

(***************************************************************************)
(* The gateway                                                             *)
(***************************************************************************)

\* run_exo_connector_setup and its like: the script switches the rule ...
SetupSwitches ==
    /\ ~setup /\ setups < MaxSetup
    /\ mailboxes' \in BOOLEAN
    /\ rule' = IF mailboxes' THEN "Enabled" ELSE "Disabled"
    /\ setup' = TRUE /\ setups' = setups + 1
    /\ UNCHANGED <<reachable, looked, ruleState, armed, register, bypass, alive, watch,
                   outages, deaths>>

\* ... then regel_umgeschaltet forgets what was known.
SetupForgets ==
    /\ setup /\ setup' = FALSE /\ ruleState' = ""
    /\ UNCHANGED <<reachable, rule, mailboxes, looked, armed, register, bypass, alive,
                   watch, watchBounds>>

\* pruefe_und_merke, regel_lesen: by the daily run if armed, or for the banner's
\* button; what was read is noted later.
CheckReads ==
    /\ looked = "" /\ looked' = rule
    /\ UNCHANGED <<reachable, rule, mailboxes, setup, ruleState, armed, register,
                   bypass, alive, watch, watchBounds>>

CheckNotes ==
    /\ looked # "" /\ ruleState' = looked /\ looked' = ""
    /\ UNCHANGED <<reachable, rule, mailboxes, setup, armed, register, bypass, alive,
                   watch, watchBounds>>

\* watchdog_config: needs a watcher to arm.
SwitchArmed ==
    /\ setups < MaxSetup /\ setups' = setups + 1
    /\ ~armed => register # {}
    /\ armed' = ~armed
    /\ UNCHANGED <<reachable, rule, mailboxes, setup, looked, ruleState, register,
                   bypass, alive, watch, outages, deaths>>

\* watchdog_remove: a watcher on a host of its own goes on running.
RemoveWatcher(w) ==
    /\ w \in register /\ setups < MaxSetup /\ setups' = setups + 1
    /\ register' = register \ {w} /\ bypass' = bypass \ {w}
    /\ alive' \in {alive, alive \ {w}}
    /\ watch' = IF w \in alive' THEN watch ELSE [watch EXCEPT ![w] = Resting]
    /\ UNCHANGED <<reachable, rule, mailboxes, setup, looked, ruleState, armed,
                   outages, deaths>>

\* _bypass_gemeldet
\* Mutant: only what the watchers report.
BannerByWatchers == bypass # {}

Banner == (armed /\ ruleState = "Disabled") \/ bypass # {}

WatchNext ==
    \/ GatewayFails \/ GatewayBack
    \/ \E w \in Watcher :
          \/ WatcherDies(w) \/ RemoveWatcher(w)
          \/ Judge(w) \/ ReadRule(w) \/ ExchangeFails(w) \/ Act(w) \/ Heartbeat(w)
    \/ SetupSwitches \/ SetupForgets \/ CheckReads \/ CheckNotes \/ SwitchArmed

WatchSpec == WatchInit /\ [][WatchNext]_watchVars

\* The timers of the watchers and of the daily check; an outage ends, and
\* Exchange is not out of reach for ever.
WatchFairness ==
    /\ WF_watchVars(GatewayBack) /\ WF_watchVars(SetupForgets)
    /\ WF_watchVars(armed /\ CheckReads) /\ WF_watchVars(CheckNotes)
    /\ \A w \in Watcher :
          /\ WF_watchVars(Judge(w)) /\ SF_watchVars(ReadRule(w))
          /\ SF_watchVars(Act(w)) /\ WF_watchVars(Heartbeat(w))

(***************************************************************************)
(* Properties                                                              *)
(***************************************************************************)

WatchTypeOK ==
    /\ reachable \in BOOLEAN /\ mailboxes \in BOOLEAN
    /\ rule \in {"Enabled", "Disabled"}
    /\ setup \in BOOLEAN /\ looked \in RuleState /\ ruleState \in RuleState
    /\ armed \in BOOLEAN /\ register \subseteq Watcher
    /\ bypass \subseteq register /\ alive \subseteq Watcher
    /\ watch \in [Watcher -> [at : {"rest", "judged", "read", "tell"},
                              healthy : BOOLEAN, saw : RuleState, tells : BOOLEAN]]
    /\ outages \in 0..MaxOutage /\ setups \in 0..MaxSetup
    /\ deaths \in 0..MaxDeath

\* However outages, late and failing watchers and set-ups fell together, one
\* watcher that runs is enough for the bypass to end.
BypassEnds == <>[](alive # {} /\ mailboxes => rule = "Enabled")

\* In an armed gateway the banner tells of a rule that stays off, when every
\* watcher is dead as well, and of nothing else, as long as the watchers that
\* reported last still run.
BannerTellsTruth ==
    <>[](armed => /\ rule = "Disabled" => Banner
                  /\ Banner /\ bypass \subseteq alive => rule = "Disabled")
===============================================================================
