-------------------------------- MODULE MCUpkeep --------------------------------
(* What the gateway and the programs beside it do unasked, by timer or for a *)
(* web request: absences and the answers to them, the settings file, the     *)
(* certificate for TLS and the bypass of the transport rule.  They have      *)
(* nothing of their state in common and each is checked by itself: at the    *)
(* start one of them is chosen, and only its variables move.                 *)
EXTENDS OutOfOffice, AbsenceReplies, SettingsStore, TlsCert, Watchdog

VARIABLE which

mcVars == <<oofVars, replyVars, settingsVars, tlsVars, watchVars, which>>

Init ==
  /\ which \in {"absence", "reply", "settings", "tls", "watchdog"}
  /\ OofInit /\ ReplyInit /\ SettingsInit /\ TlsInit /\ WatchInit
  /\ which # "reply" => public /\ \A s \in ReplySender : sideOf[s] = "inside"

Next ==
  /\ UNCHANGED which
  /\ \/ /\ which = "absence" /\ OofNext
        /\ UNCHANGED <<replyVars, settingsVars, tlsVars, watchVars>>
     \/ /\ which = "reply" /\ ReplyNext
        /\ UNCHANGED <<oofVars, settingsVars, tlsVars, watchVars>>
     \/ /\ which = "settings" /\ SettingsNext
        /\ UNCHANGED <<oofVars, replyVars, tlsVars, watchVars>>
     \/ /\ which = "tls" /\ TlsNext
        /\ UNCHANGED <<oofVars, replyVars, settingsVars, watchVars>>
     \/ /\ which = "watchdog" /\ WatchNext
        /\ UNCHANGED <<oofVars, replyVars, settingsVars, tlsVars>>

\* The timers of the chosen part; the properties of the others are of safety.
Timers ==
  \/ which = "absence" /\ OofFairness
  \/ which = "tls" /\ TlsFairness
  \/ which = "watchdog" /\ WatchFairness
  \/ which \in {"reply", "settings"}

Spec == Init /\ [][Next]_mcVars /\ Timers

(* The type invariants of the five components.                             *)
TypesOK ==
  /\ OofTypeOK /\ ReplyTypeOK /\ SettingsTypeOK /\ TlsTypeOK /\ WatchTypeOK

(* An absence is not turned on again for the window that turned it on last,  *)
(* and no PATCH is sent that changes nothing, except where the store was     *)
(* made to forget; and where the mailboxes are polled, the company's text    *)
(* arrives when people and templates come to rest (poll_alle in              *)
(* abwesenheit.py).                                                          *)
AbsenceKept ==
  /\ [](TurnedOnOnce /\ NoNeedlessPatch)
  /\ which = "absence" => TextArrives

(* A value once confirmed is what the next start reads, but for a power cut  *)
(* and a crash between the two renames; and restored settings take effect    *)
(* only when every other file of the backup is in its place, whatever fails, *)
(* is saved or is restored meanwhile (settings_store.py, backup_manager.py). *)
(* The files of certificate and key fit, but while they are written and      *)
(* after a write that failed, was cut off or mixed with another one          *)
(* (le_certbot.py, main.py).                                                 *)
StoredWhole == SettingsKept /\ RestoreIsWhole /\ PairsFit

(* The bypass of the transport rule ends when the gateway is reachable again *)
(* and the banner in the interface comes to say what the rule says           *)
(* (watchdog.ps1, deps.py).                                                  *)
BypassHandled == BypassEnds /\ BannerTellsTruth
===============================================================================
