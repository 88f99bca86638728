------------------------------- MODULE RelayAccess -------------------------------
(***************************************************************************)
(* Who may hand mail to the gateway: the list of devices and its learning  *)
(* mode, the sending identities of the submission port and the allowlist   *)
(* of Exchange Online (app/smtp_relay.py, app/relay_hosts.py,              *)
(* app/sende_identitaeten.py, app/smtp_acl.py, the head of                 *)
(* handler.handle_DATA, app/webui/routen/relay.py).                        *)
(*                                                                         *)
(* handle_DATA runs in the SMTP thread, the pages in the web thread; they  *)
(* meet in relay_hosts.db, one transaction at a time, and in the settings. *)
(***************************************************************************)
EXTENDS Naturals

CONSTANTS
  Device,        \* addresses that connect
  Exchange,      \* those of them in Microsoft's ranges
  InRange,       \* those in the networks the learning mode covers
  Identity,      \* logins of sending identities
  Link,          \* SMTP sessions
  NoEntry,       \* no entry
  MaxLearn,      \* MAX_LERNDAUER_MIN
  FarAway,       \* a deadline a restored or edited file may hold
  MaxTime,       \* bound on time
  MaxAccessChanges \* bound on what the administrator does

ASSUME AccessAssumption ==
  /\ Exchange \subseteq Device /\ InRange \subseteq Device
  /\ {MaxLearn, FarAway, MaxTime, MaxAccessChanges} \subseteq Nat
  /\ 1 <= MaxLearn /\ MaxLearn <= FarAway
  /\ NoEntry \notin Device
  /\ NoEntry \notin [extern : BOOLEAN, gesperrt : BOOLEAN, gelernt : BOOLEAN]

VARIABLES
  relayOn,       \* SMTP_RELAY_ENABLED
  smarthost,     \* REINJECT_MODE is smtp
  knowsBoxes,    \* exo_mailboxes.known_addresses() is not empty
  rangesKnown,   \* smtp_acl has Microsoft's list
  learnUntil,    \* SMTP_RELAY_LERN_BIS, 0 when empty
  learnExtern,   \* SMTP_RELAY_EXTERN_VORGABE
  hosts,         \* relay_hosts: [Device -> NoEntry or [extern, gesperrt, gelernt]]
  counted,       \* devices with rows in the table tage
  refused,       \* devices in the table abgewiesen
  ids,           \* sende_identitaeten._cache: [Identity -> NoEntry or [aktiv, extern]]
  link,          \* [Link -> [at, device, ident, outside, extern]]
  disturbed,     \* history: links whose device the administrator touched during DATA
  minute,        \* time, in minutes
  accessChanges  \* history: steps of the administrator

accessVars == <<relayOn, smarthost, knowsBoxes, rangesKnown, learnUntil, learnExtern,
                hosts, counted, refused, ids, link, disturbed, minute,
                accessChanges>>
settings == <<relayOn, smarthost, learnUntil, learnExtern>>
lists == <<knowsBoxes, rangesKnown>>
devices == <<hosts, counted, refused>>

NoLink == [at |-> "closed", device |-> NoEntry, ident |-> NoEntry, outside |-> FALSE,
           extern |-> FALSE]
Entry(extern, blocked, learned) ==
  [extern |-> extern, gesperrt |-> blocked, gelernt |-> learned]

(* lernmodus_bis: expires by being read; a deadline further away than      *)
(* MaxLearn is taken for one that ends MaxLearn from now.                  *)
Learning == minute < learnUntil

InLearningRange(d) == d \in InRange   \* _im_lernbereich, _lernbereiche

(* Mutant: the loop the comment warns of, a block that does not return.    *)
LearningBeatsBlock(d) ==
  /\ relayOn
  /\ (hosts[d] # NoEntry /\ ~hosts[d].gesperrt) \/ (Learning /\ InLearningRange(d))

(* ist_relay_quelle: a blocked entry beats the learning mode.              *)
RelaySource(d) ==
  /\ relayOn
  /\ IF hosts[d] # NoEntry THEN ~hosts[d].gesperrt ELSE Learning /\ InLearningRange(d)

(* is_allowed: without a list everybody.                                   *)
Allowed(d) == ~rangesKnown \/ d \in Exchange

(* sende_identitaeten.pruefe, with the identity as it was at the login;    *)
(* pin and domain of the sender fit.                                       *)
IdentityMay(l, outside) == knowsBoxes /\ (outside => link[l].extern)

-----------------------------------------------------------------------------
AccessInit ==
  /\ relayOn = FALSE /\ smarthost = TRUE /\ knowsBoxes = FALSE /\ rangesKnown = FALSE
  /\ learnUntil = 0 /\ learnExtern = FALSE
  /\ hosts = [d \in Device |-> NoEntry] /\ counted = {} /\ refused = {}
  /\ ids = [i \in Identity |-> NoEntry]
  /\ link = [l \in Link |-> NoLink] /\ disturbed = {}
  /\ minute = 0 /\ accessChanges = 0

Busy(d) == {l \in Link : link[l].device = d /\ link[l].at \in {"source", "learn", "count"}}
Admin == accessChanges < MaxAccessChanges /\ accessChanges' = accessChanges + 1

(* The settings page and the switches of the relay page.                   *)
SaveAccessSettings ==
  /\ Admin
  /\ \/ relayOn' = ~relayOn /\ UNCHANGED smarthost
     \/ smarthost' = ~smarthost /\ UNCHANGED relayOn
  /\ disturbed' = Link
  /\ UNCHANGED <<learnUntil, learnExtern, lists, devices, ids, link, minute>>

(* api_relay_lernmodus; a restored or edited file may name any deadline.   *)
StartLearning(minutes, extern) ==
  /\ Admin
  /\ learnUntil' = minute + minutes /\ learnExtern' = extern
  /\ disturbed' = Link
  /\ UNCHANGED <<relayOn, smarthost, lists, devices, ids, link, minute>>

StopLearning ==
  /\ Admin /\ learnUntil' = 0 /\ disturbed' = Link
  /\ UNCHANGED <<relayOn, smarthost, learnExtern, lists, devices, ids, link,
                 minute>>

(* relay_hosts.speichern: an entry is made or changed; a new one of        *)
(* api_relay_geraet also leaves the list of the refused.                   *)
SaveDevice(d, extern, blocked) ==
  /\ Admin
  /\ hosts' = [hosts EXCEPT ![d] = Entry(extern, blocked,
                                         IF @ = NoEntry THEN FALSE ELSE @.gelernt)]
  /\ refused' = refused \ {d}
  /\ disturbed' = disturbed \cup Busy(d)
  /\ UNCHANGED <<settings, lists, counted, ids, link, minute>>

(* entfernen: the device and its counters.                                 *)
RemoveDevice(d) ==
  /\ Admin
  /\ hosts' = [hosts EXCEPT ![d] = NoEntry] /\ counted' = counted \ {d}
  /\ disturbed' = disturbed \cup Busy(d)
  /\ UNCHANGED <<settings, lists, refused, ids, link, minute>>

(* namen_nachtragen fills in the name of a device that has none, through   *)
(* speichern: one that was removed since it was listed would come back.    *)
(* It runs inside a handler of the web thread, which removes devices too,  *)
(* and so finds them all.                                                  *)
FillInNames ==
  /\ hosts' = [d \in Device |-> IF hosts[d] # NoEntry THEN hosts[d] ELSE NoEntry]
  /\ UNCHANGED <<settings, lists, counted, refused, ids, link, disturbed, minute,
                 accessChanges>>

ClearRefused ==
  /\ Admin /\ refused' = {}
  /\ UNCHANGED <<settings, lists, hosts, counted, ids, link, disturbed, minute>>

(* anlegen, aktualisieren, entfernen of an identity.                       *)
CreateIdentity(i, extern) ==
  /\ Admin /\ ids[i] = NoEntry
  /\ ids' = [ids EXCEPT ![i] = [aktiv |-> TRUE, extern |-> extern]]
  /\ UNCHANGED <<settings, lists, devices, link, disturbed, minute>>

UpdateIdentity(i, active, extern) ==
  /\ Admin /\ ids[i] # NoEntry
  /\ ids' = [ids EXCEPT ![i] = [aktiv |-> active, extern |-> extern]]
  /\ UNCHANGED <<settings, lists, devices, link, disturbed, minute>>

RemoveIdentity(i) ==
  /\ Admin /\ ids[i] # NoEntry /\ ids' = [ids EXCEPT ![i] = NoEntry]
  /\ UNCHANGED <<settings, lists, devices, link, disturbed, minute>>

(* What the daily loop does: it fetches the list of mailboxes and          *)
(* Microsoft's ranges (a failed or empty answer keeps the old ones), and   *)
(* aufraeumen deletes counters beyond the retention.                       *)
FetchBoxes ==
  /\ knowsBoxes' = TRUE
  /\ UNCHANGED <<settings, rangesKnown, devices, ids, link, disturbed, minute, accessChanges>>

FetchRanges ==
  /\ rangesKnown' = TRUE
  /\ UNCHANGED <<settings, knowsBoxes, devices, ids, link, disturbed, minute, accessChanges>>

AgeCounters(d) ==
  /\ counted' = counted \ {d}
  /\ UNCHANGED <<settings, lists, hosts, refused, ids, link, disturbed, minute, accessChanges>>

Minute ==
  /\ minute < MaxTime /\ minute' = minute + 1
  /\ disturbed' = IF minute' = learnUntil THEN Link ELSE disturbed
  /\ UNCHANGED <<settings, lists, devices, ids, link, accessChanges>>

-----------------------------------------------------------------------------
Connect(l, d) ==
  /\ link[l] = NoLink
  /\ link' = [link EXCEPT ![l] = [NoLink EXCEPT !.at = "open", !.device = d]]
  /\ UNCHANGED <<settings, lists, devices, ids, disturbed, minute, accessChanges>>

(* pruefe_login: the session keeps a copy of the identity.                 *)
Login(l, i) ==
  /\ link[l].at = "open" /\ ids[i] # NoEntry /\ ids[i].aktiv
  /\ link' = [link EXCEPT ![l] = [@ EXCEPT !.ident = i, !.extern = ids[i].extern]]
  /\ UNCHANGED <<settings, lists, devices, ids, disturbed, minute, accessChanges>>

Reply(l, what) == link' = [link EXCEPT ![l].at = what]
NoteRefusal(d) == refused' = refused \cup {d}   \* merke_abweisung

(* handle_DATA, first: is the address a device?  A login takes the place   *)
(* of the question; neither device nor Exchange is turned away.  Up to the *)
(* end of CountMail the SMTP thread serves no other session.               *)
Source(l, outside) ==
  LET d == link[l].device
      step == CASE link[l].ident # NoEntry ->
                     (IF IdentityMay(l, outside) THEN "taken" ELSE "open")
                [] link[l].ident = NoEntry /\ RelaySource(d) -> "source"
                [] OTHER -> IF Allowed(d) THEN "taken" ELSE "open"
      turnedAway == link[l].ident = NoEntry /\ step = "open"
  IN
  /\ link[l].at = "open" /\ \A d2 \in Device : Busy(d2) = {}
  /\ link' = [link EXCEPT ![l] = [@ EXCEPT !.at = step, !.outside = outside]]
  /\ IF turnedAway /\ relayOn THEN NoteRefusal(d) ELSE UNCHANGED refused
  /\ disturbed' = disturbed \ {l}
  /\ UNCHANGED <<settings, lists, hosts, counted, ids, minute, accessChanges>>

(* pruefe: mode, list of mailboxes and the domain of the sender, then the  *)
(* entry, read again; without one the device is learned, whether the       *)
(* learning mode still runs or not.                                        *)
CheckDevice(l) ==
  LET d == link[l].device
      fits == smarthost /\ knowsBoxes
      next == CASE ~fits -> "open"
                [] fits /\ hosts[d] = NoEntry -> "learn"
                [] OTHER -> IF link[l].outside /\ ~hosts[d].extern THEN "open" ELSE "count"
  IN
  /\ link[l].at = "source"
  /\ link' = [link EXCEPT ![l] = [@ EXCEPT !.at = next, !.extern = learnExtern]]
  /\ IF next = "open" THEN NoteRefusal(d) ELSE UNCHANGED refused
  /\ UNCHANGED <<settings, lists, hosts, counted, ids, disturbed, minute, accessChanges>>

(* Mutant: INSERT OR REPLACE.                                              *)
LearnOver(l) ==
  LET d == link[l].device IN
  /\ link[l].at = "learn"
  /\ hosts' = [hosts EXCEPT ![d] = Entry(link[l].extern, FALSE, TRUE)]
  /\ Reply(l, IF link[l].outside /\ ~link[l].extern THEN "open" ELSE "count")
  /\ IF link[l].outside /\ ~link[l].extern THEN NoteRefusal(d) ELSE UNCHANGED refused
  /\ UNCHANGED <<settings, lists, counted, ids, disturbed, minute, accessChanges>>

(* lerne inserts unless somebody was faster, and pruefe goes on with the   *)
(* default, not with the entry.                                            *)
Learn(l) ==
  LET d == link[l].device IN
  /\ link[l].at = "learn"
  /\ hosts' = IF hosts[d] = NoEntry
              THEN [hosts EXCEPT ![d] = Entry(link[l].extern, FALSE, TRUE)] ELSE hosts
  /\ Reply(l, IF link[l].outside /\ ~link[l].extern THEN "open" ELSE "count")
  /\ IF link[l].outside /\ ~link[l].extern THEN NoteRefusal(d) ELSE UNCHANGED refused
  /\ UNCHANGED <<settings, lists, counted, ids, disturbed, minute, accessChanges>>

(* merke_zustellung, then the mail goes on through the handler.            *)
CountMail(l) ==
  /\ link[l].at = "count" /\ Reply(l, "relayed")
  /\ counted' = counted \cup {link[l].device}
  /\ UNCHANGED <<settings, lists, hosts, refused, ids, disturbed, minute, accessChanges>>

(* The next mail of the session, or the end of it.                         *)
NextMail(l) ==
  /\ link[l].at \in {"taken", "relayed"} /\ Reply(l, "open")
  /\ UNCHANGED <<settings, lists, devices, ids, disturbed, minute, accessChanges>>

Hangup(l) ==
  /\ link[l].at = "open" /\ link' = [link EXCEPT ![l] = NoLink]
  /\ UNCHANGED <<settings, lists, devices, ids, disturbed, minute, accessChanges>>

AccessPages ==
  \/ SaveAccessSettings \/ StopLearning \/ ClearRefused \/ FillInNames
  \/ \E x \in BOOLEAN, n \in {1, MaxLearn, FarAway} : StartLearning(n, x)
  \/ \E d \in Device : RemoveDevice(d) \/ \E x, b \in BOOLEAN : SaveDevice(d, x, b)
  \/ \E i \in Identity :
       \/ RemoveIdentity(i)
       \/ \E x \in BOOLEAN : CreateIdentity(i, x) \/ \E a \in BOOLEAN : UpdateIdentity(i, a, x)

AccessData(l) ==
  \/ \E d \in Device : Connect(l, d)
  \/ \E i \in Identity : Login(l, i)
  \/ \E outside \in BOOLEAN : Source(l, outside)
  \/ CheckDevice(l) \/ Learn(l) \/ CountMail(l) \/ NextMail(l) \/ Hangup(l)

AccessNext ==
  \/ AccessPages \/ FetchBoxes \/ FetchRanges \/ Minute
  \/ \E d \in Device : AgeCounters(d)
  \/ \E l \in Link : AccessData(l)

AccessSpec == AccessInit /\ [][AccessNext]_accessVars

-----------------------------------------------------------------------------
(* Type correctness.                                                       *)
AccessTypeOK ==
  /\ {relayOn, smarthost, knowsBoxes, rangesKnown, learnExtern} \subseteq BOOLEAN
  /\ learnUntil \in 0..(MaxTime + FarAway) /\ minute \in 0..MaxTime
  /\ hosts \in [Device -> {NoEntry} \cup [extern : BOOLEAN, gesperrt : BOOLEAN, gelernt : BOOLEAN]]
  /\ counted \subseteq Device /\ refused \subseteq Device /\ disturbed \subseteq Link
  /\ ids \in [Identity -> {NoEntry} \cup [aktiv : BOOLEAN, extern : BOOLEAN]]
  /\ link \in [Link -> [at : {"closed", "open", "source", "learn", "count", "taken", "relayed"},
                        device : Device \cup {NoEntry}, ident : Identity \cup {NoEntry},
                        outside : BOOLEAN, extern : BOOLEAN]]
  /\ accessChanges \in 0..MaxAccessChanges

(* The learning mode never changes what is in the list: an entry changes   *)
(* only by the administrator, also when he saves or blocks a device in the *)
(* middle of the mail that would have it learned (lerne inserts or         *)
(* ignores).                                                               *)
AdminDecides ==
  [][\A d \in Device : hosts[d] # NoEntry /\ hosts'[d] # hosts[d]
       => accessChanges' # accessChanges]_accessVars

(* A mail the relay passed on came from a device that is in the list now,  *)
(* not blocked, and allowed the recipients it has, unless the              *)
(* administrator or the end of the learning mode got between the questions *)
(* handle_DATA asks one after the other.                                   *)
OnlyAdmitted ==
  \A l \in Link : link[l].at = "count" /\ l \notin disturbed =>
    LET e == hosts[link[l].device] IN
    /\ relayOn /\ smarthost /\ e # NoEntry /\ ~e.gesperrt
    /\ link[l].outside => e.extern
==================================================================================
