--------------------------------- MODULE Routing ---------------------------------
(***************************************************************************)
(* Where mail goes in smtp mode: relay targets, routes by recipient        *)
(* domain, by foreign tenant and for external recipients, and the          *)
(* gateway's own Postfix (app/domain_routing.py, app/direktversand.py, the *)
(* handlers of app/webui/routen/relay.py, app/reinject.py).                *)
(*                                                                         *)
(* The handlers of the web interface change the routes, each undisturbed   *)
(* by the others; direct sending is saved by worker threads, step by step; *)
(* the SMTP thread groups a mail's recipients by target and resolves each  *)
(* target later, when it connects.                                         *)
(***************************************************************************)
EXTENDS Naturals

CONSTANTS
  Target,        \* IDs of relay targets
  Exo,           \* domain_routing.EXO, the smarthost
  Direct,        \* domain_routing.DIREKT, the gateway's Postfix
  NoRoute,       \* no route, the empty string
  Rcpt,          \* recipients
  Domain,        \* recipient domains
  DomainOf,      \* [Rcpt -> Domain]
  Own,           \* domains of the tenant
  Tenant,        \* foreign tenants with mail for this gateway
  Saver,         \* worker threads in direktversand.speichern
  MaxRouteChanges \* bound on the routeChanges of routes and routingLists

ASSUME RoutingAssumption ==
  /\ {Exo, Direct, NoRoute} \cap Target = {}
  /\ Exo # Direct /\ Exo # NoRoute /\ Direct # NoRoute
  /\ DomainOf \in [Rcpt -> Domain] /\ Own \subseteq Domain
  /\ MaxRouteChanges \in Nat

VARIABLES
  targets,       \* RELAY_TARGETS: the IDs
  dRoute,        \* DOMAIN_ROUTES
  tRoute,        \* TENANT_ROUTES
  xRoute,        \* EXTERN_ROUTE
  byRcpt,        \* PER_RECIPIENT_ROUTING
  onPrem,        \* the mailboxes exo_mailusers knows to be on premises
  listKnown,     \* the list of mailboxes has been read (exo_mailboxes)
  directOn,      \* DIREKT_ENABLED
  postconf,      \* data/mta/postconf.cf lets mail out
  serving,       \* the process runs
  saver,         \* [Saver -> [at, wish, read]]
  groups,        \* [Rcpt -> target a mail's recipient was grouped under, or NoRoute]
  handed,        \* history: <<recipient or tenant, target, why>> handed over
  overlap,       \* history: two saves overlapped since the start
  routeChanges   \* changes so far

routingVars == <<targets, dRoute, tRoute, xRoute, byRcpt, onPrem, listKnown,
                 directOn, postconf, serving, saver, groups, handed, overlap,
                 routeChanges>>

Dest == Target \cup {Direct}
NoSave == [at |-> "idle", wish |-> FALSE, read |-> FALSE]
RouteChange == serving /\ routeChanges < MaxRouteChanges /\ routeChanges' = routeChanges + 1

routes == <<targets, dRoute, tRoute, xRoute>>
routingLists == <<byRcpt, onPrem, listKnown>>
mta == <<directOn, postconf, saver, overlap>>
mails == <<groups, handed>>

Valid(z) == IF z = Direct THEN directOn ELSE z \in targets   \* ziel_gueltig
Selectable(z) == z = Direct \/ z \in targets               \* _waehlbar

(* Mutant: the trap the comment names, asking for an empty set of domains. *)
ExternTooEarly(r) ==
  LET home == IF listKnown THEN Own ELSE {} IN
  IF xRoute # NoRoute /\ Valid(xRoute) /\ DomainOf[r] \notin home THEN xRoute ELSE Exo

(* route_fuer_extern: while the list of mailboxes is unknown nobody is     *)
(* external.                                                               *)
ForExtern(r) ==
  IF xRoute # NoRoute /\ Valid(xRoute) /\ listKnown /\ DomainOf[r] \notin Own
  THEN xRoute ELSE Exo

(* route_fuer, route_fuer_empfaenger: target and the rule it comes from.   *)
ForRcpt(r) ==
  LET z == dRoute[DomainOf[r]] IN
  IF z = NoRoute \/ ~Valid(z) THEN <<ForExtern(r), "extern">>
  ELSE IF byRcpt /\ r \notin onPrem THEN <<Exo, "domain">>
  ELSE <<z, "domain">>

ForTenant(t) == IF tRoute[t] # NoRoute /\ Valid(tRoute[t]) THEN tRoute[t] ELSE NoRoute

-----------------------------------------------------------------------------
RoutingInit ==
  /\ targets = {} /\ dRoute = [d \in Domain |-> NoRoute]
  /\ tRoute = [t \in Tenant |-> NoRoute] /\ xRoute = NoRoute
  /\ byRcpt = FALSE /\ onPrem = {} /\ listKnown = FALSE
  /\ directOn = FALSE /\ postconf = FALSE /\ serving = TRUE
  /\ saver = [s \in Saver |-> NoSave]
  /\ groups = [r \in Rcpt |-> NoRoute] /\ handed = {}
  /\ overlap = FALSE /\ routeChanges = 0

(* setze_ziel, setze_route, setze_tenant_route, setze_extern_route.        *)
SetTarget(z) ==
  /\ RouteChange /\ targets' = targets \cup {z}
  /\ UNCHANGED <<dRoute, tRoute, xRoute, routingLists, mta, serving, mails>>

SetRoute(d, z) ==
  /\ RouteChange /\ (z = NoRoute \/ Selectable(z))
  /\ dRoute' = [dRoute EXCEPT ![d] = z]
  /\ UNCHANGED <<targets, tRoute, xRoute, routingLists, mta, serving, mails>>

SetTenantRoute(t, z) ==
  /\ RouteChange /\ (z = NoRoute \/ Selectable(z))
  /\ tRoute' = [tRoute EXCEPT ![t] = z]
  /\ UNCHANGED <<targets, dRoute, xRoute, routingLists, mta, serving, mails>>

(* Mutant: Exchange Online is stored by its name.                          *)
SetExternByName(z) ==
  /\ RouteChange /\ (z = NoRoute \/ Selectable(z))
  /\ xRoute' = IF z = NoRoute THEN Exo ELSE z
  /\ UNCHANGED <<targets, dRoute, tRoute, routingLists, mta, serving, mails>>

SetExternRoute(z) ==
  /\ RouteChange /\ (z = NoRoute \/ Selectable(z))
  /\ xRoute' = z
  /\ UNCHANGED <<targets, dRoute, tRoute, routingLists, mta, serving, mails>>

(* loesche_ziel: with every route that led there.                          *)
DeleteTarget(z) ==
  /\ RouteChange /\ z \in targets
  /\ targets' = targets \ {z}
  /\ dRoute' = [d \in Domain |-> IF dRoute[d] = z THEN NoRoute ELSE dRoute[d]]
  /\ tRoute' = [t \in Tenant |-> IF tRoute[t] = z THEN NoRoute ELSE tRoute[t]]
  /\ xRoute' = IF xRoute = z THEN NoRoute ELSE xRoute
  /\ UNCHANGED <<routingLists, mta, serving, mails>>

(* What the routing reads and others write: the option, the list of        *)
(* mailboxes on premises and the list of mailboxes.                        *)
Refresh ==
  /\ RouteChange
  /\ byRcpt' \in BOOLEAN /\ onPrem' \in SUBSET Rcpt /\ listKnown' = TRUE
  /\ UNCHANGED <<routes, mta, serving, mails>>

-----------------------------------------------------------------------------
(* direktversand.speichern: the test of port 25 may refuse to switch on,   *)
(* then the settings are stored ...                                        *)
SaveBegin(s, wish) ==
  /\ RouteChange /\ saver[s] = NoSave
  /\ saver' = [saver EXCEPT ![s] = [NoSave EXCEPT !.at = "tested", !.wish = wish]]
  /\ overlap' = (overlap \/ \E o \in Saver : saver[o] # NoSave)
  /\ UNCHANGED <<routes, routingLists, directOn, postconf, serving, mails>>

SaveUpdate(s) ==
  /\ serving /\ saver[s].at = "tested"
  /\ directOn' = saver[s].wish
  /\ saver' = [saver EXCEPT ![s].at = "stored"]
  /\ UNCHANGED <<routes, routingLists, postconf, overlap, serving, mails,
                 routeChanges>>

(* ... and schreiben reads them again and writes the file.                 *)
SaveRead(s) ==
  /\ serving /\ saver[s].at = "stored"
  /\ saver' = [saver EXCEPT ![s] = [@ EXCEPT !.at = "read", !.read = directOn]]
  /\ UNCHANGED <<routes, routingLists, directOn, postconf, overlap, serving, mails,
                 routeChanges>>

(* Mutant: switching off leaves the file as it is.                         *)
SaveWriteOn(s) ==
  /\ serving /\ saver[s].at = "read"
  /\ postconf' = (postconf \/ saver[s].read)
  /\ saver' = [saver EXCEPT ![s] = NoSave]
  /\ UNCHANGED <<routes, routingLists, directOn, overlap, serving, mails,
                 routeChanges>>

SaveWrite(s) ==
  /\ serving /\ saver[s].at = "read"
  /\ postconf' = saver[s].read
  /\ saver' = [saver EXCEPT ![s] = NoSave]
  /\ UNCHANGED <<routes, routingLists, directOn, overlap, serving, mails,
                 routeChanges>>

StopRouting ==
  /\ RouteChange
  /\ serving' = FALSE /\ listKnown' = FALSE
  /\ saver' = [s \in Saver |-> NoSave] /\ groups' = [r \in Rcpt |-> NoRoute]
  /\ UNCHANGED <<routes, byRcpt, onPrem, directOn, postconf, overlap, handed>>

(* Mutant: the file is left as it is.                                      *)
StartOnly ==
  /\ ~serving
  /\ serving' = TRUE /\ overlap' = FALSE
  /\ UNCHANGED <<routes, routingLists, directOn, postconf, saver, mails, routeChanges>>

(* main writes the configuration of Postfix before it listens.             *)
StartRouting ==
  /\ ~serving
  /\ serving' = TRUE /\ postconf' = directOn /\ overlap' = FALSE
  /\ UNCHANGED <<routes, routingLists, directOn, saver, mails, routeChanges>>

-----------------------------------------------------------------------------
(* reinject.send groups the recipients of a mail; those for the smarthost  *)
(* are handed over on the ordinary way back (module Delivery).             *)
Group(rs) ==
  /\ serving /\ \A r \in Rcpt : groups[r] = NoRoute
  /\ LET home == {r \in rs : ForRcpt(r)[1] = Exo} IN
     /\ groups' = [r \in Rcpt |-> IF r \in rs \ home THEN ForRcpt(r) ELSE NoRoute]
     /\ handed' = handed \cup {<<r, Exo, ForRcpt(r)[2]>> : r \in home}
  /\ UNCHANGED <<routes, routingLists, mta, serving, routeChanges>>

(* _relay_to_target resolves the target again: one that was deleted in the *)
(* meantime has no host, and the group fails into the queue; Postfix takes *)
(* a mail in any case and returns it when it may let nothing out.          *)
HandOver(z) ==
  LET rs == {r \in Rcpt : groups[r] # NoRoute /\ groups[r][1] = z} IN
  /\ serving /\ rs # {}
  /\ groups' = [r \in Rcpt |-> IF r \in rs THEN NoRoute ELSE groups[r]]
  /\ handed' = IF z \in targets \/ (z = Direct /\ postconf)
            THEN handed \cup {<<r, z, groups[r][2]>> : r \in rs}
            ELSE handed
  /\ UNCHANGED <<routes, routingLists, mta, serving, routeChanges>>

(* The tenant gate of handle_DATA: mail of a foreign tenant goes to its    *)
(* target and nowhere else; the brake is in module Forwarding.             *)
ForwardTenant(t) ==
  /\ serving /\ ForTenant(t) # NoRoute
  /\ handed' = IF ForTenant(t) = Direct /\ ~postconf THEN handed
            ELSE handed \cup {<<t, ForTenant(t), "tenant">>}
  /\ UNCHANGED <<routes, routingLists, mta, serving, groups, routeChanges>>

Save(s) ==
  (\E w \in BOOLEAN : SaveBegin(s, w)) \/ SaveUpdate(s) \/ SaveRead(s) \/ SaveWrite(s)

RoutingNext ==
  \/ \E z \in Target : SetTarget(z) \/ DeleteTarget(z)
  \/ \E z \in Dest \cup {NoRoute} :
       \/ \E d \in Domain : SetRoute(d, z)
       \/ \E t \in Tenant : SetTenantRoute(t, z)
       \/ SetExternRoute(z)
  \/ Refresh \/ StopRouting \/ StartRouting
  \/ \E s \in Saver : Save(s)
  \/ \E rs \in SUBSET Rcpt \ {{}} : Group(rs)
  \/ \E z \in Dest : HandOver(z)
  \/ \E t \in Tenant : ForwardTenant(t)

RoutingSpec == RoutingInit /\ [][RoutingNext]_routingVars

-----------------------------------------------------------------------------
(* Type correctness.                                                       *)
RoutingTypeOK ==
  /\ targets \subseteq Target
  /\ dRoute \in [Domain -> Dest \cup {NoRoute}] /\ tRoute \in [Tenant -> Dest \cup {NoRoute}]
  /\ xRoute \in Dest \cup {NoRoute}
  /\ byRcpt \in BOOLEAN /\ onPrem \subseteq Rcpt /\ listKnown \in BOOLEAN
  /\ directOn \in BOOLEAN /\ postconf \in BOOLEAN /\ serving \in BOOLEAN
  /\ saver \in [Saver -> [at : {"idle", "tested", "stored", "read"},
                          wish : BOOLEAN, read : BOOLEAN]]
  /\ groups \in [Rcpt -> {NoRoute} \cup (Dest \X {"domain", "extern"})]
  /\ handed \subseteq (Rcpt \cup Tenant) \X (Dest \cup {Exo}) \X {"domain", "extern", "tenant"}
  /\ overlap \in BOOLEAN /\ routeChanges \in 0..MaxRouteChanges

(* Whatever is deleted and saved at once, and after a stop in the middle:  *)
(* no route of any kind names a target that does not exist (loesche_ziel:  *)
(* "sonst zeigten sie ins Leere und fielen still auf EXO zurueck"), and    *)
(* while nobody saves the file Postfix reads says what the settings say,   *)
(* since schreiben runs at the start and after every change.  Only saves   *)
(* that overlapped leave it behind, for it is written without a lock.      *)
RoutesHold ==
  LET used == {dRoute[d] : d \in Domain} \cup {tRoute[t] : t \in Tenant} \cup {xRoute}
  IN /\ used \subseteq targets \cup {Direct, NoRoute}
     /\ serving /\ (\A s \in Saver : saver[s] = NoSave)
          => postconf = directOn \/ overlap

(* The route for external recipients never takes a recipient of the        *)
(* tenant's own domains out to the Internet, not after a restart either,   *)
(* when the list of mailboxes is not known yet (route_fuer_extern).        *)
InternalStaysInside ==
  /\ \A o \in handed : o[3] = "extern" /\ o[2] # Exo => DomainOf[o[1]] \notin Own
  /\ \A r \in Rcpt : groups[r] # NoRoute /\ groups[r][2] = "extern" => DomainOf[r] \notin Own
==================================================================================
