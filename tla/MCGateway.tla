------------------------------- MODULE MCGateway -------------------------------
(* Parts of the gateway that have nothing of their state in common, each   *)
(* checked by itself: at the start one of them is chosen, and only its     *)
(* variables move.  Four are ways a certificate is dealt with; three decide *)
(* who may send mail to the gateway and where it goes from there.          *)
EXTENDS AcmeOrders, HubOrders, BatchRun, RecipientCerts,
        Routing, RelayAccess, Forwarding, TLC

CONSTANTS inside, outside, own, foreign   \* recipients and their domains

VARIABLE which

mcVars == <<acmeVars, hubVars, batchVars, certVars, routingVars, accessVars,
            forwardingVars, which>>

Init ==
  /\ which \in {"acme", "hub", "batch", "partners", "routing", "access", "forwarding"}
  /\ AcmeInit /\ HubInit /\ BatchInit /\ CertInit
  /\ RoutingInit /\ AccessInit /\ ForwardingInit
  /\ which # "batch" => owned = {} /\ funds = 0 /\ automatic
  /\ which # "partners" =>
       linked = {} /\ roots = {} /\ autoKnown /\ autoUnknown /\ names = [i \in Issuer |-> Names]
  /\ which # "forwarding" => nameless = {}
  /\ \A i \in Issuer : Cardinality(names[i]) + 1 >= Cardinality(Names)

Orders ==
  /\ UNCHANGED <<which, routingVars, accessVars, forwardingVars>>
  /\ \/ which = "acme" /\ AcmeNext /\ UNCHANGED <<hubVars, batchVars, certVars>>
     \/ which = "hub" /\ HubNext /\ UNCHANGED <<acmeVars, batchVars, certVars>>
     \/ which = "batch" /\ BatchNext /\ UNCHANGED <<acmeVars, hubVars, certVars>>
     \/ which = "partners" /\ CertNext /\ UNCHANGED <<acmeVars, hubVars, batchVars>>

Ways ==
  /\ UNCHANGED <<which, acmeVars, hubVars, batchVars, certVars>>
  /\ \/ which = "routing" /\ RoutingNext /\ UNCHANGED <<accessVars, forwardingVars>>
     \/ which = "access" /\ AccessNext /\ UNCHANGED <<routingVars, forwardingVars>>
     \/ which = "forwarding" /\ ForwardingNext /\ UNCHANGED <<routingVars, accessVars>>

Next == Orders \/ Ways

Spec == Init /\ [][Next]_mcVars

(* Tasks are interchangeable.                                              *)
Tasks == Permutations(Slot)

MCDomainOf == (inside :> own) @@ (outside :> foreign)

(* The type invariants of the seven components.                            *)
TypesOK ==
  /\ AcmeTypeOK /\ HubTypeOK /\ BatchTypeOK /\ CertTypeOK
  /\ RoutingTypeOK /\ AccessTypeOK /\ ForwardingTypeOK

(* Certificates that cost money are dealt with once and for everybody: a     *)
(* challenge is answered once though three readers find it (acme_state.py),  *)
(* a consent orders once however often its link is pressed (einwilligung.py) *)
(* and a batch run leaves nobody out when the money ends (sammelbestellung). *)
EachOrderOnce == AnsweredOnce /\ YesOrdersOnce /\ NobodyDropped

(* Partner certificates: none whose authority names its list, the next one   *)
(* and its own certificate is used for longer than the life of one list      *)
(* after it was revoked (crl_check.py), and none that came in disappears     *)
(* without a person's word, however it waits for its issuer (smime_store.py).*)
PartnersKept == RevocationBites /\ NothingVanishes

(* Who may send, and where it goes: what the relay passed on came from a     *)
(* device the list admits, unless the administrator got between the          *)
(* questions it asks (smtp_relay.py); routes name targets there are, mail    *)
(* for the tenant's own domains does not go out to the Internet, and the     *)
(* brake between two gateways stops a circle in time (direktversand.py,      *)
(* domain_routing.py).                                                       *)
WaysHold == OnlyAdmitted /\ RoutesHold /\ InternalStaysInside /\ LoopBraked

(* Decisions stand: the learning mode never changes what an administrator    *)
(* entered at the same moment (smtp_relay.py), and a mail is turned back as  *)
(* a circle only after this very fork of it went through (domain_routing.py).*)
NothingOverruled == AdminDecides /\ ForksPass
===============================================================================
