-------------------------------- MODULE MCOffice --------------------------------
(* What the people of the office see of the gateway: the portal with their   *)
(* messages, their Sent Items, the signatures under their mail; and how      *)
(* administrators sign in to it.  The parts have nothing of their state in   *)
(* common and each is checked by itself: at the start one of them is chosen, *)
(* and only its variables move.                                              *)
EXTENDS Portal, SentItems, Signatures, Admins, SignIns

VARIABLE which

peopleVars == <<portalVars, sentVars, signatureVars>>
mcVars == <<peopleVars, adminVars, signInVars, which>>

Init ==
  /\ which \in {"portal", "sent", "signature", "admins", "signins"}
  /\ PortalInit /\ SentInit /\ SignatureInit /\ AdminInit /\ SignInInit
  /\ which # "portal" => otp
  /\ which # "sent" => updates /\ cipher = {}
  /\ which # "signature" => reply = "none" /\ skip /\ last = "addin"
  /\ which # "admins" =>
       \A p \in Person : users[1].upn = nameOf[p] /\ users[1].id = NoPerson
                        /\ nameOf[p] = CHOOSE u \in Upn : TRUE

People ==
  /\ UNCHANGED <<which, adminVars, signInVars>>
  /\ \/ /\ which = "portal" /\ PortalNext
        /\ UNCHANGED <<sentVars, signatureVars>>
     \/ /\ which = "sent" /\ SentNext
        /\ UNCHANGED <<portalVars, signatureVars>>
     \/ /\ which = "signature" /\ SignatureNext
        /\ UNCHANGED <<portalVars, sentVars>>

Administrators ==
  /\ UNCHANGED <<which, peopleVars>>
  /\ \/ which = "admins" /\ AdminNext /\ UNCHANGED signInVars
     \/ which = "signins" /\ SignInNext /\ UNCHANGED adminVars

Next == People \/ Administrators

\* The timers of the chosen part; the properties of the others are of safety.
Timers ==
  \/ which = "portal" /\ PortalFairness
  \/ which # "portal"

Spec == Init /\ [][Next]_mcVars /\ Timers

(* The type invariants of the five components.                             *)
TypesOK ==
  /\ PortalTypeOK /\ SentTypeOK /\ SignatureTypeOK /\ AdminTypeOK /\ SignInTypeOK

(* A portal message is whole as long as it is open, each of its codes opens  *)
(* it for one browser, it is gone in the end, and what stays behind of it    *)
(* does so for a known cause (portal_store.py).                              *)
MessagesKept ==
  [](OpenHasContent /\ CodeOnce /\ LeftoversExplained) /\ EveryMessageGoes
===============================================================================
