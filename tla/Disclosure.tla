------------------------------- MODULE Disclosure -------------------------------
(***************************************************************************)
(* What the secure message portal promises about who gets to see what      *)
(* (the comment above generate_otp in app/portal_store.py): a message can  *)
(* be read from its creation to its expiry or revocation, and while codes  *)
(* are asked for, only by the browser that entered the last valid one.     *)
(***************************************************************************)
CONSTANTS Token, Browser, Nobody

VARIABLES
  life,     \* [Token -> Life]
  gate,     \* codes are asked for (SECURE_PORTAL_OTP)
  key,      \* [Token -> the browser admitted, or Nobody]
  visits    \* (browser, message) pairs being served

Life == {"absent", "open", "closed"}

Init ==
  /\ life = [t \in Token |-> "absent"]
  /\ gate \in BOOLEAN
  /\ key = [t \in Token |-> Nobody]
  /\ visits = {}

(* A message opens once and closes once; somebody is admitted to an open   *)
(* message or loses access; a visit begins at an open message, and while   *)
(* codes are asked for it is the visit of whoever is admitted.             *)
Next ==
  /\ life' \in [Token -> Life] /\ gate' \in BOOLEAN
  /\ key' \in [Token -> Browser \cup {Nobody}]
  /\ \A t \in Token :
       /\ life'[t] # life[t] =>
            <<life[t], life'[t]>> \in {<<"absent", "open">>, <<"open", "closed">>}
       /\ key'[t] \notin {key[t], Nobody} => life[t] = "open"
  /\ \A v \in visits' \ visits :
       life[v[2]] = "open" /\ (gate => key[v[2]] = v[1])

Spec == Init /\ [][Next]_<<life, gate, key, visits>>
================================================================================
