-------------------------------- MODULE Custody --------------------------------
(***************************************************************************)
(* What the gateway promises about every copy of a mail (a mail and one of *)
(* its recipients): someone is always responsible for it.  Exchange is     *)
(* until the gateway answers 250; then the gateway's queue is, until the   *)
(* copy is delivered, the sender is told, or an administrator discards it. *)
(*                                                                         *)
(* The promise is stated in _fail_delivery (app/reinject.py, "do not LOSE  *)
(* the mail") and in the head of app/held_mails.py; there is no step that  *)
(* leads out of all five places.                                           *)
(***************************************************************************)
CONSTANT Copy

VARIABLE at     \* [Copy -> Place], who is responsible

Place == {"exchange", "gateway", "delivered", "told", "discarded"}

(* A copy only moves forward: Exchange never gets it back after the 250,   *)
(* and a delivered copy is delivered for good.  An administrator can       *)
(* discard a queued copy even before the 250.  A copy that was reported or *)
(* discarded may still be delivered: a send that already runs is not       *)
(* stopped by either, and a mail with several routes can be held for one   *)
(* and fail for another.                                                   *)
Move == { <<"exchange", "gateway">>, <<"exchange", "delivered">>,
          <<"exchange", "told">>, <<"exchange", "discarded">>,
          <<"gateway", "delivered">>, <<"gateway", "discarded">>,
          <<"gateway", "told">>,
          <<"told", "delivered">>, <<"told", "discarded">>,
          <<"discarded", "delivered">> }

TypeOK == at \in [Copy -> Place]

Init == at = [c \in Copy |-> "exchange"]

(* One answer of a server can settle several copies at once.               *)
Next ==
  /\ at' \in [Copy -> Place]
  /\ at' # at
  /\ \A c \in Copy : at'[c] # at[c] => <<at[c], at'[c]>> \in Move

Spec == Init /\ [][Next]_at
================================================================================
