------------------------------ MODULE MCDelivery ------------------------------
(* Instances of Delivery for TLC: one mail to an internal and an external  *)
(* recipient, which Exchange hands over in one transaction or in two.      *)
EXTENDS Delivery, TLC

CONSTANTS m1, f1, f2, in, ex, relay, exo

OneMail == [f \in Fork |-> m1]
OneFork == [f \in Fork |-> {in, ex}]
TwoForks == f1 :> {in} @@ f2 :> {ex}
ToBoth == [m \in Mail |-> {in, ex}]
AllExo == [r \in Rcpt |-> exo]
InRelayed == [r \in Rcpt |-> IF r = in THEN relay ELSE exo]
HeldSym == Permutations(HeldId)
================================================================================
