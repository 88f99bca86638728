------------------------------- MODULE MCHandler -------------------------------
(* Instances of Handler for TLC: one mail to an internal and an external   *)
(* recipient, handed over in one transaction or in two; with the internal  *)
(* one goes a recipient that no header names (Bcc).                        *)
EXTENDS Handler

CONSTANTS m1, f1, f2, in, ex, bcc

OneMail == [f \in Fork |-> m1]
Both == [f \in Fork |-> {in, ex}]
Apart == [f \in Fork |-> IF f = f1 THEN {in, bcc} ELSE {ex}]
ToBoth == [m \in Mail |-> {in, ex}]

Plain == [origin |-> "exchange", foreign |-> FALSE, sort |-> "plain",
          marked |-> FALSE, inner |-> FALSE, internal |-> TRUE, active |-> TRUE,
          smime |-> TRUE, asks |-> FALSE, nosign |-> FALSE, sign |-> FALSE]
Asking == [Plain EXCEPT !.asks = TRUE]
Outside == [Plain EXCEPT !.internal = FALSE, !.active = FALSE]

(* At least one mail for every branch, and the ways through the last one.  *)
Kinds ==
  {Plain, Asking, [Asking EXCEPT !.nosign = TRUE], [Asking EXCEPT !.smime = FALSE],
   [Plain EXCEPT !.sign = TRUE], [Asking EXCEPT !.active = FALSE],
   [Asking EXCEPT !.marked = TRUE], [Asking EXCEPT !.sort = "auto"],
   [Plain EXCEPT !.sort = "acme_reply"],
   [Outside EXCEPT !.sort = "acme"], [Outside EXCEPT !.sort = "harvest"],
   [Outside EXCEPT !.sort = "enveloped"], [Outside EXCEPT !.sort = "signed"],
   [Outside EXCEPT !.sort = "signed", !.marked = TRUE],
   [Outside EXCEPT !.sort = "signed", !.inner = TRUE],
   [Outside EXCEPT !.foreign = TRUE], [Outside EXCEPT !.origin = "denied"]}

AskingOnly == {Asking}
Usual == {"signing", "strip", "fallback", "gate"}
Starts == {Usual, {"signing", "gate", "portal", "route"},
           {"signing", "internal", "maint", "fallback"}}
PortalOn == {Usual \cup {"portal"}}
UsualOnly == {Usual}
================================================================================
