------------------------------ MODULE MCTimers ------------------------------
(* Instances of Timers for TLC: the .cfg files give small sets of waiting   *)
(* times and counts.                                                        *)
EXTENDS Timers

MinusOne == {-1}
MinusTwo == -2
Forever == {-1, 1, 2}
OnceOrForever == {-1, 2}
LateAndLater == {-1, 1, 2}
=============================================================================
