------------------------------- MODULE MCLegacy -------------------------------
(* A small instance of Legacy: two targets, of which the second closes what is *)
(* left, indicators of two priorities and three of the trailing modes. *)
EXTENDS Legacy

TwoTargets == <<1, 2>>
TwoKinds == {[faults |-> f, hands |-> h, restarts |-> r] : f, h, r \in 0..1} \ {[faults |-> 1, hands |-> 1, restarts |-> 1]}
=============================================================================
