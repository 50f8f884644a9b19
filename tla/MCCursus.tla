------------------------------- MODULE MCCursus -------------------------------
(***************************************************************************)
(* A small instance of Cursus.  The price of a step reaches no target, two *)
(* (the ladder's first rung), three (its second) or all four.              *)
(***************************************************************************)
EXTENDS Cursus

SomeGains == {0, 2, 3, 4}
=============================================================================
