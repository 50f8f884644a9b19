------------------------------ MODULE MCDecision ------------------------------
(* Small instances of Decision: setups of either direction, in a quiet day of *)
(* either mode of step(); and one setup in two days that win and lose. *)
EXTENDS Decision

Quiet(multiTf) == [multiTf |-> multiTf, limits |-> {0}, setups |-> 3,
                   trends |-> {"long", "short", "none"}, days |-> 1, pnl |-> 0,
                   faults |-> {"trend", "recovery", "position"}]
TwoDays == [multiTf |-> FALSE, limits |-> {0, 1}, setups |-> 1, trends |-> {"long"},
            days |-> 2, pnl |-> 1, faults |-> {"balance", "results"}]
SomeScenes == {Quiet(TRUE), Quiet(FALSE), TwoDays}

ThreeSetups == 1..3
Directions == [s \in ThreeSetups |-> IF s = 2 THEN "short" ELSE "long"]
=============================================================================
