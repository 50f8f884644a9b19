------------------------------- MODULE MCChart -------------------------------
(* Small instances of Chart: the bars of a frame lie in two windows. *)
EXTENDS Chart

CONSTANTS MaxPrice, MaxBars   \* bounds

SomePrices == 1..MaxPrice
TwoWindows == [i \in 1..12 |-> IF i <= 3 THEN "v" ELSE "w"]

FromOpening == {[bars |-> <<Opening(p)>>, more |-> MaxBars - 1] : p \in SomePrices}

Frame(rows) == [i \in DOMAIN rows |->
    [o |-> rows[i][1], h |-> rows[i][2], l |-> rows[i][3], c |-> rows[i][4]]]

\* Longer frames, each shortly before the pattern it is named for.
Pulled == Frame(<< <<1,1,1,1>>, <<1,4,1,3>>, <<3,3,3,3>>, <<3,3,3,3>>, <<3,3,3,3>> >>)
Soup == Frame(<< <<4,4,4,4>>, <<4,4,3,3>>, <<3,3,1,1>>, <<1,1,1,1>>, <<1,4,1,2>>, <<2,2,2,2>> >>)
TwoGaps == Frame(<< <<4,4,4,4>>, <<4,4,4,4>>, <<4,4,2,3>>, <<3,3,3,3>>, <<3,4,1,4>>,
                    <<4,4,4,4>>, <<4,4,1,2>>, <<2,2,2,2>> >>)
BlockBreaks == Frame(<< <<4,4,2,2>>, <<2,2,2,2>>, <<2,3,1,2>>, <<2,2,2,2>>, <<2,4,1,4>>,
                        <<4,4,3,3>>, <<3,4,2,4>>, <<4,4,4,4>> >>)
BlockReturns == Frame(<< <<3,3,3,3>>, <<3,4,3,3>>, <<3,3,2,2>>, <<2,5,2,5>>, <<5,6,5,5>>,
                         <<5,5,1,4>>, <<4,5,3,3>>, <<3,8,3,4>> >>)
BlockRejects == Frame(<< <<5,5,3,3>>, <<3,3,3,3>>, <<3,5,3,4>>, <<4,4,4,4>>, <<4,5,1,5>> >>)
Implied == Frame(<< <<4,4,4,4>>, <<4,4,4,4>>, <<4,4,3,3>>, <<3,5,2,5>>, <<5,5,1,5>>,
                    <<5,5,4,4>>, <<4,4,4,4>>, <<4,4,1,3>> >>)
Continues == Frame(<< <<1,1,1,1>>, <<1,2,1,1>>, <<1,1,1,1>>, <<1,4,1,3>>, <<3,3,2,2>>, <<2,5,2,5>> >>)
BreaksOut == Frame(<< <<1,1,1,1>>, <<1,4,1,3>>, <<3,3,3,3>>, <<3,3,3,3>>, <<3,3,3,3>>, <<3,5,3,5>> >>)
Collapses == Frame(<< <<6,6,6,6>>, <<6,8,6,8>>, <<8,8,8,8>>, <<8,8,2,2>>, <<2,2,2,2>>,
                      <<2,3,2,2>> >>)
FillsUp == Frame(<< <<1,1,1,1>>, <<1,4,1,3>>, <<3,3,3,3>>, <<3,3,3,3>>, <<3,3,3,3>>, <<3,3,2,2>>,
                    <<2,4,2,4>> >>)
Fades == Frame(<< <<1,1,1,1>>, <<1,4,1,3>>, <<3,3,3,3>>, <<3,3,3,3>>, <<3,3,3,3>>, <<3,3,2,2>>,
                  <<2,2,2,2>>, <<2,3,2,2>>, <<2,2,2,2>> >>)
BlockDips == Frame(<< <<3,3,3,3>>, <<3,5,3,4>>, <<4,4,2,2>>, <<2,2,1,1>>, <<1,6,1,6>> >>)

FromPatterns ==
    {[bars |-> b, more |-> 1] :
        b \in {Pulled, Soup, TwoGaps, BlockBreaks, BlockReturns, BlockRejects, Implied, Continues,
              BreaksOut, Collapses, BlockDips, FillsUp, Fades}}
ManyFrames == FromOpening \cup FromPatterns
=============================================================================
