------------------------------ MODULE MCIctBot ------------------------------
(***************************************************************************)
(* Small instances of IctBot.  Two setups of opposite directions let lots  *)
(* net against each other; the third lets a stale CANCEL race show.        *)
(***************************************************************************)
EXTENDS IctBot, TLC

CONSTANTS s1, s2, s3

TwoSetups == {s1, s2}
TwoDirs == s1 :> "long" @@ s2 :> "short"

ThreeSetups == {s1, s2, s3}
ThreeDirs == s1 :> "long" @@ s2 :> "short" @@ s3 :> "long"
=============================================================================
