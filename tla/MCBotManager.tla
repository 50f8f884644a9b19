---------------------------- MODULE MCBotManager ----------------------------
(***************************************************************************)
(* Small instances of BotManager: the pairs p (fixed in both models), f    *)
(* (fixed in ict only), g (fixed in cursus only) and q (a choice pair).    *)
(***************************************************************************)
EXTENDS BotManager

OneFixed == [m \in Models |-> {"p"}]
OwnFixed == [ict |-> {"p", "f"}, cursus |-> {"p", "g"}]
=============================================================================
