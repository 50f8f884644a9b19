-------------------------------- MODULE Ladder --------------------------------
(***************************************************************************)
(* The plan of a trade of the first bot (core/risk.py, core/signal.py and  *)
(* the checks of the Executor), for prices measured in levels along the    *)
(* plan: 0 is the entry, 1..NTp the targets, -1 the stop it starts with.   *)
(* A higher level is a better price for the plan, long or short.           *)
(***************************************************************************)
EXTENDS Integers, Sequences, FiniteSets, FiniteSetsExt

CONSTANTS
    Allocations,    \* tp_allocations, in units of quantity: what each target sells
    TriggerTarget   \* trailing_trigger_target

NTp == Len(Allocations)

ASSUME LadderAssumption ==
    /\ Allocations \in Seq(Nat \ {0}) /\ Allocations # << >>
    /\ TriggerTarget \in 1..NTp

\* What the targets up to one of them sell together, and all of them.
SoldUpTo[n \in 0..NTp] == IF n = 0 THEN 0 ELSE SoldUpTo[n - 1] + Allocations[n]
Qty == SoldUpTo[NTp]

Levels == -1..NTp
Sides == {"long", "short"}
TrailingMode == {"off", "moving_target", "moving_2_target", "breakeven",
                 "percent_below_triggers", "percent_below_highest"}

\* The targets the price has reached, never fewer than before.
TpHits(hits, level) == Max({hits} \cup {i \in 1..NTp : level >= i})

\* update_trailing_sl before the last comparison: the stop takes the price of an
\* earlier target, the entry being target 0; trailing_pct is one level.
NewStop(mode, sl, hits, highest) ==
    CASE mode = "moving_target"          /\ hits >= 1 -> hits - 1
      [] mode = "moving_2_target"        /\ hits >= 2 -> hits - 2
      [] mode = "breakeven"              /\ hits >= TriggerTarget -> 0
      [] mode = "percent_below_triggers" /\ hits >= TriggerTarget -> highest - 1
      [] mode = "percent_below_highest"  -> highest - 1
      [] OTHER -> sl

TrailedStop(mode, sl, hits, highest) == Max({sl, NewStop(mode, sl, hits, highest)})

\* Mutant: a price at the stop is not beyond it.
BeyondStop(plan, level) == level < plan.sl

\* should_close
StopReached(plan, level) == level <= plan.sl
Finished(plan) == plan.hits >= NTp

\* A signal is [dir, rank]: its direction and the priority of its indicator.
Sources(signals) == {s.rank : s \in signals}
In(signals, d) == {s \in signals : s.dir = d}

\* compose_entry, for any weights of the timeframes and strengths: a direction
\* can win if it has a signal, and none need reach the threshold.
Composed(signals) == {"none"} \cup {d \in Sides : In(signals, d) # {}}
=============================================================================
