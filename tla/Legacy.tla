-------------------------------- MODULE Legacy --------------------------------
(***************************************************************************)
(* The bot of the first desktop program (aurora.interfaces.BotInstance)    *)
(* with its Executor and the file of the active position.  It keeps no     *)
(* stop order at the exchange: the loop reads the price and closes by a    *)
(* market order.  The user trades on the same account by hand.             *)
(*                                                                         *)
(* One loop runs at a time.  An action of the loop takes the answer of its *)
(* last call, runs the code up to the next one and carries that call out;  *)
(* stop() cancels the loop at any of these points, a crash also takes the  *)
(* memory.                                                                 *)
(***************************************************************************)
EXTENDS Ladder

CONSTANTS
    Ranks,       \* priorities of the indicators (INDICATOR_PRIORITY)
    Modes,       \* the trailing modes a bot is configured with
    Timeouts,    \* the reading of the position before an entry may time out
    Dust,        \* a position of at most this size is below _DUST_NOTIONAL_USD
    Troubles     \* what may go wrong in one behaviour: numbers of [faults (calls that
                 \* fail), hands (trades by hand), restarts (stops and crashes)]

ASSUME LegacyAssumption ==
    /\ Ranks \subseteq Nat \ {0} /\ IsFiniteSet(Ranks)
    /\ Modes \subseteq TrailingMode /\ Timeouts \in BOOLEAN
    /\ Dust \in Nat
    /\ Troubles \subseteq [faults : Nat, hands : Nat, restarts : Nat]

VARIABLES
    net,        \* the position at the exchange, shorts negative
    level,      \* the price, along the plan
    mode,       \* trailing_mode
    running,
    loop,       \* [at, price, seen, plan]: the call the loop waits for or whose answer
                \* it takes, the price and the position it has read, the plan it opens
    plan,       \* the Executor: plan, remaining quantity, hits, sources
    highest,    \* _highest_since_entry (the lowest for a short)
    unseen,     \* _fetch_position_none_count
    entered,    \* _last_entry_bar_ts, _last_entry_sources: the sources of an entry
                \* in this bar
    swapped,    \* _last_priority_swap_bar_ts is this bar
    file,       \* active_position.json
    left,       \* the troubles still to come
    entries,    \* history: entry orders carried out in the position at the exchange
    sold        \* history: how often each target of it was sold, by the plan's size

vars == <<net, level, mode, running, loop, plan, highest, unseen, entered, swapped,
          file, left, entries, sold>>

\* The memory of a BotInstance beside the Executor.
notes == <<unseen, entered, swapped>>

NoPlan == [dir |-> "none", sl |-> 0, hits |-> 0, qty |-> 0, sources |-> {}]
HasPosition == plan # NoPlan
Signals == [dir : Sides, rank : Ranks]
Idle == [at |-> "idle", price |-> 0, seen |-> 0, plan |-> NoPlan]
At(step) == [loop EXCEPT !.at = step]

Opposite(d) == IF d = "long" THEN "short" ELSE "long"
Signed(d, qty) == IF d = "long" THEN qty ELSE -qty
SideOf(n) == IF n > 0 THEN "long" ELSE IF n < 0 THEN "short" ELSE "none"
Size(n) == IF n < 0 THEN -n ELSE n
Least(a, b) == IF a < b THEN a ELSE b

NothingSold == [i \in 1..NTp |-> 0]

Init ==
    /\ net = 0 /\ level = 0
    /\ mode \in Modes
    /\ running = FALSE /\ loop = Idle
    /\ plan = NoPlan /\ highest = 0
    /\ unseen = 0 /\ entered = {} /\ swapped = FALSE
    /\ file = NoPlan
    /\ left \in Troubles
    /\ entries = 0 /\ sold = NothingSold

-----------------------------------------------------------------------------
(* The exchange *)

\* A position that ends takes its history with it.
Holds(n, more, target) ==
    /\ net' = n
    /\ entries' = IF n = 0 THEN 0 ELSE entries + more
    /\ sold' = IF n = 0 THEN NothingSold
               ELSE IF target = 0 THEN sold ELSE [sold EXCEPT ![target] = Least(@ + 1, 2)]

NoOrder == UNCHANGED <<net, entries, sold>>

\* A call is answered, or fails before or after it took effect.
Fault(failed) == /\ failed => left.faults > 0
                 /\ left' = IF failed THEN [left EXCEPT !.faults = @ - 1] ELSE left

\* A reduce-only order needs a position to reduce; "lost" is done without an answer.
Outcomes(d) == IF SideOf(net) = d THEN {"done", "refused", "lost"} ELSE {"refused"}

\* A market order that closes qty of a position in direction d; target: the target
\* it sells, or 0; then: where the loop goes on with the answer.
SendClose(d, qty, target, then) ==
    \E outcome \in Outcomes(d) :
       /\ Fault(SideOf(net) = d /\ outcome # "done")
       /\ IF outcome = "refused" THEN NoOrder
          ELSE Holds(net - Signed(d, Least(qty, Size(net))), 0, target)
       /\ loop' = IF outcome = "done" THEN then ELSE Idle

\* The price, while there is a plan to measure it by.
PriceMoves(to) ==
    /\ to # level /\ HasPosition /\ net # 0
    /\ level' = to
    /\ UNCHANGED <<net, mode, running, loop, plan, highest, notes, file, left, entries, sold>>

\* A new bar of the first timeframe.
BarEnds ==
    /\ loop = Idle                       \* a step works with the bars it began with
    /\ entered # {} \/ swapped
    /\ entered' = {} /\ swapped' = FALSE
    /\ UNCHANGED <<net, level, mode, running, loop, plan, highest, unseen, file, left, entries, sold>>

\* The user opens, reduces or closes a position by hand.
TradesByHand(n) ==
    /\ n # net /\ left.hands > 0
    /\ 0 \in {net, n} \/ (SideOf(n) = SideOf(net) /\ Size(n) < Size(net))
    /\ Holds(n, 0, 0)
    /\ left' = [left EXCEPT !.hands = @ - 1]
    /\ UNCHANGED <<level, mode, running, loop, plan, highest, notes, file>>

-----------------------------------------------------------------------------
(* The loop with a position *)

Forget == plan' = NoPlan /\ highest' = 0 /\ level' = 0

BeginStep ==
    /\ running /\ loop = Idle
    /\ loop' = IF HasPosition THEN [Idle EXCEPT !.at = "position", !.price = level]
               ELSE [Idle EXCEPT !.at = "external"]
    /\ NoOrder
    /\ UNCHANGED <<level, mode, running, plan, highest, notes, file, left>>

\* fetch_position: answered; raises, which ends the step; or times out and counts
\* as no position.
ReadPosition(step, next, slow) ==
    /\ loop.at = step
    /\ \E failed \in BOOLEAN :
          /\ Fault(failed)
          /\ loop' \in IF ~failed THEN {[loop EXCEPT !.at = next, !.seen = net]}
                       ELSE {Idle} \cup (IF slow THEN {At(next)} ELSE {})
    /\ NoOrder
    /\ UNCHANGED <<level, mode, running, plan, highest, notes, file>>

\* The third reading in a row without a position drops the plan.
NotSeen ==
    /\ loop.at = "manage" /\ loop.seen = 0
    /\ loop' = Idle /\ NoOrder
    /\ IF unseen + 1 < 3
       THEN unseen' = unseen + 1 /\ UNCHANGED <<plan, highest, level, file>>
       ELSE unseen' = 0 /\ Forget /\ file' = NoPlan
    /\ UNCHANGED <<mode, running, entered, swapped, left>>

\* The stop that the signal of a new structure can bring (meta sl_price).
StructuralStop == -1

\* The signals of the step, with plan p: only the strongest counts against the
\* strongest source of the plan; else the sum of all may reverse.
LookForStronger(p) ==
    \E signals \in SUBSET Signals :
       LET best == {s \in signals : \A t \in signals : s.rank <= t.rank} IN
       IF \E s \in best : s.rank < Min(p.sources)
       THEN \E s \in best :
              \/ /\ s.dir = p.dir
                 /\ \/ plan' = p
                    \/ plan' = [p EXCEPT !.sl = StructuralStop, !.sources = {s.rank}]
                 /\ loop' = Idle /\ NoOrder /\ UNCHANGED left
              \/ /\ s.dir # p.dir /\ swapped
                 /\ plan' = p /\ loop' = Idle /\ NoOrder /\ UNCHANGED left
              \/ /\ s.dir # p.dir /\ ~swapped
                 /\ plan' = p /\ SendClose(p.dir, p.qty, 0, At("swapped"))
       ELSE \E d \in Composed(signals) :
              /\ plan' = p
              /\ IF d = Opposite(p.dir) THEN SendClose(p.dir, p.qty, 0, At("reversed"))
                 ELSE loop' = Idle /\ NoOrder /\ UNCHANGED left

\* should_close, then the signals.
Check(p) ==
    IF StopReached(p, loop.price) \/ Finished(p)
    THEN plan' = p /\ SendClose(p.dir, p.qty, 0, At("closed"))
    ELSE LookForStronger(p)

\* The plan with the quantity that is there and the ladder at the price read.
Synced(peak) ==
    LET hits == TpHits(plan.hits, loop.price) IN
    [plan EXCEPT !.qty = Least(@, Size(loop.seen)), !.hits = hits,
                 !.sl = TrailedStop(mode, @, hits, peak)]

\* What the target reached last sells; the last one closes what is left.
Share(p) == Least(Allocations[p.hits], p.qty)

\* History: the target sold, unless the position is larger than the bot's own.
SoldTarget(p) == IF Size(net) <= p.qty THEN p.hits ELSE 0

Manage ==
    /\ loop.at = "manage" /\ loop.seen # 0
    /\ unseen' = 0
    /\ LET peak == Max({highest, loop.price}) IN
       /\ highest' = peak
       /\ \E p \in {Synced(peak)} :
            IF p.hits > plan.hits /\ p.hits < NTp
            THEN plan' = p /\ SendClose(p.dir, Share(p), SoldTarget(p), At("sold"))
            ELSE Check(p)
    /\ UNCHANGED <<level, mode, running, entered, swapped, file>>

Emptied(rest) == rest = 0

\* The partial close is booked, the file written, and the step goes on.
Sold ==
    /\ loop.at = "sold"
    /\ LET rest == plan.qty - Share(plan) IN
       IF Emptied(rest)
       THEN /\ Forget /\ file' = NoPlan
            /\ loop' = Idle /\ NoOrder /\ UNCHANGED left
       ELSE \E p \in {[plan EXCEPT !.qty = rest]} :
            /\ file' = p /\ Check(p)
            /\ UNCHANGED <<highest, level>>
    /\ UNCHANGED <<mode, running, notes>>

ForgetsClosed == Forget /\ file' = NoPlan

\* After a swap or a reversal the same signal may enter in the same bar.
NoteClose(step) ==
    /\ entered' = IF step = "closed" THEN entered ELSE {}
    /\ swapped' = (swapped \/ step = "swapped")

Closed(step) ==
    /\ loop.at = step
    /\ ForgetsClosed /\ NoteClose(step)
    /\ loop' = Idle /\ NoOrder
    /\ UNCHANGED <<mode, running, unseen, left>>

-----------------------------------------------------------------------------
(* The loop without a position *)

\* Mutant: a position at the exchange does not keep the bot from entering.
Overlooks(n) == FALSE

\* The reading finds a position the bot does not manage.
FindsForeign(n) == n # 0

Dusty(n) == Size(n) <= Dust

\* It is left alone, or closed when it is dust; whatever comes of that order.
SeeForeign ==
    /\ loop.at = "decide" /\ FindsForeign(loop.seen)
    /\ IF Dusty(loop.seen) THEN SendClose(SideOf(loop.seen), Size(loop.seen), 0, Idle)
       ELSE loop' = Idle /\ NoOrder /\ UNCHANGED left
    /\ UNCHANGED <<level, mode, running, plan, highest, notes, file>>

NewPlan(d, sources) == [dir |-> d, sl |-> -1, hits |-> 0, qty |-> Qty, sources |-> sources]

\* The market order of an entry: done, done without an answer, or refused, for lack
\* of funds for one.
SendEntry(p) ==
    \E outcome \in {"done", "lost", "refused"} :
       /\ Fault(outcome # "done")
       /\ IF outcome = "refused" THEN NoOrder ELSE Holds(net + Signed(p.dir, p.qty), 1, 0)
       /\ loop' = IF outcome = "done" THEN [Idle EXCEPT !.at = "opened", !.plan = p] ELSE Idle

\* The signals, unless the trend filter, the pause after a lack of funds or a failed
\* call ends the step.
Decide ==
    /\ loop.at = "decide" /\ ~FindsForeign(loop.seen)
    /\ \/ loop' = Idle /\ NoOrder /\ UNCHANGED left
       \/ \E d \in Sides, sources \in (SUBSET Ranks) \ {{}} :
             /\ sources # entered
             /\ SendEntry(NewPlan(d, sources))
    /\ UNCHANGED <<level, mode, running, plan, highest, notes, file>>

Opened ==
    /\ loop.at = "opened"
    /\ plan' = loop.plan /\ file' = loop.plan
    /\ highest' = 0 /\ level' = 0
    /\ entered' = loop.plan.sources
    /\ loop' = Idle /\ NoOrder
    /\ UNCHANGED <<mode, running, unseen, swapped, left>>

-----------------------------------------------------------------------------
(* start(), stop() and crashes *)

\* Mutant: the file is trusted whatever the quantity.
SameSide(n) == SideOf(n) = file.dir

\* The position the file was written for: its side, and its quantity to a tenth.
Matches(n) ==
    /\ SideOf(n) = file.dir
    /\ 10 * Size(Size(n) - file.qty) <= file.qty

\* _restore_active_position; a failed reading leaves the file alone.
Restore ==
    \/ /\ HasPosition \/ file = NoPlan
       /\ UNCHANGED <<plan, highest, level, file, left>>
    \/ /\ ~HasPosition /\ file # NoPlan
       /\ Fault(TRUE) /\ UNCHANGED <<plan, highest, level, file>>
    \/ /\ ~HasPosition /\ file # NoPlan /\ ~Matches(net)
       /\ file' = NoPlan /\ UNCHANGED <<plan, highest, level, left>>
    \/ /\ ~HasPosition /\ file # NoPlan /\ Matches(net)
       /\ plan' = [file EXCEPT !.qty = Size(net)] /\ file' = plan'
       /\ highest' = 0 /\ level' = 0 /\ UNCHANGED left

Start ==
    /\ ~running /\ running' = TRUE
    /\ Restore /\ NoOrder
    /\ UNCHANGED <<mode, loop, notes>>

Interrupted == left.restarts > 0 /\ left' = [left EXCEPT !.restarts = @ - 1]

\* stop() cancels the loop wherever it waits; the order on its way is done or not.
Stop ==
    /\ running /\ running' = FALSE /\ loop' = Idle
    /\ Interrupted /\ NoOrder
    /\ UNCHANGED <<level, mode, plan, highest, notes, file>>

Crash ==
    /\ running' = FALSE /\ loop' = Idle
    /\ Forget
    /\ unseen' = 0 /\ entered' = {} /\ swapped' = FALSE
    /\ Interrupted /\ NoOrder
    /\ UNCHANGED <<mode, file>>

-----------------------------------------------------------------------------
LoopStep ==
    \/ BeginStep
    \/ ReadPosition("position", "manage", TRUE)
    \/ NotSeen
    \/ Manage
    \/ Sold
    \/ \E step \in {"closed", "swapped", "reversed"} : Closed(step)
    \/ ReadPosition("external", "decide", Timeouts)
    \/ SeeForeign
    \/ Decide
    \/ Opened

ByHand == \E n \in -Qty..Qty : TradesByHand(n)

Next ==
    \/ LoopStep
    \/ \E to \in Levels : PriceMoves(to)
    \/ BarEnds
    \/ ByHand
    \/ Start
    \/ Stop
    \/ Crash

Spec == Init /\ [][Next]_vars

\* A running loop goes on.
FairSpec == Spec /\ WF_vars(LoopStep)

-----------------------------------------------------------------------------
PlanType == [dir : Sides, sl : Levels, hits : 0..NTp, qty : 1..Qty, sources : SUBSET Ranks]

\* The state is well-formed; in particular a plan always has a quantity left.
TypeOK ==
    /\ net \in -2*Qty..2*Qty /\ level \in Levels /\ mode \in Modes
    /\ running \in BOOLEAN /\ swapped \in BOOLEAN
    /\ loop.at \in {"idle", "position", "manage", "sold", "closed", "swapped", "reversed",
                    "external", "decide", "opened"}
    /\ plan \in {NoPlan} \cup PlanType /\ file \in {NoPlan} \cup PlanType
    /\ highest \in 0..NTp /\ unseen \in 0..2 /\ entered \subseteq Ranks
    /\ entries \in Nat /\ sold \in [1..NTp -> 0..2]

\* The bot never puts a second entry on top of its own position, whether it has
\* lost the answer of the first, was stopped while it was on its way or has
\* crashed: the reading of the position before an entry has to catch them all.
OneEntry == entries <= 1

\* No target of a position of the bot is sold twice, across lost answers, restarts and the
\* file that is written only when a close is booked.
SoldOnce == \A i \in 1..NTp : sold[i] <= 1

\* A position the bot manages does not stay at or beyond its stop: the loop
\* closes it in the end, whatever the signals, failed calls and the user do.
StopFires ==
    ~<>[](running /\ HasPosition /\ SideOf(net) = plan.dir /\ level <= plan.sl)
=============================================================================
