------------------------------- MODULE Decision -------------------------------
(***************************************************************************)
(* How BotIctInstance decides on an entry: the signal of the step, the     *)
(* gates it has to pass, the setup the bot remembers, the daily limits and *)
(* the block after a close by hand; with the step of several timeframes    *)
(* and the entry that an administrator forces.                             *)
(*                                                                         *)
(* Two coroutines place orders: the loop and a forced entry.  An action    *)
(* runs a coroutine up to the await after which the rest of the bot may    *)
(* have moved on.  What happens to a position is in IctBot; here it is     *)
(* open until the exchange closes it.                                      *)
(***************************************************************************)
EXTENDS DailyLimits, FiniteSets, FiniteSetsExt

CONSTANTS
    Setups,      \* the setups of the market, numbers in the order of their bars
    DirOf,       \* their directions
    Mmbm,        \* those that only detect_mmbm_setup finds
    Forced,      \* the setup force_entry_long makes
    Aligned,     \* htf_ema_align_enabled: a trend without direction passes no gate
    Scenes       \* what behaviours are looked at: [multiTf, limits (the values of
                 \* daily_loss_limit_pct), and the bounds setups, trends, days, pnl (of a
                 \* day), faults: reads of "balance", "results" or "trend", the "recovery";
                 \* "position": the exchange holds a position of the user]

ASSUME DecisionAssumption ==
    /\ Setups \subseteq Nat \ {0} /\ IsFiniteSet(Setups) /\ Forced \in Nat \ Setups
    /\ Forced # 0 /\ Mmbm \subseteq Setups
    /\ \A x \in Scenes : x.multiTf \in BOOLEAN /\ {x.setups, x.days, x.pnl} \cup x.limits \subseteq Nat
    /\ Aligned \in BOOLEAN

VARIABLES
    scene,     \* config.multi_tf and the bounds
    chart,     \* [seen, live, trend]: setups so far, setups found now, the direction
               \* of the EMAs
    loop,      \* the loop: [at, setup]
    forced,    \* the forced entry: [at, setup]
    last,      \* _last_setup_ts_ms, _last_setup_direction
    active,    \* active_position: the setup it was opened for
    block,     \* _reentry_block: its direction or "none"
    recoveryFailed,
    judged,    \* history: setups the bot has decided on
    repeats    \* history: setups ordered since another one was remembered

vars == <<scene, chart, loop, forced, last, active, block, recoveryFailed, judged, repeats,
          date, closed, book, limit, flags, reached>>

Idle == [at |-> "idle", setup |-> 0]
Busy(step, s) == [at |-> step, setup |-> s]

Init ==
    /\ scene \in Scenes
    /\ LimitsInit(scene.limits)
    /\ \E d \in scene.trends : chart = [seen |-> 0, live |-> {}, trend |-> d]
    /\ loop = Idle /\ forced = Idle
    /\ last = 0 /\ active = 0 /\ block = "none"
    /\ recoveryFailed = FALSE
    /\ judged = {} /\ repeats = {}

Fails(f) == IF f \in scene.faults THEN {TRUE, FALSE} ELSE {FALSE}

-----------------------------------------------------------------------------
(* The market *)

Outside == <<loop, forced, last, active, block, recoveryFailed, judged, repeats>>

SetupForms ==
    /\ chart.seen < scene.setups /\ chart.seen + 1 \in Setups
    /\ chart' = [chart EXCEPT !.seen = @ + 1, !.live = @ \cup {chart.seen + 1}]
    /\ UNCHANGED <<Outside, limitVars>>

\* A setup is too old, or its target is taken.
SetupFades(s) ==
    /\ s \in chart.live
    /\ chart' = [chart EXCEPT !.live = @ \ {s}]
    /\ UNCHANGED <<Outside, limitVars>>

TrendTurns(d) ==
    /\ d # chart.trend
    /\ chart' = [chart EXCEPT !.trend = d]
    /\ UNCHANGED <<Outside, limitVars>>

DayEnds == date < scene.days /\ Midnight /\ UNCHANGED <<chart, Outside>>

Bounded == {closed'.all, closed'.pair} \subseteq -scene.pnl..scene.pnl

OthersRealize(pnl) == Realizes(pnl, FALSE) /\ Bounded /\ UNCHANGED <<chart, Outside>>

-----------------------------------------------------------------------------
(* The signal and the gates *)

Latest(S) == IF S = {} THEN 0 ELSE Max(S)

\* generate_ict_signal with prefer_direction: the latest setup in the direction
\* of the trend, or of any direction when that is unknown.
SignalSetup(prefer) ==
    Latest({s \in chart.live \ Mmbm : prefer \in {"none", DirOf[s]}})

\* What _compute_htf_ema_direction and the gate after it read: a failed read is
\* no direction for the one and no objection for the other.
TrendRead == {IF fails THEN "unread" ELSE chart.trend : fails \in Fails("trend")}
Prefer(r) == IF r = "unread" THEN "none" ELSE r
EmaPasses(s, r) ==
    \/ r \in {"unread", DirOf[s]}
    \/ r = "none" /\ ~Aligned

\* Mutant: a setup the EMA gate refuses is remembered.
RefusedByEmaForGood(s) == /\ last' = s /\ UNCHANGED judged

\* A setup the EMA gate refuses is looked at again in the next step.
RefusedByEma(s) == UNCHANGED <<last, judged>>

Remember(s) == last' = s /\ judged' = judged \cup {s} /\ repeats' = repeats \cap {s}

GoOn(s) ==
    /\ loop' = Busy("check", s)
    /\ UNCHANGED <<last, judged, repeats>>

\* step(): the gates that do not depend on the EMAs decide by what the setup, the
\* market and the clock are now; what they refuse they remember.
Judge(s, gate, inWindow) ==
    \/ /\ ~inWindow                                \* exclude_nypm, in_trade_window_sub
       /\ Remember(s) /\ UNCHANGED loop
    \/ /\ inWindow
       /\ recoveryFailed \/ s = last
       /\ UNCHANGED <<loop, last, judged, repeats>>
    \/ /\ inWindow /\ ~recoveryFailed /\ s # last
       /\ ~EmaPasses(s, gate)
       /\ RefusedByEma(s) /\ UNCHANGED <<loop, repeats>>
    \/ /\ inWindow /\ ~recoveryFailed /\ s # last
       /\ EmaPasses(s, gate)
       /\ \/ GoOn(s)
          \/ Remember(s) /\ UNCHANGED loop          \* regime, alignment, grade, override,
                                                    \* conflict or sweep gate

\* detect_mmbm_setup is asked when there is no signal; it passes no gate.
JudgeMmbm ==
    LET s == Latest(chart.live \cap Mmbm) IN
    IF s # 0 /\ ~recoveryFailed /\ s # last THEN GoOn(s)
    ELSE UNCHANGED <<loop, last, judged, repeats>>

LookAt(inWindow) ==
    /\ ~scene.multiTf /\ loop = Idle
    /\ \E failed \in Fails("balance") :
       \E answer \in {"today"} \cup (IF "results" \in scene.faults THEN {"empty", "raises"} ELSE {}) :
          LookAtDay(~failed, answer)
    /\ IF active # 0 THEN UNCHANGED <<loop, last, judged, repeats>>
       ELSE \E r, gate \in TrendRead :
          LET s == SignalSetup(Prefer(r)) IN
          IF s # 0 THEN Judge(s, gate, inWindow) ELSE JudgeMmbm
    /\ UNCHANGED <<chart, forced, active, block, recoveryFailed>>

Look == \E inWindow \in BOOLEAN : LookAt(inWindow)

\* _step_multi_tf: any setup the price has come back to and the lower timeframe
\* confirms; the day is not looked at.
LookMultiTf ==
    /\ scene.multiTf /\ loop = Idle /\ active = 0
    /\ \E s \in chart.live \ {last}, gate \in TrendRead :
          \/ EmaPasses(s, gate) /\ GoOn(s)
          \/ ~EmaPasses(s, gate) /\ RefusedByEma(s) /\ UNCHANGED <<loop, repeats>>
    /\ UNCHANGED <<chart, forced, active, block, recoveryFailed, limitVars>>

-----------------------------------------------------------------------------
(* _execute_setup, for the loop and for a forced entry *)

Direction(s) == IF s = Forced THEN "long" ELSE DirOf[s]

\* The block bars its direction within one percent of where the position was.
MayBlock(s) == active = 0 /\ block = Direction(s)

\* The entry is not made.  The loop remembers the setup all the same.
GiveUp(who, s) ==
    IF who = "loop" THEN loop' = Idle /\ Remember(s) /\ UNCHANGED forced
    ELSE forced' = Idle /\ UNCHANGED <<loop, last, judged, repeats>>

Working(who) == IF who = "loop" THEN loop ELSE forced

\* The block and the position at the exchange are only looked at while the bot
\* has no position of its own; then the balance is read and the limits checked.
\* Of a position of the user at the exchange the bot knows nothing before.
CheckFails(who) ==
    LET s == Working(who).setup IN
    /\ Working(who).at = "check"
    /\ MayBlock(s) \/ (active = 0 /\ "position" \in scene.faults)
    /\ GiveUp(who, s)
    /\ UNCHANGED <<chart, active, block, recoveryFailed, limitVars>>

CheckBarred(who) ==
    LET s == Working(who).setup IN
    /\ Working(who).at = "check"
    /\ \E failed \in Fails("balance") : Barred(~failed) # {} /\ CheckDay(~failed)
    /\ GiveUp(who, s)
    /\ UNCHANGED <<chart, active, block, recoveryFailed>>

CheckPasses(who) ==
    LET s == Working(who).setup IN
    /\ Working(who).at = "check"
    /\ \E failed \in Fails("balance") : Barred(~failed) = {} /\ CheckDay(~failed)
    /\ IF who = "loop" THEN loop' = Busy("order", s) /\ UNCHANGED forced
       ELSE forced' = Busy("order", s) /\ UNCHANGED loop
    /\ UNCHANGED <<chart, last, active, block, recoveryFailed, judged, repeats>>

\* Too far a stop, no quantity left, or place_order fails: the loop remembers.
OrderDropped(who) ==
    LET s == Working(who).setup IN
    /\ Working(who).at = "order"
    /\ GiveUp(who, s)
    /\ UNCHANGED <<chart, active, block, recoveryFailed, limitVars>>

\* Mutant: only an order that was refused is remembered.
OrderedForgets(who, s) ==
    IF who = "loop" THEN loop' = Idle /\ judged' = judged \cup {s}
                         /\ repeats' = repeats \cup {s} /\ UNCHANGED <<last, forced>>
    ELSE forced' = Idle /\ UNCHANGED <<loop, last, judged, repeats>>

Ordered(who, s) ==
    IF who = "loop" THEN /\ loop' = Idle /\ last' = s /\ judged' = judged \cup {s}
                         /\ repeats' = {s} /\ UNCHANGED forced
    ELSE forced' = Idle /\ UNCHANGED <<loop, last, judged, repeats>>

OrderFills(who) ==
    LET s == Working(who).setup IN
    /\ Working(who).at = "order"
    /\ active' = s /\ block' = "none"
    /\ Ordered(who, s)
    /\ UNCHANGED <<chart, recoveryFailed, limitVars>>

\* A resting entry is IctBot's; here it lapses.
OrderRests(who) ==
    LET s == Working(who).setup IN
    /\ Working(who).at = "order"
    /\ Ordered(who, s)
    /\ UNCHANGED <<chart, active, block, recoveryFailed, limitVars>>

-----------------------------------------------------------------------------
(* Closes and requests *)

\* The exchange closes the position and the next sync books it; a close that is
\* neither SL nor TP was by hand and arms the block.
PositionCloses(pnl, byHand) ==
    /\ loop = Idle /\ active # 0
    /\ Realizes(pnl, TRUE) /\ Bounded
    /\ block' = IF byHand THEN Direction(active) ELSE block
    /\ active' = 0
    /\ UNCHANGED <<chart, loop, forced, last, recoveryFailed, judged, repeats>>

BlockExpires ==
    /\ block # "none" /\ block' = "none"
    /\ UNCHANGED <<chart, loop, forced, last, active, recoveryFailed, judged,
                   repeats, limitVars>>

\* force_entry_long: the bot must be free, then the price is asked for.
ForceAsked ==
    /\ forced = Idle /\ active = 0
    /\ forced' = Busy("check", Forced)
    /\ UNCHANGED <<chart, loop, last, active, block, recoveryFailed, judged,
                   repeats, limitVars>>

LossLimitSet(l) == SetLossLimit(l) /\ UNCHANGED <<chart, Outside>>

\* A restart with no position: the recovery may fail, and then blocks entries.
Restart ==
    /\ active = 0 /\ loop = Idle /\ forced = Idle
    /\ recoveryFailed' \in {FALSE} \cup Fails("recovery")
    /\ last' = 0 /\ block' = "none"
    /\ judged' = {} /\ repeats' = {}
    /\ ForgetDay
    /\ UNCHANGED <<chart, loop, forced, active>>

-----------------------------------------------------------------------------
Workers == {"loop", "forced"}

Execute(who) ==
    CheckFails(who) \/ CheckBarred(who) \/ CheckPasses(who)
    \/ OrderDropped(who) \/ OrderFills(who) \/ OrderRests(who)

Market ==
    \/ SetupForms \/ DayEnds \/ BlockExpires
    \/ \E s \in Setups : SetupFades(s)
    \/ \E d \in scene.trends : TrendTurns(d)
    \/ \E pnl \in {-1, 1} : OthersRealize(pnl)
    \/ \E pnl \in -1..1, byHand \in BOOLEAN : PositionCloses(pnl, byHand)

Steps ==
    \/ Market
    \/ Look \/ LookMultiTf
    \/ \E who \in Workers : Execute(who)
    \/ ForceAsked \/ Restart
    \/ \E l \in scene.limits : LossLimitSet(l)

Next == Steps /\ UNCHANGED scene

Spec == Init /\ [][Next]_vars

\* The loop goes on, and some of its steps are in the trading window.
FairSpec == Spec /\ WF_vars(LookAt(TRUE) /\ UNCHANGED scene)
                 /\ WF_vars(Execute("loop") /\ UNCHANGED scene)

-----------------------------------------------------------------------------
(* Properties *)

TypeOK ==
    /\ chart.live \subseteq 1..chart.seen
    /\ \A w \in {loop, forced} : /\ w.at \in {"idle", "check", "order"}
                                 /\ w.at = "idle" <=> w.setup = 0
    /\ {last, active} \subseteq {0, Forced} \cup Setups
    /\ flags \subseteq Limits /\ reached \subseteq Limits
    /\ {closed.all, closed.pair} \subseteq -scene.pnl..scene.pnl /\ book.date \in 0..date
    /\ flags # {} => book.base

\* Once the bot has seen a daily limit reached, no entry passes its check until the
\* next daily reset, however the result of the day moves afterwards.
DailyStop ==
    [][\A who \in Workers :
         (Working(who).at = "check" /\ Working(who)'.at = "order") => reached' = {}]_vars

\* A setup the bot has ordered is ordered again only after it has decided on
\* another setup in between, whatever came of the order.
RepeatNeedsOther ==
    [][(loop.at = "order" /\ active' # active) => loop.setup \notin repeats]_vars

\* A setup that stays the latest one, in the direction of the trend, while the bot
\* is free to enter, is decided on: the EMA gate puts it off but never bars it.
Undecided(s) ==
    /\ s \in chart.live /\ s = Latest(chart.live) /\ chart.trend = DirOf[s]
    /\ active = 0 /\ ~recoveryFailed /\ ~scene.multiTf
    /\ s \notin judged

GateIsTemporary == \A s \in Setups \ Mmbm : ~<>[]Undecided(s)
=============================================================================
