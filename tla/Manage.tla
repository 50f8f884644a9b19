-------------------------------- MODULE Manage --------------------------------
(***************************************************************************)
(* What BotIctInstance does with an open position, step by step: the break- *)
(* even lock, the first half at TP1 (sold by the bot or left at the         *)
(* exchange), the structure trail, the exchange's own trailing, the flip    *)
(* into a higher timeframe's gap, the sync that verifies it all; with the   *)
(* FlipWatcher beside it on ticks, and restarts that must guess what was    *)
(* already done.  A long position; IctBot tells of its entry and its end.   *)
(***************************************************************************)
EXTENDS Integers

CONSTANTS
    Zone,           \* the levels of the flip target
    FlipMin,        \* the level from which _flip_profit_r reaches flip_min_r
    MaxTouches,     \* htf_fvg_max_touch_count
    Styles,         \* the settings checked, sets of AllStyles
    Troubles, MaxTroubles,  \* what may go wrong, of AllTroubles, and how often
    MaxPositions,   \* bound on positions
    MaxMoves        \* bound on price moves and new bars

\* Levels of the price, by what happens there.
Stop0 == 0
Entry == 1
BeTrigger == 2
Tp1 == 3
TrailTrigger == 4
Tp == 5
Marks == Stop0..Tp
AllStyles == {"be",         \* be_trigger_r > 0
              "half",       \* partial_tp_rr > 0, with partial_be
              "halfAtExchange",  \* partial_tp_exchange as well
              "trailing",   \* trail_trigger_r and trail_dist_r > 0
              "trail"}      \* enable_trail
AllTroubles == {"refused",  \* a write is refused
                "lost",     \* a write succeeds, its answer is lost
                "unread",   \* the position cannot be read: the adapter says there is none
                "crash"}    \* the process dies and is started again

ASSUME ManageAssumption ==
    /\ Zone \subseteq Marks /\ FlipMin \in Marks
    /\ \A s \in Styles : s \subseteq AllStyles
    /\ Troubles \subseteq AllTroubles
    /\ {MaxTouches, MaxTroubles, MaxPositions, MaxMoves} \subseteq Nat

VARIABLES
    style,      \* the settings in force
    market,     \* price, the forming bar's high, and whether the trailing is on
    ex,         \* the exchange's position: quantity, stop, TP, half order, trailing
    mem,        \* active_position, or NoPosition
    step,       \* the loop: the call it waits for, its answer, and the bar it read
    checked,    \* _last_flip_check_bar_ts is the forming bar
    watch,      \* FlipWatcher: mode, last price, its handler and answer
    zone,       \* the target's touch_count, and whether its ts is in _fired_target_ts
    count,      \* bounds: positions, moves, troubles
    ghost,      \* of the position: halves sold, whether a restart or loss blurred it
    blind       \* history: a failed read has hidden the position from this life of the bot

managed == <<style, market, ex, mem, step, checked, watch, zone, count, ghost, blind>>

Full == 4
Nil == -1
NoPosition == [qty |-> 0, sl |-> Nil, done |-> FALSE, onExchange |-> FALSE,
               armed |-> FALSE, be |-> FALSE, target |-> FALSE]
Flat == [qty |-> 0, sl |-> Nil, half |-> 0, trailing |-> FALSE]
At(call, answer, bar) == [call |-> call, answer |-> answer, bar |-> bar]
NoBar == [high |-> Stop0, close |-> Stop0]
Resting == At("sleep", "ok", NoBar)

ManageTypeOK ==
    /\ style \in Styles
    /\ market \in [price : Marks, high : Marks, trails : BOOLEAN]
    /\ ex \in [qty : 0..Full, sl : Nil..Tp, half : 0..Full, trailing : BOOLEAN]
    /\ mem \in [qty : 0..Full, sl : Nil..Tp, done : BOOLEAN, onExchange : BOOLEAN,
                armed : BOOLEAN, be : BOOLEAN, target : BOOLEAN]
    /\ step.call \in {"down", "sleep", "entry", "arm", "setHalf", "be", "half", "halfBe", "trail",
                      "flip1", "flip2", "read", "verify", "closed"}
    /\ watch.mode \in {"off", "ws", "polling"}
    /\ watch.does \in {"idle", "verify", "exit1", "exit2"}
    /\ {checked, blind} \subseteq BOOLEAN /\ zone \in [touches : 0..MaxTouches, fired : BOOLEAN]

ManageInit ==
    /\ style \in Styles
    /\ market = [price |-> Entry, high |-> Entry, trails |-> FALSE]
    /\ ex = Flat /\ mem = NoPosition /\ step = Resting /\ checked = FALSE
    /\ watch = [mode |-> "ws", last |-> Nil, does |-> "idle", answer |-> "ok"]
    /\ zone = [touches |-> 0, fired |-> FALSE]
    /\ count = [positions |-> 0, moves |-> 0, troubles |-> 0]
    /\ ghost = [sold |-> 0, blurred |-> FALSE] /\ blind = FALSE

-----------------------------------------------------------------------------
(* A write at the exchange, and what the bot is told. *)

Trouble(kind) ==
    /\ kind \in Troubles /\ count.troubles < MaxTroubles
    /\ count' = [count EXCEPT !.troubles = @ + 1]

Blurred == [sold |-> 0, blurred |-> TRUE]
SoldSoFar(q) == IF ghost.blurred THEN ghost ELSE [ghost EXCEPT !.sold = @ + q]

\* The exchange's new position, if it takes the order; the answer.  A second attempt may
\* be refused like the first.
Write(possible, after, sold, answer, again) ==
    \/ /\ answer = "ok" /\ possible /\ ex' = after /\ UNCHANGED count
       /\ ghost' = SoldSoFar(sold)
    \/ /\ answer = "no" /\ ~possible /\ UNCHANGED <<ex, count, ghost>>
    \/ /\ answer = "no" /\ possible /\ UNCHANGED <<ex, ghost>>
       /\ IF again THEN UNCHANGED count ELSE Trouble("refused")
    \/ /\ answer = "no" /\ possible /\ Trouble("lost") /\ ex' = after
       /\ ghost' = Blurred

\* A stop is taken while there is a position and the price is above it.
StopTaken(sl) == ex.qty > 0 /\ sl < market.price
Sold(q) == IF q >= ex.qty THEN Flat ELSE [ex EXCEPT !.qty = @ - q]
Least(a, b) == IF a < b THEN a ELSE b
Half(q) == q \div 2

\* The call of each stage of step(), with its effect.
Call(stage, m, bar) ==
    \E a \in {"ok", "no"} :
       /\ step' = At(stage, a, bar)
       /\ CASE stage = "be"     -> Write(StopTaken(Entry), [ex EXCEPT !.sl = Entry], 0, a, FALSE)
            [] stage = "half"   -> Write(ex.qty > 0 /\ Half(m.qty) > 0, Sold(Half(m.qty)),
                                         Least(Half(m.qty), ex.qty), a, FALSE)
            [] stage = "halfBe" -> Write(StopTaken(Entry), [ex EXCEPT !.sl = Entry], 0, a, FALSE)
            [] stage = "verify" -> Write(StopTaken(m.sl), [ex EXCEPT !.sl = m.sl], 0, a, FALSE)
            [] stage \in {"flip1", "flip2"} -> Write(ex.qty > 0, Sold(m.qty), 0, a, stage = "flip2")
            [] stage = "arm"    -> Write(ex.qty > 0, [ex EXCEPT !.trailing = TRUE], 0, a, FALSE)
            [] stage = "setHalf" -> Write(ex.qty > 0, [ex EXCEPT !.half = Half(m.qty)], 0, a, FALSE)

-----------------------------------------------------------------------------
(* step() with a position: each stage acts on the bar read at the beginning. *)

\* _maybe_be_lock: not again, and not when the stop is at the entry already.
WantsBe(m, bar) == "be" \in style /\ ~m.be /\ m.sl # Entry /\ bar.high >= BeTrigger

\* _maybe_partial_exit, unless the exchange holds the order or trails.
WantsHalf(m, bar) ==
    "half" \in style /\ ~m.onExchange /\ ~m.armed /\ ~m.done /\ bar.high >= Tp1

\* _tick_trail: a swing between the entry and the close, above the stop.
\* Mutant: whatever the stop is.
SwingsAny(m, bar) == IF "trail" \in style THEN Entry + 1..bar.close - 1 ELSE {}
Swings(m, bar) ==
    IF "trail" \in style THEN {l \in Entry + 1..bar.close - 1 : l > m.sl} ELSE {}

\* _maybe_flip, once a bar, and handle_htf_flip's profit test.
\* Mutant: a flip the watcher tried is not tried again.
LooksUnlessFired(m) == m.target /\ ~checked /\ ~zone.fired
LooksForFlip(m) == m.target /\ ~checked
FlipsAt(m, price) == m.target /\ price \in Zone
Enough(price) == price >= FlipMin

Reads(bar) == step' = At("read", "ok", bar) /\ UNCHANGED <<ex, count, ghost>>

FlipStage(m, bar) ==
    /\ mem' = m /\ checked' = (checked \/ LooksForFlip(m))
    /\ IF LooksForFlip(m) /\ FlipsAt(m, bar.close) /\ Enough(bar.close)
         THEN Call("flip1", m, bar) ELSE Reads(bar)

TrailStage(m, bar) ==
    IF Swings(m, bar) = {} THEN FlipStage(m, bar)
    ELSE \/ FlipStage(m, bar)       \* no swing of the chart is there
         \/ /\ UNCHANGED checked
            /\ \E l \in Swings(m, bar), a \in {"ok", "no"} :
                  /\ step' = At("trail", a, bar) /\ mem' = [m EXCEPT !.sl = l]
                  /\ Write(StopTaken(l), [ex EXCEPT !.sl = l], 0, a, FALSE)

HalfStage(m, bar) ==
    IF WantsHalf(m, bar) THEN mem' = m /\ UNCHANGED checked /\ Call("half", m, bar)
                         ELSE TrailStage(m, bar)

BeStage(m, bar) ==
    IF WantsBe(m, bar) THEN mem' = m /\ UNCHANGED checked /\ Call("be", m, bar)
                       ELSE HalfStage(m, bar)

Others == UNCHANGED <<style, market, watch, zone, blind>>

Waits(call) == step.call = call

\* step(): the bars are read, then the position's stages begin.
StepBegins ==
    /\ Waits("sleep") /\ mem # NoPosition
    /\ BeStage(mem, [high |-> market.high, close |-> market.price])
    /\ Others

\* The position is gone from the memory in the middle of a step: every stage returns.
Gone == mem = NoPosition /\ step.call \in {"be", "half", "halfBe", "trail", "flip1", "flip2", "arm", "setHalf"}
StepLosesIt ==
    /\ Gone /\ Reads(step.bar) /\ UNCHANGED <<mem, checked>> /\ Others

BeAnswered ==
    /\ Waits("be") /\ ~Gone
    /\ HalfStage(IF step.answer = "ok" THEN [mem EXCEPT !.sl = Entry, !.be = TRUE] ELSE mem,
                 step.bar)
    /\ Others

\* A refused half is tried again in the next step; a sold one moves the stop.
\* Mutant: partial_done is forgotten.
HalfAnsweredOften ==
    /\ Waits("half") /\ ~Gone
    /\ IF step.answer = "ok"
         THEN LET m == [mem EXCEPT !.qty = @ - Half(@), !.sl = Entry]
              IN  mem' = m /\ UNCHANGED checked /\ Call("halfBe", m, step.bar)
         ELSE TrailStage(mem, step.bar)
    /\ Others

HalfAnswered ==
    /\ Waits("half") /\ ~Gone
    /\ IF step.answer = "ok"
         THEN LET m == [mem EXCEPT !.qty = @ - Half(@), !.done = TRUE, !.sl = Entry]
              IN  mem' = m /\ UNCHANGED checked /\ Call("halfBe", m, step.bar)
         ELSE TrailStage(mem, step.bar)
    /\ Others

HalfBeAnswered == Waits("halfBe") /\ ~Gone /\ TrailStage(mem, step.bar) /\ Others

\* modify_stop_loss reports no refusal: the memory has the new stop already.
TrailAnswered == Waits("trail") /\ ~Gone /\ FlipStage(mem, step.bar) /\ Others

\* handle_htf_flip: two attempts; a failure leaves the position to the loop, a
\* success forgets it.
\* Mutant: forgotten whatever the answer.
FlipAnsweredBlind ==
    /\ step.call \in {"flip1", "flip2"} /\ ~Gone
    /\ IF step.answer = "no" /\ Waits("flip1")
         THEN Call("flip2", mem, step.bar) /\ UNCHANGED mem
         ELSE Reads(step.bar) /\ mem' = NoPosition
    /\ UNCHANGED checked /\ Others

FlipAnswered ==
    /\ step.call \in {"flip1", "flip2"} /\ ~Gone
    /\ IF step.answer = "no" /\ Waits("flip1")
         THEN Call("flip2", mem, step.bar) /\ UNCHANGED mem
         ELSE Reads(step.bar) /\ mem' = (IF step.answer = "ok" THEN NoPosition ELSE mem)
    /\ UNCHANGED checked /\ Others

Sleeps == step' = Resting /\ UNCHANGED <<ex, count, ghost>>

\* _reconcile_open_position: the half order's fill is recognised by the quantity, any
\* other change is taken over.
Reconciled(m, qty) ==
    IF m.onExchange /\ ~m.done /\ 10 * qty <= 6 * m.qty
      THEN [m EXCEPT !.qty = qty, !.done = TRUE, !.sl = Entry]
      ELSE [m EXCEPT !.qty = qty]

\* _sync_position_state: with a position the stop is verified; without one the close
\* is looked for and the position forgotten.
SyncReads ==
    /\ Waits("read") /\ UNCHANGED checked /\ Others
    /\ IF mem = NoPosition THEN Sleeps /\ UNCHANGED mem
       ELSE IF ex.qty = 0
         THEN step' = At("closed", "ok", NoBar) /\ UNCHANGED <<mem, ex, count, ghost>>
         ELSE LET m == Reconciled(mem, ex.qty)
              IN  mem' = m /\ IF ex.sl # m.sl THEN Call("verify", m, NoBar) ELSE Sleeps

\* The read fails on the network, and the adapter says that there is no position.
SyncMisreads ==
    /\ Waits("read") /\ mem # NoPosition /\ ex.qty > 0
    /\ Trouble("unread")
    /\ step' = At("closed", "ok", NoBar)
    /\ ghost' = Blurred /\ blind' = TRUE
    /\ UNCHANGED <<style, market, ex, mem, checked, watch, zone>>

SyncVerified == Waits("verify") /\ Sleeps /\ UNCHANGED <<mem, checked>> /\ Others

SyncBooks == Waits("closed") /\ Sleeps /\ mem' = NoPosition /\ UNCHANGED checked /\ Others

-----------------------------------------------------------------------------
(* An entry, as far as it sets the position up: the order, the stop (IctBot), the
   exchange's trailing, and only without it the half order. *)

\* No entry while an order of the watcher is unanswered: the loop sleeps longer than
\* an order takes (bound).
EntryFills ==
    /\ Waits("sleep") /\ mem = NoPosition /\ ex = Flat
    /\ watch.does \notin {"exit1", "exit2"}
    /\ count.positions < MaxPositions
    /\ count' = [count EXCEPT !.positions = @ + 1]
    /\ market' = [price |-> Entry, high |-> Entry, trails |-> FALSE]
    /\ ex' = [Flat EXCEPT !.qty = Full, !.sl = Stop0]
    /\ mem' = [NoPosition EXCEPT !.qty = Full, !.sl = Stop0, !.target = TRUE]
    /\ ghost' = [sold |-> 0, blurred |-> FALSE] /\ blind' = FALSE
    /\ step' = At("entry", "ok", NoBar)
    /\ UNCHANGED <<style, checked, watch, zone>>

\* _setup_partial_tps
SetsHalf(m) ==
    IF {"half", "halfAtExchange"} \subseteq style /\ ~m.armed THEN Call("setHalf", m, NoBar)
                                                             ELSE Sleeps

EntryArms ==
    /\ Waits("entry") /\ mem # NoPosition
    /\ UNCHANGED <<mem, checked>> /\ Others
    /\ IF "trailing" \in style THEN Call("arm", mem, NoBar) ELSE SetsHalf(mem)

EntryLost == Waits("entry") /\ mem = NoPosition /\ Sleeps /\ UNCHANGED <<mem, checked>> /\ Others

\* After a restart there is no half order to set.
ArmAnswered ==
    /\ Waits("arm") /\ ~Gone
    /\ LET m == [mem EXCEPT !.armed = step.answer = "ok"]
       IN  mem' = m /\ IF m.target THEN SetsHalf(m) ELSE Sleeps
    /\ UNCHANGED checked /\ Others

HalfSet ==
    /\ Waits("setHalf") /\ ~Gone
    /\ mem' = [mem EXCEPT !.onExchange = step.answer = "ok"] /\ Sleeps
    /\ UNCHANGED checked /\ Others

-----------------------------------------------------------------------------
(* FlipWatcher. *)

Watch(changes) == watch' = changes
Loop == UNCHANGED <<style, market, step, checked, blind>>

\* _handle_price up to the lock: touches are counted on the way in; a target that was
\* touched too often is dropped, unless its copy in the position is older than the map;
\* one that fired is not looked at.  Handlers that wait for the lock find it fired.
Touched(price) == watch.last # Nil /\ watch.last \notin Zone /\ price \in Zone

Seen == watch.last = market.price

Tick ==
    /\ watch.mode = "ws" /\ watch.does = "idle" /\ ~Seen
    /\ LET n == IF Touched(market.price) /\ zone.touches < MaxTouches
                  THEN zone.touches + 1 ELSE zone.touches
       IN  \E drops \in {FALSE, mem.target /\ n >= MaxTouches} :
             /\ zone' = [zone EXCEPT !.touches = n]
             /\ mem' = IF drops THEN [mem EXCEPT !.target = FALSE] ELSE mem
             /\ Watch([watch EXCEPT !.last = market.price,
                         !.does = IF ~drops /\ FlipsAt(mem, market.price) /\ ~zone.fired
                                    THEN "verify" ELSE "idle"])
    /\ UNCHANGED <<ex, count, ghost>> /\ Loop

\* handle_htf_flip keeps the position it began with, whatever becomes of the memory.
Exit(attempt) ==
    \E a \in {"ok", "no"} : /\ Watch([watch EXCEPT !.does = attempt, !.answer = a])
                            /\ Write(ex.qty > 0, Sold(IF mem = NoPosition THEN Full ELSE mem.qty),
                                     0, a, attempt = "exit2")

\* The price asked for is a number where a dictionary is expected: the tick's own
\* price stands.  The target counts as fired before the profit test.
WatcherFires ==
    /\ watch.does = "verify"
    /\ IF mem.target /\ ~zone.fired
         THEN /\ zone' = [zone EXCEPT !.fired = TRUE]
              /\ IF Enough(watch.last) THEN Exit("exit1")
                 ELSE Watch([watch EXCEPT !.does = "idle"]) /\ UNCHANGED <<ex, count, ghost>>
         ELSE /\ Watch([watch EXCEPT !.does = "idle"]) /\ UNCHANGED <<ex, count, ghost, zone>>
    /\ UNCHANGED mem /\ Loop

WatcherAnswered ==
    /\ watch.does \in {"exit1", "exit2"}
    /\ IF watch.answer = "no" /\ watch.does = "exit1"
         THEN Exit("exit2") /\ UNCHANGED mem
         ELSE /\ Watch([watch EXCEPT !.does = "idle", !.answer = "ok"])
              /\ UNCHANGED <<ex, count, ghost>>
              /\ mem' = IF watch.answer = "ok" THEN NoPosition ELSE mem
    /\ UNCHANGED zone /\ Loop

\* subscribe_ticker gives up after reconnect_max failures in a row and the polling
\* begins.  It gets no price, and as the task that gives up is not done yet, nobody
\* tries the WebSocket again.
Disconnects ==
    /\ watch.mode = "ws"
    /\ Watch([watch EXCEPT !.mode = "polling", !.last = IF watch.does = "idle" THEN Nil ELSE @])
    /\ UNCHANGED <<ex, mem, zone, count, ghost>> /\ Loop

-----------------------------------------------------------------------------
(* The exchange, the price and the process. *)

\* A move of the price, with a position and, unless its handler works, no price the
\* watcher has not seen (bounds); and the stop, target, half order or trailing it sets off.
PriceMoves ==
    /\ count.moves < MaxMoves /\ ex.qty > 0 /\ (watch.mode = "ws" => Seen \/ watch.does # "idle")
    /\ \E p \in Marks \cap {market.price - 1, market.price + 1} :
          /\ market' = [price |-> p, high |-> IF p > market.high THEN p ELSE market.high,
                        trails |-> ex.trailing /\ (market.trails \/ p >= TrailTrigger)]
          /\ LET fills == ex.half > 0 /\ p >= Tp1
                 left == IF ~fills THEN ex ELSE [Sold(ex.half) EXCEPT !.half = 0]
                 trails == ex.trailing /\ market.trails /\ p < market.price
             IN  /\ \/ ex' = IF ex.qty > 0 /\ (p <= ex.sl \/ p >= Tp) THEN Flat ELSE left
                    \/ trails /\ ex' = Flat
                 /\ ghost' = SoldSoFar(IF fills THEN Least(ex.half, ex.qty) ELSE 0)
    /\ count' = [count EXCEPT !.moves = @ + 1]
    /\ UNCHANGED <<style, mem, step, checked, watch, zone, blind>>

NewBar ==
    /\ market.high # market.price \/ checked
    /\ market' = [market EXCEPT !.high = market.price] /\ checked' = FALSE
    /\ UNCHANGED <<style, ex, mem, step, watch, zone, count, ghost, blind>>

Crash ==
    /\ step.call # "down" /\ (ex.qty > 0 \/ mem # NoPosition) /\ Trouble("crash")
    /\ step' = At("down", "ok", NoBar) /\ mem' = NoPosition /\ checked' = FALSE
    /\ Watch([watch EXCEPT !.mode = "off", !.does = "idle", !.last = Nil, !.answer = "ok"])
    /\ zone' = [touches |-> 0, fired |-> FALSE] /\ ghost' = Blurred /\ blind' = FALSE
    /\ UNCHANGED <<style, market, ex>>

\* start: the position is adopted from the exchange.  A stop at the entry means the
\* half was sold; nothing tells of a half order or of a flip target.
Starts ==
    /\ step.call = "down"
    /\ Watch([watch EXCEPT !.mode = "ws"])
    /\ LET m == [NoPosition EXCEPT !.qty = ex.qty, !.sl = ex.sl, !.done = ex.sl = Entry]
       IN  IF ex.qty = 0 THEN Sleeps /\ UNCHANGED mem
           ELSE /\ mem' = m
                /\ IF "trailing" \in style /\ m.sl # Entry THEN Call("arm", m, NoBar) ELSE Sleeps
    /\ UNCHANGED <<style, market, checked, zone, blind>>

\* start, when its read of the position fails: the bot runs without it.
StartsBlind ==
    /\ step.call = "down" /\ ex.qty > 0 /\ "unread" \in Troubles
    /\ Watch([watch EXCEPT !.mode = "ws"])
    /\ Sleeps /\ blind' = TRUE
    /\ UNCHANGED <<style, market, mem, checked, zone>>

LoopSteps ==
    \/ StepBegins \/ StepLosesIt \/ BeAnswered \/ HalfAnswered \/ HalfBeAnswered \/ TrailAnswered
    \/ FlipAnswered \/ SyncReads \/ SyncMisreads \/ SyncVerified \/ SyncBooks
    \/ EntryArms \/ EntryLost \/ ArmAnswered \/ HalfSet \/ Starts \/ StartsBlind

ManageNext ==
    \/ LoopSteps \/ EntryFills \/ Tick \/ WatcherFires \/ WatcherAnswered \/ Disconnects
    \/ PriceMoves \/ NewBar \/ Crash

-----------------------------------------------------------------------------
\* Half of a position is sold at TP1 and no more, whether the bot polls for it or the
\* exchange holds the order (3346-3450, 2953-2965: "중복 청산 방지"), as long as no
\* restart, lost answer or failed read blurred what was done.
HalfOnce == ghost.blurred \/ ghost.sold <= Half(Full)

\* However break-even lock, half exits, trailing, the sync's verification and restarts
\* follow one another, the stop at the exchange never moves away from the price.
StopOnlyTightens ==
    [][(ex.qty > 0 /\ ex'.qty > 0 /\ ex.sl # Nil) => ex'.sl >= ex.sl]_managed

\* A position the exchange holds is known to the bot or about to be adopted, unless a
\* read of this life failed and passed for "no position": neither the loop's flip nor
\* the watcher's forgets one that is still there (4729-4785), nor does a sync that can
\* read, and a restart finds it again.
HeldIsKnown == ex.qty > 0 => mem # NoPosition \/ step.call = "down" \/ blind

\* A position whose price stays in its target, with enough profit, is closed, whatever
\* became of the watcher: its WebSocket, its polling, a flip it tried in vain (4633-4659).
FlipHappens ==
    (ex.qty > 0 /\ mem.target /\ market.price \in Zone /\ Enough(market.price))
        ~> (ex.qty = 0 \/ ~mem.target \/ market.price \notin Zone \/ ~Enough(market.price))
=============================================================================
