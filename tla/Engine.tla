-------------------------------- MODULE Engine --------------------------------
(***************************************************************************)
(* The bar-by-bar backtest of the first bot (aurora/backtest/engine.py):   *)
(* one step for a minute, which may end a trade, sell a part of it, turn   *)
(* away from it and enter the next.  It trails its stop with the same      *)
(* function as the bot (Ladder).  Money is counted in the risk of a unit   *)
(* of quantity, costs are left out, and signals are any.                   *)
(***************************************************************************)
EXTENDS Ladder

CONSTANTS
    Quotes,         \* prices of the minutes
    Timeframe,      \* minutes of the shortest timeframe
    PauseAfter,     \* consec_sl_pause_threshold
    PauseMinutes,   \* consec_sl_pause_minutes
    MaxLoss,        \* max_dd_stop_pct
    TrailingModes,  \* bound: trailing modes that are looked at
    MaxMinutes,     \* bound: minutes of a run
    MaxGap          \* bound: minutes missing between two bars

ASSUME EngineAssumption ==
    /\ Quotes \subseteq Nat \ {0} /\ IsFiniteSet(Quotes)
    /\ {Timeframe, PauseAfter, PauseMinutes, MaxLoss} \subseteq Nat \ {0}
    /\ TrailingModes \subseteq TrailingMode /\ MaxGap \in Nat

VARIABLES
    trailing,   \* the trailing mode of the run
    minute,     \* the minute of the last bar and its close
    trade,      \* position: [dir, entry, since, sl, hits, highest], levels as in Ladder,
                \* or NoTrade
    risk,       \* [lost (initial_capital - balance), stopped, pause, consec]
    past,       \* history: the best level of all bars since the entry
    exit,       \* history: the last exit, [reason, stop, past: the levels when its bar began]
    losses      \* history: [row, at]: stop losses since a target was hit, minute of the last

engine == <<trailing, minute, trade, risk, past, exit, losses>>

NoTrade == [dir |-> "none", entry |-> 0, since |-> 0, sl |-> -1, hits |-> 0, highest |-> 0]
NoExit == [reason |-> "none", stop |-> -1, past |-> 0]

EngineInit ==
    /\ trailing \in TrailingModes
    /\ \E q \in Quotes : minute = [at |-> 0, close |-> q]
    /\ trade = NoTrade
    /\ risk = [lost |-> 0, stopped |-> FALSE, pause |-> 0, consec |-> 0]
    /\ past = 0 /\ exit = NoExit
    /\ losses = [row |-> 0, at |-> 0]

\* A minute opens where the last bar closed.
Minutes(open) == {x \in [o : {open}, h : Quotes, l : Quotes, c : Quotes] :
                    x.l <= Min({x.o, x.c}) /\ Max({x.o, x.c}) <= x.h}

\* Levels along the plan of a trade.
Along(t, price) == IF t.dir = "long" THEN price - t.entry ELSE t.entry - price
Top(t, x) == Along(t, IF t.dir = "long" THEN x.h ELSE x.l)
Bottom(t, x) == Along(t, IF t.dir = "long" THEN x.l ELSE x.h)

Trailed(t, highest) == [t EXCEPT !.sl = TrailedStop(trailing, @, t.hits, highest)]

\* step 3: the stop for the bar that begins.
\* Mutant: the bar's own extreme is in already.
TrailsWithBar(t, x) == Trailed(t, Max({t.highest, Top(t, x)}))
Trails3(t, x) == Trailed(t, t.highest)

\* _check_exits: the stop comes before the next target, and one of them a bar; a bar
\* that opens beyond either is filled at its open.
Exits(t, x) ==
    LET opens == Along(t, x.o)
        next == t.hits + 1
    IN  IF Bottom(t, x) <= t.sl
        THEN [reason |-> IF t.hits >= 1 THEN "BE" ELSE "SL", level |-> Min({opens, t.sl})]
        ELSE IF Top(t, x) >= next
        THEN [reason |-> IF next = NTp THEN "TP4" ELSE "TP", level |-> Max({opens, next})]
        ELSE [reason |-> "none", level |-> 0]

Remaining(t) == Qty - SoldUpTo[t.hits]

Loses(r, level, qty) == [r EXCEPT !.lost = @ - level * qty]

\* _check_max_dd: for good, against the capital it began with.
Checked(r) == [r EXCEPT !.stopped = @ \/ r.lost >= MaxLoss]

\* Mutant: any other close ends a row of stop losses.
CountedInRow(r, reason) ==
    IF reason # "SL" THEN [r EXCEPT !.consec = 0]
    ELSE IF r.consec + 1 >= PauseAfter THEN [r EXCEPT !.pause = PauseMinutes, !.consec = 0]
    ELSE [r EXCEPT !.consec = @ + 1]
\* _close: what the reason does to the pause.
Counted(r, reason) ==
    CASE reason = "SL" /\ r.consec + 1 >= PauseAfter -> [r EXCEPT !.pause = PauseMinutes, !.consec = 0]
      [] reason = "SL" /\ r.consec + 1 < PauseAfter -> [r EXCEPT !.consec = @ + 1]
      [] reason = "TP4" -> [r EXCEPT !.consec = 0]
      [] OTHER -> r

\* _close
Settled(r, t, reason, level) == Counted(Checked(Loses(r, level, Remaining(t))), reason)

\* _partial_close: the drawdown is not looked at; the stop follows at once.
SoldPart(t) == Trailed([t EXCEPT !.hits = @ + 1], t.highest)
PartSettled(r, t, level) == [Loses(r, level, Allocations[t.hits + 1]) EXCEPT !.consec = 0]

\* step 4 and 5: the trade and the account when the bar has run its course.
Survivor(t, x, reason) ==
    CASE reason = "TP" -> SoldPart(t)
      [] reason = "none" -> [t EXCEPT !.highest = Max({@, Top(t, x)})]
      [] OTHER -> NoTrade
Account(r, t, out) ==
    CASE out.reason = "TP" -> PartSettled(r, t, out.level)
      [] out.reason = "none" -> r
      [] OTHER -> Settled(r, t, out.reason, out.level)

\* _open
Entered(d, price, at) == [NoTrade EXCEPT !.dir = d, !.entry = price, !.since = at]

\* _tick_pause
Rested(r) == [r EXCEPT !.pause = Max({0, @ - 1})]

\* A timeframe's bar is closed by the first minute behind it.
ClosesBar(at) == minute.at > 0 /\ at \div Timeframe > minute.at \div Timeframe

MayEnter(r) == ~r.stopped /\ r.pause = 0

Opposed(t, d) == d # "none" /\ d # t.dir

\* step: t and r are the trade and the account after the exits; d is what the signals
\* of the closed bars say ("none" also when the regime or a missing ATR forbids).
Decides(t, r, d, x, at) ==
    LET s == Checked(r) IN
    IF ~ClosesBar(at) THEN trade' = t /\ risk' = r
    ELSE IF t # NoTrade
    THEN IF Opposed(t, d) THEN trade' = NoTrade /\ risk' = Settled(s, t, "REVERSE", Along(t, x.c))
         ELSE trade' = t /\ risk' = s
    ELSE /\ risk' = s
         /\ trade' = IF d # "none" /\ MayEnter(s) THEN Entered(d, x.c, at) ELSE NoTrade

StepMinute(gap) ==
    LET at == minute.at + 1 + gap
        r == Rested(risk)
        t(x) == Trails3(trade, x)
        out(x) == IF trade = NoTrade THEN [reason |-> "none", level |-> 0] ELSE Exits(t(x), x)
    IN  /\ at <= MaxMinutes
        /\ \E x \in Minutes(minute.close), d \in Sides \cup {"none"} :
             /\ ClosesBar(at) \/ d = "none"
             /\ minute' = [at |-> at, close |-> x.c]
             /\ Decides(IF trade = NoTrade THEN NoTrade ELSE Survivor(t(x), x, out(x).reason),
                        IF trade = NoTrade THEN r ELSE Account(r, t(x), out(x)), d, x, at)
             /\ past' = IF trade # NoTrade /\ trade'.since = trade.since
                        THEN Max({past, Top(trade, x)}) ELSE 0
             /\ exit' = IF out(x).reason = "none" THEN exit
                        ELSE [reason |-> out(x).reason, stop |-> t(x).sl, past |-> past]
             /\ losses' = CASE out(x).reason = "SL" -> [row |-> losses.row + 1, at |-> at]
                            [] out(x).reason \in {"TP", "TP4"} -> [row |-> 0, at |-> 0]
                            [] OTHER -> losses
    /\ UNCHANGED trailing

\* _force_close_at_end
ForceCloseAtEnd ==
    /\ minute.at = MaxMinutes /\ trade # NoTrade
    /\ trade' = NoTrade
    /\ risk' = Settled(risk, trade, "FORCE_END", Along(trade, minute.close))
    /\ UNCHANGED <<trailing, minute, past, exit, losses>>

EngineNext == ForceCloseAtEnd \/ \E gap \in 0..MaxGap : StepMinute(gap)

-----------------------------------------------------------------------------
(* Properties *)

EngineTypeOK ==
    /\ minute.at \in 0..MaxMinutes /\ minute.close \in Quotes
    /\ trade = NoTrade \/ (trade.dir \in Sides /\ trade.entry \in Quotes /\ trade.hits \in 0..NTp - 1)
    /\ risk.pause \in 0..PauseMinutes /\ risk.consec \in 0..PauseAfter - 1

\* The engine does not look ahead ("SL first, from what is known when the bar begins"): the
\* stop a trade ends at is its first one, or a level or more below what earlier bars of
\* the trade had reached, in every trailing mode.
StopFromPast == exit.reason \in {"SL", "BE"} => exit.stop <= Max({-1, exit.past - 1})

\* No trade is entered once the losses have reached the limit, nor within the pause after
\* PauseAfter stop losses with no target between them, whatever closed otherwise in
\* between; the pause is counted in bars, and bars may be missing.
EntersWithinRisk ==
    [][LET enters == trade' # NoTrade /\ trade'.since # trade.since
           paused == /\ losses'.row > 0 /\ losses'.row % PauseAfter = 0
                     /\ minute'.at - losses'.at < PauseMinutes
       IN  enters => risk'.lost < MaxLoss /\ ~paused]_engine
=============================================================================
