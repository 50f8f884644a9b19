-------------------------------- MODULE Replay --------------------------------
(***************************************************************************)
(* run_backtest (aurora_ict/backtest/replay.py) as a function of a frame:  *)
(* the orders its walk over the bars places, each with its fill and its    *)
(* exit.  Which setups a window of bars holds is the detectors' part;      *)
(* scores, costs and the band around the average are left out.             *)
(***************************************************************************)
EXTENDS Setups

CONSTANTS
    Window,      \* cfg.window: bars before the current one that are looked at
    Ttl,         \* entry_ttl_bars
    HourBars     \* bars of the frame in an hour

ASSUME ReplayAssumption == {Window, Ttl, HourBars} \subseteq Nat \ {0}

\* htf_ema_bias, htf_align_flip, sl_priority
Configs == [bias : {"off", "strict", "align"}, flip : BOOLEAN, slFirst : BOOLEAN]

HourOf(i) == (i - 1) \div HourBars + 1
HourClose(b, k) == b[LeastOf({k * HourBars, Len(b)})].c

\* shift(1): what is known of the hours at bar i.
\* Mutant: with the hour that is not over.
HoursUnshifted(i) == HourOf(i)
HoursBefore(i) == HourOf(i) - 1

\* 2^(k-1), and the moving average (span 3) of k hourly closes times that.
Scale[k \in Nat] == IF k <= 1 THEN 1 ELSE 2 * Scale[k - 1]
Average(closes) ==
    LET sum[j \in DOMAIN closes] ==
            IF j = 1 THEN closes[1] ELSE sum[j - 1] + Scale[j - 1] * closes[j]
    IN  sum[Len(closes)]
Ema(b, k) == Average([j \in 1..k |-> HourClose(b, j)])

\* _precompute_align_score for the spans 1 and 3; without an hour there is no score.
Score(b, i) ==
    LET k == HoursBefore(i)
        short == HourClose(b, k) * Scale[k]
    IN  IF k = 0 \/ short = Ema(b, k) THEN 0 ELSE IF short > Ema(b, k) THEN 1 ELSE -1

Sign(d) == IF d = "long" THEN 1 ELSE -1

\* The gate on the trend of the hours.
Blocked(b, i, d, bias) ==
    LET k == HoursBefore(i)
        close == b[i].c * Scale[k]
    IN  /\ k > 0
        /\ \/ bias = "strict" /\ Sign(d) * (close - Ema(b, k)) < 0
           \/ bias = "align" /\ Score(b, i) # Sign(d)

\* Prices in the face and unit of a setup of a window.
Scaled(p) == p * 2 * (Window + 1)

\* _simulate_fill: the first bar that touches the limit within the TTL.
FillAt(b, i, s) ==
    FirstOf({j \in i + 1..LeastOf({i + Ttl, Len(b)}) : Scaled(Face(b, s.dir)[j].l) <= s.entry})

\* _simulate_exit, from the bar after the fill.  A bar that reaches both is taken to
\* have gone to its low first if it closes above its open.
StopHit(b, s, j) == Scaled(Face(b, s.dir)[j].l) <= s.stop
TargetHit(b, s, j) == Scaled(Face(b, s.dir)[j].h) >= s.target
Flipped(b, s, j, cfg) == cfg.flip /\ Score(b, j) = -Sign(s.dir)
Outcome(b, s, j, cfg) ==
    CASE StopHit(b, s, j) /\ TargetHit(b, s, j) ->
            IF cfg.slFirst \/ ((b[j].c >= b[j].o) <=> (s.dir = "long")) THEN "sl" ELSE "tp"
      [] StopHit(b, s, j) /\ ~TargetHit(b, s, j) -> "sl"
      [] TargetHit(b, s, j) /\ ~StopHit(b, s, j) -> "tp"
      [] OTHER -> "flip"
ExitAt(b, from, s, cfg) ==
    FirstOf({j \in from + 1..Len(b) : StopHit(b, s, j) \/ TargetHit(b, s, j) \/ Flipped(b, s, j, cfg)})

\* The order for setup s, seen at bar i.
Order(b, i, s, cfg) ==
    LET from == FillAt(b, i, s)
        to == ExitAt(b, from, s, cfg)
    IN  IF from = 0 THEN [seen |-> i, from |-> 0, to |-> i, outcome |-> "unfilled"]
        ELSE IF to = 0 THEN [seen |-> i, from |-> from, to |-> Len(b), outcome |-> "eod"]
        ELSE [seen |-> i, from |-> from, to |-> to, outcome |-> Outcome(b, s, to, cfg)]

\* What the walk orders at bar i: the latest setup of the window, if it is fresh and the
\* trend lets it.
OrdersAt(b, i, cfg) ==
    LET window == SubSeq(b, i - Window, i)
    IN  {Order(b, i, s, cfg) : s \in {x \in LatestBullet(window) :
            Len(window) - x.at <= StaleBars /\ ~Blocked(b, i, x.dir, cfg.bias)}}

\* run_backtest: after an exit it goes on behind it, after an order that is not filled
\* with the next bar.
Orders(b, cfg) ==
    LET walk[i \in Nat] ==
            IF i >= Len(b) THEN {}
            ELSE LET here == OrdersAt(b, i, cfg)
                 IN  here \cup walk[GreatestOf({i} \cup {t.to : t \in here}) + 1]
    IN  walk[Window + 1]
=============================================================================
