-------------------------------- MODULE Setups --------------------------------
(***************************************************************************)
(* What the bots make of the patterns: the Silver Bullet setups, the extra *)
(* sources, the signal of a step, and the tracker that keeps the latest    *)
(* setup of a higher timeframe.                                            *)
(*                                                                         *)
(* A setup is written in the face of its direction: stop below entry below *)
(* target.  Prices of setups are in units of 1 / (2 * Len(b)), so that     *)
(* midpoints and the average true range are integers; the buffer of 0.05 % *)
(* beyond a stop is left out.                                              *)
(***************************************************************************)
EXTENDS Detectors

CONSTANTS
    WindowOf,    \* the (day, window) of every bar, "none" outside all windows
    StaleBars,   \* stale_bars
    MinBars,     \* the fewest bars a frame needs (5)
    MinExtra     \* and for the extra sources (25)

ASSUME SetupsAssumption ==
    /\ \A i \in DOMAIN WindowOf : WindowOf[i] \in STRING
    /\ StaleBars \in Nat /\ {MinBars, MinExtra} \subseteq Nat \ {0}

VARIABLES
    bars,     \* the frame
    active,   \* HtfSetupTracker._active of this timeframe: {} or one setup
    stopped   \* history: bars of setups that were removed at their stop

Unit(b) == 2 * Len(b)

\* _widen_sl_to_atr: at least 1.5 average true ranges from the entry.
Risk(b, entry, stop) ==
    GreatestOf({entry - stop, 3 * SumRange(b, Len(b))})

\* A setup, if its reward is one and a half times its risk; entry, stop and
\* target are given in halves.
Setup(b, d, at, source, entry, stop, target, aim, retraced) ==
    LET n == Len(b)
        reward == IF target < entry THEN entry - target ELSE target - entry
    IN {[at |-> at, dir |-> d, source |-> source, entry |-> entry * n, stop |-> entry * n - risk,
         target |-> target * n, aim |-> aim, retraced |-> retraced] :
            risk \in {r \in {Risk(b, entry * n, stop * n)} : r > 0 /\ 2 * reward * n >= 3 * r}}

\* The nearest of swings S beyond the entry, if any.
NearestBeyond(b, d, S, entry) ==
    LET f == Face(b, d)
        beyond == {i \in S : 2 * f[i].h > entry}
    IN {i \in beyond : \A k \in beyond : f[i].h < f[k].h \/ (f[i].h = f[k].h /\ i <= k)}

\* _next_liquidity_target, _find_target_swing: nothing has taken it yet.
OpenTargets(b, d, entry, after) ==
    NearestBeyond(b, d, {i \in Swings(b, d, Wing) : i > after /\ ~Swept(b, d, i)}, entry)

\* A setup to a swing after bar "after".
ToSwing(b, d, at, source, entry, stop, after, retraced) ==
    UNION {Setup(b, d, at, source, entry, stop, 2 * Face(b, d)[i].h, i, retraced) :
             i \in OpenTargets(b, d, entry, after)}

FirstOfWindows(S) == {x \in S : \A y \in S : WindowOf[y.at] = WindowOf[x.at] => x.at <= y.at}

\* detect_silver_bullet_setups: the first gap of each window that makes a setup,
\* in the middle of the gap with the stop at its far edge.
SilverBullets(b) ==
    LET fits(g) == ToSwing(b, g.dir, g.at, "fvg", g.lo + g.hi, 2 * g.lo, 0, Filled(b, g))
        all == UNION {fits(g) : g \in {x \in Gaps(b, "long") \cup Gaps(b, "short") :
                                         WindowOf[x.at] # "none"}}
    IN IF Len(b) < MinBars THEN {} ELSE FirstOfWindows(all)

\* The last three, in the order of their bars.
LastThree(S) == {x \in S : Cardinality({y \in S : y.at > x.at}) < 3}

\* build_extra_source_setups: a setup of each source, and the setups of the last three.
TurtleSetup(b, t) == Setup(b, t.dir, t.at, "turtle", 2 * t.swept, 2 * t.wick, 2 * t.target, 0, TRUE)
ImpliedSetup(b, g) == ToSwing(b, g.dir, g.at, "implied", g.lo + g.hi, 2 * g.lo, g.at, TRUE)
RejectionSetup(b, r) == ToSwing(b, r.dir, r.at, "rejection", r.lo + r.hi, 2 * r.lo, r.at, TRUE)
BlockSetup(b, m) ==
    LET f == Face(b, m.ob.dir) IN
    IF m.back = 0 THEN {}
    ELSE ToSwing(b, m.ob.dir, m.back, "mitigation",
                 f[m.ob.at].h + f[m.ob.at].l, 2 * f[m.ob.at].l, m.back, TRUE)

Extras(b) ==
    IF Len(b) < MinExtra THEN {}
    ELSE (UNION {TurtleSetup(b, t) : t \in LastThree(UNION {TurtleSoups(b, d) : d \in Sides})})
         \cup (UNION {BlockSetup(b, m) : m \in LastThree(MitigationBlocks(b, Wing))})
         \cup (UNION {ImpliedSetup(b, g) : g \in LastThree(UNION {ImpliedGaps(b, d) : d \in Sides})})
         \cup (UNION {RejectionSetup(b, r) : r \in LastThree(UNION {Rejections(b, d) : d \in Sides})})

AllSetups(b) == SilverBullets(b) \cup Extras(b)

\* generate_ict_signal: the latest setup, in the preferred direction if there is
\* one, unless it is too old or waits for its retrace.
Signals(b, setups, prefer, retrace) ==
    LET all == {s \in setups : prefer = "none" \/ s.dir = prefer}
    IN {s \in all : /\ \A x \in all : x.at <= s.at
                    /\ Len(b) - s.at <= StaleBars
                    /\ retrace => s.retraced}

SignalsOf(b, setups) ==
    UNION {Signals(b, setups, p, r) : p \in Sides \cup {"none"}, r \in BOOLEAN}
AllSignals(b) == SignalsOf(b, AllSetups(b))

-----------------------------------------------------------------------------
(* The tracker of a higher timeframe *)

LatestOf(S) == {s \in S : \A x \in S : x.at <= s.at}
LatestBullet(b) == LatestOf(SilverBullets(b))

Taken(b, S) == {[at |-> s.at, dir |-> s.dir, stop |-> s.stop, target |-> s.target, n |-> Unit(b)] :
                  s \in S}
\* update_htf: the latest setup replaces another one.
Replaced(kept, new) == IF new = {} THEN kept ELSE new
Updated(b, kept) ==
    Replaced(kept, Taken(b, {x \in LatestBullet(b) : \A a \in kept : x.at # a.at}))

\* The last close in the face and unit of setup a.
PriceFor(b, a) == Face(b, a.dir)[Len(b)].c * a.n

\* invalidate_if_sl_hit, invalidate_if_tp_hit
AtStop(b, a) == PriceFor(b, a) <= a.stop
AtTarget(b, a) == PriceFor(b, a) >= a.target

\* _step_multi_tf: update, then drop what the price has reached.
Track(b, kept) ==
    /\ active' = {a \in kept : ~AtStop(b, a) /\ ~AtTarget(b, a)}
    /\ stopped' = stopped \cup {a.at : a \in {x \in kept : AtStop(b, x)}}
=============================================================================
