-------------------------------- MODULE Chart --------------------------------
(***************************************************************************)
(* A price frame as the exchange serves it, with the bar that is forming,  *)
(* and a bot that reads it at every change.                                *)
(***************************************************************************)
EXTENDS Replay

CONSTANTS
    Prices,      \* the prices of the trades of a behaviour
    Frames       \* bound: frames a behaviour starts from, with the bars to come

\* The trades of a bar lie between its low and its high.
Candles == {x \in [o : Nat \ {0}, h : Nat \ {0}, l : Nat \ {0}, c : Nat \ {0}] :
              /\ x.l <= BodyFoot(x) /\ BodyTop(x) <= x.h}

ASSUME ChartAssumption ==
    /\ Prices \subseteq Nat \ {0}
    /\ \A x \in Frames : /\ x.bars \in Seq(Candles) \ {<<>>} /\ x.more \in Nat
                         /\ Len(x.bars) + x.more \in DOMAIN WindowOf

VARIABLE more    \* bound: bars to come

vars == <<bars, active, stopped, more>>

Init ==
    /\ \E x \in Frames : bars = x.bars /\ more = x.more
    /\ active = {} /\ stopped = {}

Opening(p) == [o |-> p, h |-> p, l |-> p, c |-> p]

\* A trade at price p in the bar that is forming.
Traded(x, p) == [x EXCEPT !.c = p, !.h = GreatestOf({x.h, p}), !.l = LeastOf({x.l, p})]

Tick(p) ==
    /\ bars' = [bars EXCEPT ![Len(bars)] = Traded(@, p)]
    /\ UNCHANGED more

\* The bar closes and the next one opens where it closed.
NewBar ==
    /\ more > 0
    /\ bars' = Append(bars, Opening(Last(bars).c))
    /\ more' = more - 1

Next ==
    /\ NewBar \/ \E p \in Prices : Tick(p)
    /\ Track(bars', Updated(bars', active))

Spec == Init /\ [][Next]_vars

-----------------------------------------------------------------------------
(* Properties *)

TypeOK ==
    /\ bars \in Seq(Candles) \ {<<>>} /\ more \in Nat
    /\ Cardinality(active) <= 1
    /\ \A a \in active : a.at \in DOMAIN bars /\ a.dir \in Sides /\ a.stop < a.target
    /\ stopped \subseteq DOMAIN bars

\* Whatever pattern a setup comes from, its stop, entry and target lie in this order and
\* the reward is one and a half times the risk.  (_calc_rr takes the absolute value of the
\* reward, so that it does not reject a target on the wrong side.)
WellPlaced(s) ==
    s.stop < s.entry /\ s.entry < s.target /\ 2 * (s.target - s.entry) >= 3 * (s.entry - s.stop)
SetupsSound == \A s \in AllSetups(bars) : WellPlaced(s)

\* Two parts of the code look for liquidity on their own, from different prices:
\* once the price has come past the entry of a Silver Bullet signal, the target of
\* the signal lies where the draw on liquidity does (calculate_dol), or at the
\* price itself.
TargetIsDraw ==
    \A s \in AllSignals(bars) :
        LET f == Face(bars, s.dir)
            price == f[Len(bars)].c
            draw == DrawOn(bars, s.dir)
        IN s.source = "fvg" /\ s.entry <= price * Unit(bars) =>
             f[s.aim].h = price \/ (draw # 0 /\ f[draw].h = f[s.aim].h)

\* A break of structure is real: its bar closes beyond a swing that was formed
\* before, no swing is broken twice, and a BOS continues an earlier break.
EventsSound(ev) ==
    /\ \A k \in DOMAIN ev : /\ ev[k].swing < ev[k].at
                            /\ Face(bars, ev[k].dir)[ev[k].at].c > Face(bars, ev[k].dir)[ev[k].swing].h
                            /\ ev[k].kind = "BOS" => \E m \in 1..k - 1 : ev[m].dir = ev[k].dir
    /\ \A k, m \in DOMAIN ev : (k # m /\ ev[k].dir = ev[m].dir) => ev[k].swing # ev[m].swing

\* Breaks are sound, and marks come in their order: a gap that is broken was filled, a
\* broken block was mitigated, as the inverted zone is drawn only where price has been
\* through the old.
StructureSound ==
    /\ EventsSound(Structure(bars, Wing))
    /\ \A d \in Sides : \A g \in Gaps(bars, d) : Invalidated(bars, g) => Filled(bars, g)
    /\ \A ob \in OrderBlocks(bars, ObWing) : BreakerAt(bars, ob) # 0 => Mitigated(bars, ob)

\* Nothing repaints: what the detectors find in the closed bars stands, whatever
\* the forming bar does; so by induction it stands for ever.
Shown(b) ==
    [swings |-> UNION {{<<d, i>> : i \in Swings(b, d, Wing)} : d \in Sides},
     gaps |-> UNION {Gaps(b, d) : d \in Sides},
     balanced |-> BalancedRanges(b),
     inducements |-> UNION {{<<d, x>> : x \in Inducements(b, d)} : d \in Sides},
     implied |-> UNION {ImpliedGaps(b, d) : d \in Sides},
     sweeps |-> UNION {Sweeps(b, d) : d \in Sides},
     retests |-> UNION {{s \in Sweeps(b, d) : Retested(b, s)} : d \in Sides},
     turtles |-> UNION {TurtleSoups(b, d) : d \in Sides},
     rejections |-> UNION {Rejections(b, d) : d \in Sides},
     inverted |-> UNION {InvertedGaps(b, d) : d \in Sides}]

Contained(old, new) == \A k \in DOMAIN old : old[k] \subseteq new[k]
ClosedBarsStand ==
    /\ Contained(Shown(SubSeq(bars, 1, Len(bars) - 1)), Shown(bars))
    /\ \A d \in Sides : \A S \in EqualLevels(SubSeq(bars, 1, Len(bars) - 1), d) :
          \E T \in EqualLevels(bars, d) : S \subseteq T

\* The backtest does not look ahead ("look-ahead 방지", replay.py:270): a trade that is
\* over stands whatever bars follow, unless an order seen before it may still be filled
\* (the walk passes over an order that will not be).
Over(b, cfg) ==
    LET all == Orders(b, cfg)
        waits(t) == t.outcome = "unfilled" /\ t.seen + Ttl > Len(b)
    IN  {t \in all : /\ t.outcome \notin {"unfilled", "eod"}
                     /\ \A u \in all : waits(u) => u.seen > t.seen}
TradesStand ==
    Len(bars) > Window + 3 =>
        \A cfg \in Configs : Over(SubSeq(bars, 1, Len(bars) - 1), cfg) \subseteq Orders(bars, cfg)

\* A setup that was removed from the tracker at its stop does not come back
\* (HtfSetupTracker: "removed when its stop is hit").
StoppedStaysOut == \A a \in active : a.at \notin stopped
=============================================================================
