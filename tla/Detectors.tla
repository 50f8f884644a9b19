------------------------------- MODULE Detectors -------------------------------
(***************************************************************************)
(* The ICT patterns the bots look for in a price frame: pure functions of  *)
(* a sequence b of bars [o, h, l, c], the last of which is still forming.  *)
(*                                                                         *)
(* Every detector has a branch for each direction that is the mirror image *)
(* of the other.  It is written once, over Face(b, d): the bars as they    *)
(* are for d = "long" and upside down for d = "short".                     *)
(* Prices are integers; a threshold relative to the price (FVG size, block *)
(* buffer) is a constant in the same unit.                                 *)
(***************************************************************************)
EXTENDS Integers, Sequences, FiniteSets, SequencesExt

CONSTANTS
    Wing,       \* swing_left, swing_right: bars that must be lower on each side
    ObWing,     \* swing_length of the order blocks
    MinGap,     \* the smallest fair value gap that counts
    Lookback,   \* of turtle soup and inducements
    Confirm     \* confirm_lookforward of rejection blocks

\* The swings of order blocks are the wider ones (swing_left = 1, swing_length = 5).
ASSUME DetectorsAssumption ==
    {Wing, ObWing, MinGap, Lookback, Confirm} \subseteq Nat \ {0} /\ Wing <= ObWing

Sides == {"long", "short"}
Other(d) == IF d = "long" THEN "short" ELSE "long"

Mirror(b) == [i \in DOMAIN b |-> [o |-> -b[i].o, h |-> -b[i].l, l |-> -b[i].h, c |-> -b[i].c]]
Face(b, d) == IF d = "long" THEN b ELSE Mirror(b)

LeastOf(S) == CHOOSE x \in S : \A y \in S : x <= y
GreatestOf(S) == CHOOSE x \in S : \A y \in S : y <= x
FirstOf(S) == IF S = {} THEN 0 ELSE LeastOf(S)

BodyTop(x) == IF x.o > x.c THEN x.o ELSE x.c
BodyFoot(x) == IF x.o < x.c THEN x.o ELSE x.c

-----------------------------------------------------------------------------
(* swing_points.py *)

Peak(f, i, w) ==
    /\ i - w >= 1 /\ i + w <= Len(f)
    /\ \A k \in 1..w : f[i].h > f[i - k].h /\ f[i].h > f[i + k].h

\* Swing highs for "long", swing lows for "short"; a bar that is both is a high.
Swings(b, d, w) ==
    {i \in DOMAIN b : Peak(Face(b, d), i, w) /\ (d = "short" => ~Peak(b, i, w))}

-----------------------------------------------------------------------------
(* fvg.py *)

\* A gap between the bars around i, which i itself has closed across.
Gaps(b, d) ==
    LET f == Face(b, d) IN
    {[at |-> i, dir |-> d, lo |-> f[i - 1].h, hi |-> f[i + 1].l] :
        i \in {i \in 2..Len(b) - 1 : /\ f[i].c > f[i - 1].h
                                     /\ f[i + 1].l - f[i - 1].h >= MinGap}}

\* The bar that closes beyond the gap (0: none yet).
BrokenAt(b, g) ==
    FirstOf({j \in g.at + 2..Len(b) : Face(b, g.dir)[j].c < g.lo})
Invalidated(b, g) == BrokenAt(b, g) # 0

\* Price has come back to the middle of the gap before it was broken.
Filled(b, g) ==
    \E j \in g.at + 2..(IF Invalidated(b, g) THEN BrokenAt(b, g) ELSE Len(b)) :
        2 * Face(b, g.dir)[j].l <= g.lo + g.hi

\* A broken gap is a gap of the other direction.
InvertedGaps(b, d) ==
    {[at |-> BrokenAt(b, g), dir |-> d, origin |-> g.at] :
        g \in {x \in Gaps(b, Other(d)) : Invalidated(b, x)}}

\* bpr.py: a long and a short gap that overlap.
BalancedRanges(b) ==
    LET lo(p) == GreatestOf({p[1].lo, -p[2].hi})
        hi(p) == LeastOf({p[1].hi, -p[2].lo})
    IN {[long |-> p[1].at, short |-> p[2].at, lo |-> lo(p), hi |-> hi(p)] :
           p \in {p \in Gaps(b, "long") \X Gaps(b, "short") : lo(p) < hi(p)}}

\* implied_fvg.py: the bodies of bars i-2 and i leave a gap that their wicks cover.
ImpliedGaps(b, d) ==
    LET f == Face(b, d) IN
    {[at |-> i, dir |-> d, lo |-> BodyTop(f[i - 2]), hi |-> BodyFoot(f[i])] :
        i \in {i \in 3..Len(b) : /\ BodyTop(f[i - 2]) < BodyFoot(f[i])
                                 /\ f[i - 2].h >= f[i].l}}

-----------------------------------------------------------------------------
(* liquidity.py *)

\* The first bar after swing i that trades beyond it.
TakenAt(b, d, i) == FirstOf({j \in i + 1..Len(b) : Face(b, d)[j].h > Face(b, d)[i].h})

\* swing.swept: a sweep or a breakout has taken it.
Swept(b, d, i) == TakenAt(b, d, i) # 0

\* Mutant: the last bar that reaches beyond the swing is the sweep.
SweepsLast(b, d) ==
    LET f == Face(b, d) IN
    {[swing |-> p[1], at |-> p[2], dir |-> d] : p \in
        {p \in Swings(b, d, Wing) \X DOMAIN b :
            /\ p[2] > p[1] /\ f[p[2]].h > f[p[1]].h /\ f[p[2]].c < f[p[1]].h
            /\ \A k \in p[2] + 1..Len(b) : f[k].h <= f[p[1]].h}}

\* The first bar beyond a swing of side d closes back inside.
Sweeps(b, d) ==
    LET f == Face(b, d) IN
    {[swing |-> i, at |-> TakenAt(b, d, i), dir |-> d] :
        i \in {i \in Swings(b, d, Wing) :
                 Swept(b, d, i) /\ f[TakenAt(b, d, i)].c < f[i].h}}

\* A later bar comes back into the wick of the sweep.
Retested(b, s) ==
    LET f == Face(b, s.dir) IN
    \E k \in s.at + 1..Len(b) : f[k].h >= f[s.swing].h /\ f[k].l <= f[s.at].h

\* Equal highs or lows, as far as they have not joined an earlier level.
EqualLevels(b, d) ==
    LET f == Face(b, d)
        tops == Swings(b, d, Wing)
    IN {S \in {{i \in tops : f[i].h = p} : p \in {f[i].h : i \in tops}} : Cardinality(S) >= 2}

\* inducement.py: the latest lower swing before a bigger one.
Inducements(b, d) ==
    LET f == Face(b, d)
        before(i) == {k \in Swings(b, d, Wing) : k < i /\ k >= i - Lookback /\ f[k].h < f[i].h}
    IN {[target |-> i, bait |-> GreatestOf(before(i))] :
            i \in {i \in Swings(b, d, ObWing) : before(i) # {}}}

\* Mutant: a swing that was taken still draws the price.
DrawOnTaken(b, d) ==
    LET f == Face(b, d)
        beyond == {i \in Swings(b, d, Wing) : f[i].h > f[Len(b)].c}
    IN IF beyond = {} THEN 0
       ELSE LeastOf({i \in beyond : \A k \in beyond : f[i].h <= f[k].h})

\* dol.py: the nearest swing beyond the price that nothing has taken.
DrawOn(b, d) ==
    LET f == Face(b, d)
        open == {i \in Swings(b, d, Wing) : ~Swept(b, d, i) /\ f[i].h > f[Len(b)].c}
    IN IF open = {} THEN 0
       ELSE LeastOf({i \in open : \A k \in open : f[i].h <= f[k].h})

-----------------------------------------------------------------------------
(* structure.py *)

\* The first bar of from..to that closes beyond swing top of side d.
BreakIn(b, d, top, from, to) ==
    IF top = 0 THEN 0
    ELSE FirstOf({j \in from..to : Face(b, d)[j].c > Face(b, d)[top].h})

Break(d, j, top, trend) ==
    [at |-> j, dir |-> d, swing |-> top, kind |-> IF trend = d THEN "BOS" ELSE "CHoCH"]

\* Mutant: a swing that was broken goes on being broken.
AtSwingAgain(b, w, d, i) ==
    LET j == BreakIn(b, d, w.top[d], w.cursor, i) IN
    [cursor |-> i + 1,
     top |-> [w.top EXCEPT ![d] = IF j = 0 THEN i ELSE w.top[d]],
     trend |-> IF j = 0 THEN w.trend ELSE d,
     events |-> IF j = 0 THEN w.events ELSE Append(w.events, Break(d, j, w.top[d], w.trend))]

\* One swing: the swing of its side before it may have been broken since the
\* swing before this one, whatever the side of that one was.
AtSwing(b, w, d, i) ==
    LET j == BreakIn(b, d, w.top[d], w.cursor, i) IN
    [cursor |-> i + 1,
     top |-> [w.top EXCEPT ![d] = i],
     trend |-> IF j = 0 THEN w.trend ELSE d,
     events |-> IF j = 0 THEN w.events ELSE Append(w.events, Break(d, j, w.top[d], w.trend))]

AtBar(b, wing, w, i) ==
    IF i \in Swings(b, "long", wing) THEN AtSwing(b, w, "long", i)
    ELSE IF i \in Swings(b, "short", wing) THEN AtSwing(b, w, "short", i)
    ELSE w

NothingSeen == [cursor |-> 1, top |-> [d \in Sides |-> 0], trend |-> "none", events |-> <<>>]

Scan(b, wing) ==
    LET seen[i \in 0..Len(b)] ==
            IF i = 0 THEN NothingSeen ELSE AtBar(b, wing, seen[i - 1], i)
    IN  seen[Len(b)]

\* detect_structure_events: after the last swing both sides are looked at, with
\* the trend as it was there, and the events are put in the order of their bars.
Late(b, w) ==
    LET last(d) == Break(d, BreakIn(b, d, w.top[d], w.cursor, Len(b)), w.top[d], w.trend)
        found(d) == IF last(d).at = 0 THEN <<>> ELSE <<last(d)>>
    IN  IF last("short").at < last("long").at THEN found("short") \o found("long")
        ELSE found("long") \o found("short")

Whole(b, w) == w.events \o Late(b, w)
Structure(b, wing) == Whole(b, Scan(b, wing))

\* _bias_from_structure, compute_bias_from_df: the side of the last event.
SideOf(events) == IF events = <<>> THEN "none" ELSE Last(events).dir
Bias(b) == SideOf(Structure(b, Wing))

-----------------------------------------------------------------------------
(* order_block.py, mitigation_block.py *)

TrueRange(b, i) ==
    GreatestOf({b[i].h - b[i].l} \cup
        IF i = 1 THEN {} ELSE {b[i].h - b[i - 1].c, b[i - 1].c - b[i].l})

\* i times the average true range at bar i (a frame shorter than the period).
SumRange(b, i) ==
    LET sum[k \in 0..i] == IF k = 0 THEN 0 ELSE sum[k - 1] + TrueRange(b, k)
    IN  sum[i]

TooWild(b, i) == (b[i].h - b[i].l) * i > 2 * SumRange(b, i)

\* _detect_obs_luxalgo: of the bars between a broken swing and its break that
\* went the other way, the widest that is not too wild.
BlockOf(b, e) ==
    LET f == Face(b, e.dir)
        body == {k \in e.swing..e.at - 1 :
                   f[k].c < f[k].o /\ f[k].h > f[k].l /\ ~TooWild(b, k)}
    IN FirstOf({k \in body : \A m \in body : f[m].h - f[m].l <= f[k].h - f[k].l})

OrderBlocks(b, wing) ==
    {x \in {[at |-> BlockOf(b, e), dir |-> e.dir, moved |-> e.at] : e \in ToSet(Structure(b, wing))} :
        x.at # 0}

\* A later wick has pierced the block.
Mitigated(b, ob) ==
    \E k \in ob.moved + 1..Len(b) : Face(b, ob.dir)[k].l < Face(b, ob.dir)[ob.at].l

\* detect_breaker_blocks: a later bar has closed beyond the block.
BreakerAt(b, ob) ==
    FirstOf({k \in ob.moved + 1..Len(b) : Face(b, ob.dir)[k].c < Face(b, ob.dir)[ob.at].l})

\* detect_mitigation_blocks: price touches a mitigated block, leaves it, returns.
MitigationBlocks(b, wing) ==
    LET in(ob, k) == LET f == Face(b, ob.dir) IN f[k].l <= f[ob.at].h /\ f[k].h >= f[ob.at].l
        touched(ob) == FirstOf({k \in ob.at + 1..Len(b) : in(ob, k)})
        left(ob) == FirstOf({k \in touched(ob) + 1..Len(b) :
                               Face(b, ob.dir)[k].c > Face(b, ob.dir)[ob.at].h})
        back(ob) == FirstOf({k \in left(ob) + 1..Len(b) : in(ob, k)})
    IN {[at |-> ob.moved, ob |-> ob, back |-> back(ob)] :
            ob \in {x \in OrderBlocks(b, wing) :
                      Mitigated(b, x) /\ touched(x) # 0 /\ left(x) # 0}}

-----------------------------------------------------------------------------
(* rejection_block.py, turtle_soup.py *)

\* A bar of the other colour with half of it wick, from which price then moved
\* one and a half times that wick.
Rejections(b, d) ==
    LET f == Face(b, d)
        wick(i) == f[i].c - f[i].l
        ahead(i) == {f[k].h : k \in i + 1..LeastOf({i + Confirm, Len(b)})}
    IN {[at |-> i, dir |-> d, lo |-> f[i].l, hi |-> f[i].c] :
          i \in {i \in 1..Len(b) - 1 :
                   /\ f[i].c < f[i].o
                   /\ 2 * wick(i) >= f[i].h - f[i].l
                   /\ 2 * (GreatestOf(ahead(i)) - f[i].c) >= 3 * wick(i)}}

\* The bar that reaches beyond the extreme of the Lookback bars before it on
\* side d and closes back inside.
Failed(b, d, i) ==
    LET f == Face(b, d)
        extreme == GreatestOf({f[k].h : k \in i - Lookback..i - 1})
    IN f[i].h > extreme /\ f[i].c < extreme

\* A setup against the side that failed; the high side is looked at first.
TurtleSoups(b, d) ==
    LET f == Face(b, d)
        before(i) == i - Lookback..i - 1
    IN {[at |-> i, dir |-> d,
         swept |-> LeastOf({f[k].l : k \in before(i)}), wick |-> f[i].l,
         target |-> GreatestOf({f[k].h : k \in before(i)})] :
            i \in {i \in Lookback + 1..Len(b) :
                     Failed(b, Other(d), i) /\ (d = "long" => ~Failed(b, "long", i))}}
=============================================================================
