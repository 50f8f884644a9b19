----------------------------- MODULE ChartProofs -----------------------------
(***************************************************************************)
(* Theorems about what the bots see in a price frame, for every frame of   *)
(* well-formed bars, however long and however its last bar goes on: the    *)
(* patterns of Detectors, the setups made of them (Setups) and the trades  *)
(* of a backtest (Replay).                                                 *)
(***************************************************************************)
EXTENDS Chart, FiniteSetTheorems, SequenceTheorems, WellFoundedInduction, TLAPS

-----------------------------------------------------------------------------
(* Least and greatest numbers, and induction *)

\* The least of some natural numbers.
LEMMA LeastOfNumbers ==
    ASSUME NEW S \in SUBSET Nat, S # {}
    PROVE  LeastOf(S) \in S /\ \A y \in S : LeastOf(S) <= y
<1>1. \E x \in S : \A y \in S : ~ (<<y, x>> \in OpToRel(<, Nat))
  BY NatLessThanWellFounded, WFMin
<1>2. \A x, y \in S : <<y, x>> \in OpToRel(<, Nat) \/ x <= y
  BY DEF OpToRel
<1>3. \E x \in S : \A y \in S : x <= y
  BY <1>1, <1>2
<1> QED BY <1>3 DEF LeastOf

\* The greatest of some numbers that do not exceed a bound.
LEMMA GreatestOfNumbers ==
    ASSUME NEW S \in SUBSET Int, S # {}, NEW m \in Int, \A x \in S : x <= m
    PROVE  GreatestOf(S) \in S /\ \A y \in S : y <= GreatestOf(S)
<1> DEFINE T == {m - x : x \in S}
<1>1. T \in SUBSET Nat /\ T # {}
  <2>1. \A x \in S : x \in Int /\ m - x \in Nat
    OBVIOUS
  <2> QED BY <2>1
<1>2. PICK t \in T : \A u \in T : t <= u
  BY <1>1, LeastOfNumbers
<1>3. \E x \in S : \A y \in S : y <= x
  <2>1. PICK x \in S : t = m - x
    BY <1>2
  <2>2. \A y \in S : m - x <= m - y
    BY <1>2, <2>1
  <2> QED BY <2>2
<1> QED BY <1>3 DEF GreatestOf

\* FirstOf, where the numbers count from one: nothing is 0.
LEMMA FirstOfNumbers ==
    ASSUME NEW S \in SUBSET (Nat \ {0})
    PROVE  /\ FirstOf(S) \in Nat
           /\ FirstOf(S) = 0 <=> S = {}
           /\ S # {} => FirstOf(S) \in S /\ \A y \in S : FirstOf(S) <= y
<1>1. CASE S = {}
  BY <1>1 DEF FirstOf
<1>2. CASE S # {}
  <2>1. LeastOf(S) \in S /\ \A y \in S : LeastOf(S) <= y
    BY <1>2, LeastOfNumbers
  <2> QED BY <1>2, <2>1 DEF FirstOf
<1> QED BY <1>1, <1>2

\* More numbers, all of them beyond the first one, do not change which is the first.
LEMMA FirstOfStays ==
    ASSUME NEW S \in SUBSET (Nat \ {0}), NEW T \in SUBSET (Nat \ {0}), S \subseteq T, S # {},
           \A y \in T \ S : \A x \in S : x <= y
    PROVE  FirstOf(T) = FirstOf(S)
<1>1. FirstOf(S) \in S /\ \A y \in S : FirstOf(S) <= y
  BY FirstOfNumbers
<1>2. FirstOf(T) \in T /\ \A y \in T : FirstOf(T) <= y
  BY FirstOfNumbers
<1>3. FirstOf(T) <= FirstOf(S) /\ FirstOf(S) <= FirstOf(T)
  BY <1>1, <1>2
<1>4. FirstOf(S) \in Nat /\ FirstOf(T) \in Nat
  BY FirstOfNumbers
<1> QED BY <1>3, <1>4

\* What holds of 0, and of each number up to n if it does of the one before, holds up to n.
LEMMA Climbs ==
    ASSUME NEW n \in Nat, NEW S, 0 \in S, \A i \in 1..n : i - 1 \in S => i \in S
    PROVE  0..n \subseteq S
<1> DEFINE T == (0..n) \ S
<1> SUFFICES ASSUME T # {} PROVE FALSE
    OBVIOUS
<1>1. PICK x \in T : \A y \in T : x <= y
  <2>1. T \in SUBSET Nat
    OBVIOUS
  <2> QED BY <2>1, LeastOfNumbers
<1>2. x \in 1..n /\ x - 1 \in 0..n /\ x - 1 \notin T
  BY <1>1
<1> QED BY <1>1, <1>2

-----------------------------------------------------------------------------
(* Frames *)

\* Bars of a frame, upright or upside down.
Wicks == {x \in [o : Int, h : Int, l : Int, c : Int] :
            /\ x.l <= x.o /\ x.o <= x.h
            /\ x.l <= x.c /\ x.c <= x.h}

\* A face of a frame is a frame of the same bars.
LEMMA FaceTyped ==
    ASSUME NEW b \in Seq(Wicks), NEW d
    PROVE  /\ Face(b, d) \in Seq(Wicks)
           /\ DOMAIN Face(b, d) = DOMAIN b /\ Len(Face(b, d)) = Len(b)
           /\ \A i \in 1..Len(b) : Face(b, d)[i] \in Wicks
<1>1. \A i \in 1..Len(b) : b[i] \in Wicks
  OBVIOUS
<1>2. \A i \in 1..Len(b) :
        [o |-> -b[i].o, h |-> -b[i].l, l |-> -b[i].h, c |-> -b[i].c] \in Wicks
  <2> SUFFICES ASSUME NEW i \in 1..Len(b)
               PROVE  [o |-> -b[i].o, h |-> -b[i].l, l |-> -b[i].h, c |-> -b[i].c] \in Wicks
      OBVIOUS
  <2> DEFINE x == b[i]
             y == [o |-> -x.o, h |-> -x.l, l |-> -x.h, c |-> -x.c]
  <2>1. x \in [o : Int, h : Int, l : Int, c : Int]
        /\ x.l <= x.o /\ x.o <= x.h /\ x.l <= x.c /\ x.c <= x.h
    BY <1>1 DEF Wicks
  <2> HIDE DEF x
  <2>2. y \in [o : Int, h : Int, l : Int, c : Int]
        /\ y.l <= y.o /\ y.o <= y.h /\ y.l <= y.c /\ y.c <= y.h
    BY <2>1
  <2>3. y \in Wicks
    BY <2>2 DEF Wicks
  <2> QED BY <2>3 DEF x
<1>3. Mirror(b) \in Seq(Wicks) /\ DOMAIN Mirror(b) = DOMAIN b /\ Len(Mirror(b)) = Len(b)
      /\ \A i \in 1..Len(b) : Mirror(b)[i] \in Wicks
  <2>1. DOMAIN b = 1..Len(b) /\ Len(b) \in Nat
    OBVIOUS
  <2>2. Mirror(b) \in [1..Len(b) -> Wicks]
    BY <1>2, <2>1 DEF Mirror
  <2> HIDE DEF Wicks
  <2> QED BY <2>1, <2>2
<1> QED BY <1>1, <1>3 DEF Face

\* What a bar of a frame is.
LEMMA WicksTyped ==
    ASSUME NEW x \in Wicks
    PROVE  /\ x.o \in Int /\ x.h \in Int /\ x.l \in Int /\ x.c \in Int
           /\ x.l <= x.o /\ x.o <= x.h /\ x.l <= x.c /\ x.c <= x.h
           /\ x.l <= x.h
BY DEF Wicks

\* The bars of the exchange are such bars.
LEMMA CandlesAreWicks == Candles \subseteq Wicks
BY DEF Candles, Wicks, BodyFoot, BodyTop

\* The frame consists of bars, whatever is traded.
Framed == bars \in Seq(Candles) \ {<<>>} /\ more \in Nat

\* A trade keeps a bar well-formed.
LEMMA TradedTyped ==
    ASSUME NEW x \in Candles, NEW p \in Nat \ {0}
    PROVE  Traded(x, p) \in Candles
<1>1. x \in [o : Nat \ {0}, h : Nat \ {0}, l : Nat \ {0}, c : Nat \ {0}]
      /\ x.l <= x.o /\ x.l <= x.c /\ x.o <= x.h /\ x.c <= x.h
  BY DEF Candles, BodyFoot, BodyTop
<1>2. /\ LeastOf({x.l, p}) \in {x.l, p}
      /\ LeastOf({x.l, p}) <= x.l /\ LeastOf({x.l, p}) <= p
  <2>1. {x.l, p} \in SUBSET Nat /\ {x.l, p} # {}
    BY <1>1
  <2> HIDE <1>1
  <2>2. LeastOf({x.l, p}) \in {x.l, p} /\ \A y \in {x.l, p} : LeastOf({x.l, p}) <= y
    BY <2>1, LeastOfNumbers
  <2> QED BY <2>2
<1>3. /\ GreatestOf({x.h, p}) \in {x.h, p}
      /\ x.h <= GreatestOf({x.h, p}) /\ p <= GreatestOf({x.h, p})
  <2>1. {x.h, p} \in SUBSET Int /\ {x.h, p} # {} /\ x.h + p \in Int
        /\ \A y \in {x.h, p} : y <= x.h + p
    BY <1>1
  <2> HIDE <1>1
  <2>2. GreatestOf({x.h, p}) \in {x.h, p} /\ \A y \in {x.h, p} : y <= GreatestOf({x.h, p})
    BY <2>1, GreatestOfNumbers
  <2> QED BY <2>2
<1> DEFINE t == Traded(x, p)
<1>4. ASSUME NEW R, R = [o : Nat \ {0}, h : Nat \ {0}, l : Nat \ {0}, c : Nat \ {0}], x \in R,
             NEW g \in Nat \ {0}, NEW m \in Nat \ {0}
      PROVE  LET y == [x EXCEPT !.c = p, !.h = g, !.l = m]
             IN  y \in R /\ y.o = x.o /\ y.h = g /\ y.l = m /\ y.c = p
  BY <1>4
<1>5. t \in [o : Nat \ {0}, h : Nat \ {0}, l : Nat \ {0}, c : Nat \ {0}]
      /\ t.l <= t.o /\ t.l <= t.c /\ t.o <= t.h /\ t.c <= t.h
  <2>1. GreatestOf({x.h, p}) \in Nat \ {0} /\ LeastOf({x.l, p}) \in Nat \ {0}
    BY <1>1, <1>2, <1>3
  <2>2. t \in [o : Nat \ {0}, h : Nat \ {0}, l : Nat \ {0}, c : Nat \ {0}]
        /\ t.o = x.o /\ t.h = GreatestOf({x.h, p}) /\ t.l = LeastOf({x.l, p}) /\ t.c = p
    BY <1>1, <1>4, <2>1 DEF Traded
  <2> QED BY <1>1, <1>2, <1>3, <2>1, <2>2
<1> QED BY <1>5 DEF Candles, BodyFoot, BodyTop

\* Trades and new bars keep the frame.
LEMMA FrameKept == Framed /\ [Next]_vars => Framed'
<1> SUFFICES ASSUME Framed, [Next]_vars PROVE Framed'
    OBVIOUS
<1>0. Len(bars) \in Nat \ {0} /\ bars[Len(bars)] \in Candles /\ bars \in Seq(Candles)
  BY DEF Framed
<1>1. CASE NewBar
  <2>1. Last(bars) = bars[Len(bars)] /\ Last(bars).c \in Nat \ {0}
    BY <1>0 DEF Last, Candles
  <2>2. Opening(Last(bars).c) \in Candles
    BY <2>1 DEF Opening, Candles, BodyFoot, BodyTop
  <2> QED BY <1>0, <1>1, <2>2 DEF Framed, NewBar
<1>2. ASSUME NEW p \in Prices, Tick(p) PROVE Framed'
  <2>1. Traded(bars[Len(bars)], p) \in Candles
    BY <1>0, TradedTyped, ChartAssumption
  <2>2. bars' = [bars EXCEPT ![Len(bars)] = Traded(bars[Len(bars)], p)] /\ more' = more
    BY <1>2 DEF Tick
  <2>3. bars' \in Seq(Candles) /\ Len(bars') = Len(bars)
    BY <1>0, <2>1, <2>2
  <2> QED BY <1>0, <2>2, <2>3 DEF Framed
<1>3. CASE UNCHANGED vars
  BY <1>3 DEF vars, Framed
<1> QED BY <1>1, <1>2, <1>3 DEF Next

\* The frame is always one, and so are its faces.
LEMMA FrameAlways == Spec => []Framed
<1>1. Init => Framed
  BY ChartAssumption DEF Init, Framed
<1> QED BY <1>1, FrameKept, PTL DEF Spec

\* The frame is a sequence of bars, of which there is one.
LEMMA FramedWicks == Framed => bars \in Seq(Wicks) /\ Len(bars) \in Nat \ {0}
BY CandlesAreWicks DEF Framed

-----------------------------------------------------------------------------
(* The target of a setup is a draw on liquidity *)

\* A swing lies between other bars.
LEMMA SwingsInside ==
    ASSUME NEW b \in Seq(Wicks), NEW d, NEW w \in Nat \ {0}
    PROVE  \A i \in Swings(b, d, w) : i \in 1..Len(b) /\ i + w \in 1..Len(b) /\ i - w \in 1..Len(b)
<1>1. DOMAIN b = 1..Len(b) /\ Len(b) \in Nat /\ Len(Face(b, d)) = Len(b)
  BY FaceTyped
<1> QED BY <1>1 DEF Swings, Peak

\* A gap has a lower and a higher edge.
LEMMA GapsTyped ==
    ASSUME NEW b \in Seq(Wicks), NEW d, NEW g \in Gaps(b, d)
    PROVE  /\ g = [at |-> g.at, dir |-> d, lo |-> Face(b, d)[g.at - 1].h,
                                           hi |-> Face(b, d)[g.at + 1].l]
           /\ g.dir = d /\ g.at \in 2..Len(b) - 1
           /\ g.lo \in Int /\ g.hi \in Int /\ g.lo < g.hi
           /\ Face(b, d)[g.at].c > Face(b, d)[g.at - 1].h
           /\ Face(b, d)[g.at + 1].l - Face(b, d)[g.at - 1].h >= MinGap
<1> DEFINE f == Face(b, d)
<1>0. Len(b) \in Nat /\ \A i \in 1..Len(b) : f[i] \in Wicks
  BY FaceTyped
<1> HIDE DEF f
<1>1. PICK i \in 2..Len(b) - 1 :
        /\ g = [at |-> i, dir |-> d, lo |-> f[i - 1].h, hi |-> f[i + 1].l]
        /\ f[i].c > f[i - 1].h /\ f[i + 1].l - f[i - 1].h >= MinGap
  BY DEF Gaps, f
<1>2. f[i - 1].h \in Int /\ f[i + 1].l \in Int
  <2>1. i - 1 \in 1..Len(b) /\ i + 1 \in 1..Len(b)
    BY <1>0
  <2> QED BY <1>0, <2>1, WicksTyped
<1>3. g.at = i /\ g.dir = d /\ g.lo = f[i - 1].h /\ g.hi = f[i + 1].l
  BY <1>1
<1>4. g.lo < g.hi
  <2>1. MinGap \in Nat \ {0}
    BY DetectorsAssumption
  <2> QED BY <1>1, <1>2, <1>3, <2>1, SMTT(30)
<1> QED BY <1>1, <1>2, <1>3, <1>4 DEF f

\* What a setup was made from.
LEMMA SetupFields ==
    ASSUME NEW b, NEW d, NEW at, NEW source, NEW entry, NEW stop, NEW target, NEW aim,
           NEW retraced, NEW s \in Setup(b, d, at, source, entry, stop, target, aim, retraced)
    PROVE  /\ s.at = at /\ s.dir = d /\ s.source = source /\ s.aim = aim
           /\ s.entry = entry * Len(b) /\ s.target = target * Len(b)
BY DEF Setup

\* A setup to a swing aims at one of the nearest open ones.
LEMMA ToSwingFields ==
    ASSUME NEW b, NEW d, NEW at, NEW source, NEW entry, NEW stop, NEW after, NEW retraced,
           NEW s \in ToSwing(b, d, at, source, entry, stop, after, retraced)
    PROVE  /\ s.at = at /\ s.dir = d /\ s.source = source
           /\ s.aim \in OpenTargets(b, d, entry, after)
           /\ s.entry = entry * Len(b) /\ s.target = 2 * Face(b, d)[s.aim].h * Len(b)
<1>1. PICK i \in OpenTargets(b, d, entry, after) :
        s \in Setup(b, d, at, source, entry, stop, 2 * Face(b, d)[i].h, i, retraced)
  BY DEF ToSwing
<1>2. /\ s.at = at /\ s.dir = d /\ s.source = source /\ s.aim = i
      /\ s.entry = entry * Len(b) /\ s.target = 2 * Face(b, d)[i].h * Len(b)
  BY <1>1, SetupFields
<1> QED BY <1>2

\* The sources beyond the Silver Bullet say what they are.
LEMMA ExtrasAreOther == ASSUME NEW b, NEW s \in Extras(b) PROVE s.source # "fvg"
<1> DEFINE T == UNION {TurtleSoups(b, d) : d \in Sides}
           I == UNION {ImpliedGaps(b, d) : d \in Sides}
           R == UNION {Rejections(b, d) : d \in Sides}
           A1 == UNION {TurtleSetup(b, t) : t \in LastThree(T)}
           A2 == UNION {BlockSetup(b, m) : m \in LastThree(MitigationBlocks(b, Wing))}
           A3 == UNION {ImpliedSetup(b, g) : g \in LastThree(I)}
           A4 == UNION {RejectionSetup(b, r) : r \in LastThree(R)}
<1>1. s \in A1 \/ s \in A2 \/ s \in A3 \/ s \in A4
  <2>1. Extras(b) = IF Len(b) < MinExtra THEN {} ELSE A1 \cup A2 \cup A3 \cup A4
    BY Zenon DEF Extras
  <2> HIDE DEF A1, A2, A3, A4
  <2> QED BY <2>1
<1> HIDE DEF T, I, R
<1>2. CASE s \in A1
  <2>1. PICK t : s \in TurtleSetup(b, t)
    BY <1>2
  <2>2. s \in Setup(b, t.dir, t.at, "turtle", 2 * t.swept, 2 * t.wick, 2 * t.target, 0, TRUE)
    BY <2>1 DEF TurtleSetup
  <2>3. PICK d, at, entry, stop, target, source, retraced :
          source = "turtle" /\ s \in Setup(b, d, at, source, entry, stop, target, 0, retraced)
    BY <2>2
  <2>4. s.source = "turtle"
    BY <2>3, SetupFields
  <2> QED BY <2>4
<1>3. CASE s \in A2
  <2>1. PICK m : s \in BlockSetup(b, m)
    BY <1>3
  <2>2. s \in ToSwing(b, m.ob.dir, m.back, "mitigation",
                      Face(b, m.ob.dir)[m.ob.at].h + Face(b, m.ob.dir)[m.ob.at].l,
                      2 * Face(b, m.ob.dir)[m.ob.at].l, m.back, TRUE)
    BY <2>1 DEF BlockSetup
  <2>3. PICK d, at, entry, stop, after, source, retraced :
          source = "mitigation" /\ s \in ToSwing(b, d, at, source, entry, stop, after, retraced)
    BY <2>2
  <2>4. s.source = "mitigation"
    BY <2>3, ToSwingFields
  <2> QED BY <2>4
<1>4. CASE s \in A3
  <2>1. PICK g : s \in ImpliedSetup(b, g)
    BY <1>4
  <2>2. s \in ToSwing(b, g.dir, g.at, "implied", g.lo + g.hi, 2 * g.lo, g.at, TRUE)
    BY <2>1 DEF ImpliedSetup
  <2>3. PICK d, at, entry, stop, after, source, retraced :
          source = "implied" /\ s \in ToSwing(b, d, at, source, entry, stop, after, retraced)
    BY <2>2
  <2>4. s.source = "implied"
    BY <2>3, ToSwingFields
  <2> QED BY <2>4
<1>5. CASE s \in A4
  <2>1. PICK r : s \in RejectionSetup(b, r)
    BY <1>5
  <2>2. s \in ToSwing(b, r.dir, r.at, "rejection", r.lo + r.hi, 2 * r.lo, r.at, TRUE)
    BY <2>1 DEF RejectionSetup
  <2>3. PICK d, at, entry, stop, after, source, retraced :
          source = "rejection" /\ s \in ToSwing(b, d, at, source, entry, stop, after, retraced)
    BY <2>2
  <2>4. s.source = "rejection"
    BY <2>3, ToSwingFields
  <2> QED BY <2>4
<1> QED BY <1>1, <1>2, <1>3, <1>4, <1>5

\* A Silver Bullet stands in the middle of a gap and aims at a nearest open swing.
LEMMA BulletFields ==
    ASSUME NEW b, NEW s \in SilverBullets(b)
    PROVE  \E g \in Gaps(b, "long") \cup Gaps(b, "short") :
              s \in ToSwing(b, g.dir, g.at, "fvg", g.lo + g.hi, 2 * g.lo, 0, Filled(b, g))
BY DEF SilverBullets, FirstOfWindows

\* Of two prices, the nearest open swing beyond the higher one is the nearest beyond the
\* lower one, unless that lies at the higher price.
LEMMA NearestIsDraw ==
    ASSUME NEW b \in Seq(Wicks), NEW d, Len(b) > 0, NEW entry \in Int,
           NEW i \in OpenTargets(b, d, entry, 0), entry <= 2 * Face(b, d)[Len(b)].c
    PROVE  \/ Face(b, d)[i].h = Face(b, d)[Len(b)].c
           \/ DrawOn(b, d) # 0 /\ Face(b, d)[DrawOn(b, d)].h = Face(b, d)[i].h
<1> DEFINE f == Face(b, d)
           price == f[Len(b)].c
           untaken == {k \in Swings(b, d, Wing) : ~Swept(b, d, k)}
           open == {k \in Swings(b, d, Wing) : ~Swept(b, d, k) /\ f[k].h > price}
<1>1. \A k \in 1..Len(b) : f[k].h \in Int /\ f[k].c \in Int /\ f[k].c <= f[k].h
  BY FaceTyped, WicksTyped
<1>2. /\ \A k \in untaken : k \in 1..Len(b) - 1
      /\ Len(b) \in 1..Len(b)
  BY SwingsInside, DetectorsAssumption
<1>3. price \in Int
  BY <1>1, <1>2
<1>4. i \in untaken /\ 2 * f[i].h > entry
      /\ \A k \in untaken : 2 * f[k].h > entry => f[i].h <= f[k].h
  <2>1. \A k \in untaken : k > 0
    BY <1>2
  <2>2. i \in NearestBeyond(b, d, {k \in Swings(b, d, Wing) : k > 0 /\ ~Swept(b, d, k)}, entry)
    BY DEF OpenTargets
  <2> HIDE DEF f
  <2>3. \A k \in untaken : f[k].h \in Int
    BY <1>1, <1>2
  <2>4. i \in Swings(b, d, Wing) /\ ~Swept(b, d, i) /\ 2 * f[i].h > entry
        /\ \A k \in untaken : 2 * f[k].h > entry => f[i].h < f[k].h \/ f[i].h = f[k].h
    BY <2>1, <2>2 DEF NearestBeyond, f
  <2> QED BY <2>3, <2>4
<1>5. f[i].h >= price
  <2>1. SUFFICES ASSUME f[Len(b)].h > f[i].h PROVE FALSE
    BY <1>1, <1>2, <1>4
  <2>2. Len(b) \in {j \in i + 1..Len(b) : f[j].h > f[i].h}
    BY <1>2, <1>4, <2>1
  <2>3. {j \in i + 1..Len(b) : f[j].h > f[i].h} \in SUBSET (Nat \ {0})
    BY <1>2, <1>4
  <2>4. TakenAt(b, d, i) # 0
    BY <2>2, <2>3, FirstOfNumbers DEF TakenAt
  <2> QED BY <1>4, <2>4 DEF Swept
<1>6. CASE f[i].h > price
  <2> DEFINE best == {k \in open : \A m \in open : f[k].h <= f[m].h}
  <2>1. ASSUME NEW k \in open PROVE 2 * f[k].h > entry /\ f[k].h \in Int
    <3>1. k \in 1..Len(b) /\ f[k].h > price
      BY <1>2
    <3>2. PICK x \in Int, p \in Int : x = f[k].h /\ p = price /\ x > p /\ entry <= 2 * p
      BY <1>1, <1>3, <3>1
    <3>3. 2 * x > entry
      BY <3>2
    <3> QED BY <3>2, <3>3
  <2>2. i \in best
    BY <1>4, <1>6, <2>1
  <2>3. best \in SUBSET (Nat \ {0})
    BY <1>2
  <2>4. LeastOf(best) \in best
    BY <2>2, <2>3, LeastOfNumbers
  <2>5. DrawOn(b, d) = LeastOf(best)
    BY <2>2 DEF DrawOn
  <2>6. f[LeastOf(best)].h = f[i].h
    <3>1. PICK l : l = LeastOf(best)
      OBVIOUS
    <3>2. l \in best /\ l \in open /\ i \in open
      BY <2>2, <2>4, <3>1
    <3>3. \A m \in open : f[l].h <= f[m].h
      BY <3>2
    <3>4. \A m \in open : f[i].h <= f[m].h
      BY <2>2
    <3>5. f[l].h <= f[i].h /\ f[i].h <= f[l].h
      BY <3>2, <3>3, <3>4
    <3>6. PICK x \in Int, y \in Int : x = f[l].h /\ y = f[i].h
      BY <2>1, <3>2
    <3>7. x = y
      BY <3>5, <3>6
    <3> HIDE DEF best, open, f
    <3> QED BY <3>1, <3>6, <3>7
  <2> QED BY <2>3, <2>4, <2>5, <2>6
<1> QED BY <1>1, <1>2, <1>3, <1>4, <1>5, <1>6

\* The target of a Silver Bullet signal and the draw on liquidity are found by two pieces of
\* code (_next_liquidity_target, calculate_dol); they agree in every frame once the price
\* has come past the entry, or the target lies at the price.
THEOREM TargetIsDrawHolds == Spec => []TargetIsDraw
<1>1. Framed => TargetIsDraw
  <2> SUFFICES ASSUME Framed, NEW s \in AllSignals(bars), s.source = "fvg",
                      s.entry <= Face(bars, s.dir)[Len(bars)].c * Unit(bars)
               PROVE  \/ Face(bars, s.dir)[s.aim].h = Face(bars, s.dir)[Len(bars)].c
                      \/ /\ DrawOn(bars, s.dir) # 0
                         /\ Face(bars, s.dir)[DrawOn(bars, s.dir)].h = Face(bars, s.dir)[s.aim].h
    BY DEF TargetIsDraw
  <2>1. bars \in Seq(Wicks) /\ Len(bars) \in Nat \ {0}
    BY FramedWicks
  <2>2. s \in SilverBullets(bars)
    BY ExtrasAreOther DEF AllSignals, SignalsOf, Signals, AllSetups
  <2>3. PICK g \in Gaps(bars, "long") \cup Gaps(bars, "short") :
          s \in ToSwing(bars, g.dir, g.at, "fvg", g.lo + g.hi, 2 * g.lo, 0, Filled(bars, g))
    BY <2>2, BulletFields
  <2>4. g.lo + g.hi \in Int
    BY <2>1, <2>3, GapsTyped
  <2>5. /\ s.dir = g.dir /\ s.entry = (g.lo + g.hi) * Len(bars)
        /\ s.aim \in OpenTargets(bars, g.dir, g.lo + g.hi, 0)
    BY <2>3, ToSwingFields
  <2>6. g.lo + g.hi <= 2 * Face(bars, g.dir)[Len(bars)].c
    <3> DEFINE x == g.lo + g.hi
               p == Face(bars, g.dir)[Len(bars)].c
               n == Len(bars)
    <3>1. x \in Int /\ p \in Int /\ n \in Nat \ {0} /\ x * n <= p * (2 * n)
      BY <2>1, <2>4, <2>5, FaceTyped, WicksTyped DEF Unit
    <3> HIDE DEF x, p, n
    <3>2. (x > 2 * p) => x * n > (2 * p) * n
      BY <3>1
    <3>3. (2 * p) * n = p * (2 * n)
      BY <3>1
    <3>4. x <= 2 * p
      BY <3>1, <3>2, <3>3
    <3> QED BY <3>4 DEF x, p
  <2> QED BY <2>1, <2>4, <2>5, <2>6, NearestIsDraw
<1> QED BY <1>1, FrameAlways, PTL
-----------------------------------------------------------------------------
(* Breaks of structure *)

\* A gap that a bar has closed beyond was filled by then.
LEMMA BrokenIsFilled ==
    ASSUME NEW b \in Seq(Wicks), NEW d \in Sides, NEW g \in Gaps(b, d), Invalidated(b, g)
    PROVE  Filled(b, g)
<1> DEFINE f == Face(b, d)
           J == {j \in g.at + 2..Len(b) : f[j].c < g.lo}
<1>1. /\ g.dir = d /\ g.at \in Nat /\ g.lo \in Int /\ g.hi \in Int /\ g.lo < g.hi
      /\ Len(b) \in Nat
      /\ \A i \in 1..Len(b) : f[i] \in Wicks
  BY GapsTyped, FaceTyped
<1>2. BrokenAt(b, g) = FirstOf(J)
  BY <1>1 DEF BrokenAt
<1> HIDE DEF f
<1>3. J \in SUBSET (Nat \ {0})
  BY <1>1
<1>4. FirstOf(J) \in J
  BY <1>2, <1>3, FirstOfNumbers DEF Invalidated
<1> DEFINE k == FirstOf(J)
<1>5. k \in g.at + 2..k /\ k \in 1..Len(b) /\ f[k].c < g.lo
  BY <1>1, <1>4
<1> HIDE DEF k
<1>6. 2 * f[k].l <= g.lo + g.hi
  BY <1>1, <1>5, WicksTyped
<1> QED BY <1>1, <1>2, <1>5, <1>6 DEF Filled, f, k

\* The events of the detector, each a close beyond a swing before it.
Breaks(b) ==
    {e \in [at : 1..Len(b), dir : Sides, swing : 1..Len(b), kind : {"BOS", "CHoCH"}] :
        e.swing < e.at /\ Face(b, e.dir)[e.at].c > Face(b, e.dir)[e.swing].h}

\* A BOS goes on in the direction of an earlier event, and no swing is broken twice.
InLine(ev) ==
    /\ \A k \in DOMAIN ev : ev[k].kind = "BOS" => \E m \in 1..k - 1 : ev[m].dir = ev[k].dir
    /\ \A k, m \in DOMAIN ev : (k # m /\ ev[k].dir = ev[m].dir) => ev[k].swing # ev[m].swing

\* A new event, of a swing that has none yet.
LEMMA AppendInLine ==
    ASSUME NEW T, NEW ev \in Seq(T), NEW e \in T, InLine(ev),
           e.kind = "BOS" => \E m \in DOMAIN ev : ev[m].dir = e.dir,
           \A k \in DOMAIN ev : ev[k].dir = e.dir => ev[k].swing # e.swing
    PROVE  Append(ev, e) \in Seq(T) /\ InLine(Append(ev, e))
<1> DEFINE new == Append(ev, e)
           n == Len(ev)
<1>1. /\ n \in Nat /\ DOMAIN ev = 1..n /\ new \in Seq(T) /\ DOMAIN new = 1..n + 1
      /\ new[n + 1] = e /\ \A k \in 1..n : new[k] = ev[k]
  OBVIOUS
<1> HIDE DEF new, n
<1>2. ASSUME NEW k \in DOMAIN new, new[k].kind = "BOS"
      PROVE  \E m \in 1..k - 1 : new[m].dir = new[k].dir
  <2>1. CASE k \in 1..n
    BY <1>1, <1>2, <2>1 DEF InLine
  <2>2. CASE k = n + 1
    BY <1>1, <1>2, <2>2
  <2> QED BY <1>1, <2>1, <2>2
<1>3. ASSUME NEW k \in DOMAIN new, NEW m \in DOMAIN new, k # m, new[k].dir = new[m].dir
      PROVE  new[k].swing # new[m].swing
  <2>1. CASE k \in 1..n /\ m \in 1..n
    BY <1>1, <1>3, <2>1 DEF InLine
  <2>2. CASE k = n + 1 \/ m = n + 1
    BY <1>1, <1>3, <2>2
  <2> QED BY <1>1, <2>1, <2>2
<1> QED BY <1>1, <1>2, <1>3 DEF InLine, new

\* The scan after i bars: the last swing of each side lies before the cursor, the events
\* are of swings before it, and the trend is the direction of one of them.
ScanSound(b, w, i) ==
    /\ w.cursor \in 1..i + 1
    /\ w.top \in [Sides -> 0..i] /\ \A d \in Sides : w.top[d] < w.cursor
    /\ w.events \in Seq(Breaks(b)) /\ InLine(w.events)
    /\ \A k \in DOMAIN w.events : w.events[k].swing < w.top[w.events[k].dir]
    /\ w.trend \in Sides => \E k \in DOMAIN w.events : w.events[k].dir = w.trend

\* What BreakIn finds is a break of the last swing of its side.
LEMMA BreakIsOne ==
    ASSUME NEW b \in Seq(Wicks), NEW i \in Nat, NEW to \in Nat, i <= to, to <= Len(b),
           NEW w, ScanSound(b, w, i), NEW d \in Sides,
           BreakIn(b, d, w.top[d], w.cursor, to) # 0
    PROVE  LET e == Break(d, BreakIn(b, d, w.top[d], w.cursor, to), w.top[d], w.trend)
           IN  /\ e \in Breaks(b)
               /\ e.dir = d /\ e.swing = w.top[d]
               /\ e.kind = "BOS" => w.trend = d
<1> DEFINE f == Face(b, d)
           top == w.top[d]
           J == {j \in w.cursor..to : f[j].c > f[top].h}
           j == FirstOf(J)
<1>1. w.cursor \in 1..i + 1 /\ top \in 0..i /\ top < w.cursor
  BY DEF ScanSound
<1>2. BreakIn(b, d, top, w.cursor, to) = j /\ top # 0
  BY DEF BreakIn
<1>3. J \in SUBSET (Nat \ {0})
  BY <1>1
<1>4. j \in J
  BY <1>2, <1>3, FirstOfNumbers
<1>5. j \in 1..Len(b) /\ top \in 1..Len(b) /\ top < j /\ f[j].c > f[top].h
  <2>1. j \in w.cursor..to /\ f[j].c > f[top].h
    BY <1>4
  <2> HIDE DEF f, top, j
  <2>2. Len(b) \in Nat
    OBVIOUS
  <2> QED BY <1>1, <1>2, <2>1, <2>2
<1> HIDE DEF f, top, j
<1>6. Break(d, j, top, w.trend) =
        [at |-> j, dir |-> d, swing |-> top, kind |-> IF w.trend = d THEN "BOS" ELSE "CHoCH"]
  BY DEF Break
<1>7. Break(d, j, top, w.trend) \in Breaks(b)
  BY <1>5, <1>6 DEF Breaks, f
<1> QED BY <1>2, <1>6, <1>7 DEF top

\* One bar keeps the scan sound.
LEMMA ScanStep ==
    ASSUME NEW b \in Seq(Wicks), NEW wing, NEW i \in 1..Len(b), NEW w, ScanSound(b, w, i - 1)
    PROVE  ScanSound(b, AtBar(b, wing, w, i), i)
<1>0. i \in Nat /\ i - 1 \in Nat /\ Len(b) \in Nat /\ i <= Len(b)
  OBVIOUS
<1>1. ASSUME NEW d \in Sides PROVE ScanSound(b, AtSwing(b, w, d, i), i)
  <2> DEFINE j == BreakIn(b, d, w.top[d], w.cursor, i)
             e == Break(d, j, w.top[d], w.trend)
             v == AtSwing(b, w, d, i)
  <2>1. /\ v.cursor = i + 1 /\ v.top = [w.top EXCEPT ![d] = i]
        /\ v.trend = IF j = 0 THEN w.trend ELSE d
        /\ v.events = IF j = 0 THEN w.events ELSE Append(w.events, e)
    BY DEF AtSwing
  <2> HIDE DEF v
  <2>2. /\ v.cursor \in 1..i + 1
        /\ v.top \in [Sides -> 0..i] /\ \A x \in Sides : v.top[x] < v.cursor
        /\ v.top[d] = i /\ w.top[d] < i
        /\ \A x \in Sides : w.top[x] <= v.top[x]
    <3>1. w.top \in [Sides -> 0..i - 1]
      BY <1>0 DEF ScanSound
    <3> QED BY <1>0, <1>1, <2>1, <3>1
  <2>3. ASSUME j = 0 PROVE ScanSound(b, v, i)
    <3>1. v.events = w.events /\ v.trend = w.trend
      BY <2>1, <2>3
    <3>2. /\ w.events \in Seq(Breaks(b)) /\ InLine(w.events)
          /\ \A k \in DOMAIN w.events : w.events[k].swing < w.top[w.events[k].dir]
          /\ w.trend \in Sides => \E k \in DOMAIN w.events : w.events[k].dir = w.trend
          /\ \A x \in Sides : w.top[x] \in Nat
      BY DEF ScanSound
    <3> HIDE DEF j, e
    <3>3. \A k \in DOMAIN w.events : w.events[k] \in Breaks(b)
      BY <3>2
    <3>4. \A k \in DOMAIN w.events : w.events[k].dir \in Sides /\ w.events[k].swing \in Nat
      BY <3>3 DEF Breaks
    <3>5. ASSUME NEW k \in DOMAIN w.events
          PROVE  w.events[k].swing < v.top[w.events[k].dir]
      <4> DEFINE x == w.events[k].dir
      <4>1. x \in Sides /\ w.events[k].swing < w.top[x] /\ w.events[k].swing \in Nat
        BY <3>2, <3>4
      <4> HIDE DEF x
      <4>2. w.top[x] <= v.top[x] /\ w.top[x] \in Nat /\ v.top[x] \in 0..i
        BY <2>2, <3>2, <4>1
      <4>3. w.events[k].swing < v.top[x]
        BY <1>0, <4>1, <4>2
      <4> QED BY <4>3 DEF x
    <3> QED BY <2>2, <3>1, <3>2, <3>5 DEF ScanSound
  <2>4. ASSUME j # 0 PROVE ScanSound(b, v, i)
    <3>1. e \in Breaks(b) /\ e.dir = d /\ e.swing = w.top[d] /\ (e.kind = "BOS" => w.trend = d)
      BY <1>0, <2>4, BreakIsOne
    <3> HIDE DEF e, j
    <3>2. v.events = Append(w.events, e) /\ v.trend = d
      BY <2>1, <2>4
    <3>3. /\ w.events \in Seq(Breaks(b)) /\ InLine(w.events)
          /\ \A k \in DOMAIN w.events : w.events[k].swing < w.top[w.events[k].dir]
          /\ w.trend \in Sides => \E k \in DOMAIN w.events : w.events[k].dir = w.trend
      BY DEF ScanSound
    <3>4. \A k \in DOMAIN w.events : /\ w.events[k] \in Breaks(b)
                                     /\ w.events[k].dir \in Sides /\ w.events[k].swing \in Nat
      BY <3>3 DEF Breaks
    <3>5. \A k \in DOMAIN w.events : w.events[k].dir = e.dir => w.events[k].swing # e.swing
      BY <2>2, <3>1, <3>3, <3>4
    <3>6. v.events \in Seq(Breaks(b)) /\ InLine(v.events)
      BY <1>1, <3>1, <3>2, <3>3, <3>5, AppendInLine
    <3>7. /\ DOMAIN v.events = 1..Len(w.events) + 1 /\ v.events[Len(w.events) + 1] = e
          /\ Len(w.events) \in Nat /\ DOMAIN w.events = 1..Len(w.events)
          /\ \A k \in 1..Len(w.events) : v.events[k] = w.events[k]
      BY <3>1, <3>2, <3>3
    <3>8. \A k \in DOMAIN v.events : v.events[k].swing < v.top[v.events[k].dir]
      <4>1. \A x \in Sides : w.top[x] \in Nat /\ v.top[x] \in 0..i
        BY <2>2 DEF ScanSound
      <4>2. e.swing < v.top[e.dir]
        BY <2>2, <3>1
      <4>3. ASSUME NEW k \in 1..Len(w.events)
            PROVE  v.events[k].swing < v.top[v.events[k].dir]
        <5> DEFINE x == w.events[k].dir
        <5>1. x \in Sides /\ w.events[k].swing < w.top[x] /\ w.events[k].swing \in Nat
              /\ v.events[k] = w.events[k]
          BY <3>3, <3>4, <3>7
        <5> HIDE DEF x
        <5>2. w.top[x] <= v.top[x] /\ w.top[x] \in Nat /\ v.top[x] \in 0..i
          BY <2>2, <4>1, <5>1
        <5>3. w.events[k].swing < v.top[x]
          BY <1>0, <5>1, <5>2, SMTT(30)
        <5> QED BY <5>1, <5>3 DEF x
      <4>4. v.events[Len(w.events) + 1].swing < v.top[v.events[Len(w.events) + 1].dir]
        BY <3>7, <4>2
      <4>5. \A k \in DOMAIN v.events : k \in 1..Len(w.events) \/ k = Len(w.events) + 1
        BY <3>7
      <4> QED BY <4>3, <4>4, <4>5
    <3>9. \E k \in DOMAIN v.events : v.events[k].dir = v.trend
      <4>1. Len(w.events) + 1 \in DOMAIN v.events
        BY <3>7
      <4> QED BY <3>1, <3>2, <3>7, <4>1
    <3>10. /\ v.cursor \in 1..i + 1
           /\ v.top \in [Sides -> 0..i] /\ \A x \in Sides : v.top[x] < v.cursor
      BY <2>2
    <3> QED BY ONLY <3>6, <3>8, <3>9, <3>10 DEF ScanSound
  <2> QED BY <2>3, <2>4 DEF v
<1>2. ScanSound(b, w, i)
  BY <1>0 DEF ScanSound
<1>3. AtBar(b, wing, w, i) \in {w} \cup {AtSwing(b, w, d, i) : d \in Sides}
  BY DEF AtBar, Sides
<1> QED BY <1>1, <1>2, <1>3

\* The scan is the last of a row of states, one after each bar.
LEMMA ScanIsSeen ==
    ASSUME NEW b \in Seq(Wicks), NEW wing
    PROVE  \E seen : /\ seen = [i \in 0..Len(b) |-> IF i = 0 THEN NothingSeen
                                                    ELSE AtBar(b, wing, seen[i - 1], i)]
                     /\ Scan(b, wing) = seen[Len(b)]
<1> DEFINE Row(g, m) == g = [i \in 0..m |-> IF i = 0 THEN NothingSeen
                                            ELSE AtBar(b, wing, g[i - 1], i)]
           M == {m \in 0..Len(b) : \E g : Row(g, m)}
<1>0. Len(b) \in Nat
  OBVIOUS
<1>1. 0 \in M
  <2> DEFINE h == [i \in 0..0 |-> NothingSeen]
  <2>1. h = [i \in 0..0 |-> IF i = 0 THEN NothingSeen ELSE AtBar(b, wing, h[i - 1], i)]
    OBVIOUS
  <2> HIDE DEF h
  <2>2. \E g : Row(g, 0)
    BY <2>1
  <2> QED BY <1>0, <2>2
<1>2. ASSUME NEW m \in 1..Len(b), m - 1 \in M PROVE m \in M
  <2>1. PICK g : Row(g, m - 1)
    BY <1>2
  <2> DEFINE h == [i \in 0..m |-> IF i = m THEN AtBar(b, wing, g[m - 1], m) ELSE g[i]]
  <2>2. ASSUME NEW i \in 0..m PROVE h[i] = IF i = 0 THEN NothingSeen ELSE AtBar(b, wing, h[i - 1], i)
    <3>1. CASE i = m
      <4>1. h[i - 1] = g[m - 1] /\ i # 0
        BY <1>0, <3>1
      <4> QED BY <3>1, <4>1
    <3>2. CASE i # m /\ i # 0
      <4>1. h[i - 1] = g[i - 1] /\ h[i] = g[i] /\ i \in 0..m - 1
        BY <1>0, <3>2
      <4> QED BY <2>1, <3>2, <4>1
    <3>3. CASE i # m /\ i = 0
      <4>1. h[i] = g[i] /\ i \in 0..m - 1
        BY <1>0, <3>3
      <4> QED BY <2>1, <3>3, <4>1
    <3> QED BY <3>1, <3>2, <3>3
  <2>3. Row(h, m)
    BY <2>2
  <2> HIDE DEF h
  <2>4. \E r : Row(r, m)
    BY <2>3
  <2> QED BY <2>4
<1>3. \E g : Row(g, Len(b))
  <2> HIDE DEF M
  <2>1. 0..Len(b) \subseteq M
    BY <1>0, <1>1, <1>2, Climbs
  <2> QED BY <1>0, <2>1 DEF M
<1> DEFINE seen == CHOOSE g : Row(g, Len(b))
<1>4. Row(seen, Len(b))
  BY <1>3
<1>5. Scan(b, wing) = seen[Len(b)]
  BY Zenon DEF Scan
<1> QED BY <1>4, <1>5

\* The scan of a whole frame is sound.
LEMMA ScanIsSound ==
    ASSUME NEW b \in Seq(Wicks), NEW wing
    PROVE  ScanSound(b, Scan(b, wing), Len(b))
<1> PICK seen : /\ seen = [i \in 0..Len(b) |-> IF i = 0 THEN NothingSeen
                                               ELSE AtBar(b, wing, seen[i - 1], i)]
                /\ Scan(b, wing) = seen[Len(b)]
    BY ScanIsSeen
<1> DEFINE S == {i \in 0..Len(b) : ScanSound(b, seen[i], i)}
<1>0. Len(b) \in Nat
  OBVIOUS
<1>1. 0 \in S
  <2>1. seen[0] = NothingSeen
    BY <1>0
  <2>2. ScanSound(b, NothingSeen, 0)
    <3>1. /\ NothingSeen.cursor = 1 /\ NothingSeen.top \in [Sides -> 0..0]
          /\ \A d \in Sides : NothingSeen.top[d] = 0
          /\ NothingSeen.events = <<>> /\ NothingSeen.trend = "none"
      BY DEF NothingSeen
    <3>2. "none" \notin Sides
      BY DEF Sides
    <3>3. NothingSeen.events \in Seq(Breaks(b)) /\ DOMAIN NothingSeen.events = {}
      BY <3>1
    <3> QED BY <3>1, <3>2, <3>3 DEF ScanSound, InLine
  <2> QED BY <1>0, <2>1, <2>2
<1>2. ASSUME NEW i \in 1..Len(b), i - 1 \in S PROVE i \in S
  <2>1. seen[i] = AtBar(b, wing, seen[i - 1], i)
    BY <1>0
  <2> QED BY <1>2, <2>1, ScanStep
<1>3. 0..Len(b) \subseteq S
  <2> HIDE DEF S
  <2> QED BY <1>0, <1>1, <1>2, Climbs
<1> QED BY <1>0, <1>3

\* What the end of the scan may add: a break of the last swing of a side that is left.
LateSound(b, w, ev, left) ==
    /\ ev \in Seq(Breaks(b)) /\ InLine(ev)
    /\ \A k \in DOMAIN ev : ev[k].dir \in left => ev[k].swing # w.top[ev[k].dir]
    /\ w.trend \in Sides => \E k \in DOMAIN ev : ev[k].dir = w.trend

\* One side at the end of the scan.
LEMMA LateStep ==
    ASSUME NEW b \in Seq(Wicks), NEW w, ScanSound(b, w, Len(b)), NEW ev, NEW left \in SUBSET Sides,
           LateSound(b, w, ev, left), NEW d \in left
    PROVE  LET e == Break(d, BreakIn(b, d, w.top[d], w.cursor, Len(b)), w.top[d], w.trend)
           IN  LateSound(b, w, ev \o (IF e.at = 0 THEN <<>> ELSE <<e>>), left \ {d})
<1> DEFINE j == BreakIn(b, d, w.top[d], w.cursor, Len(b))
           e == Break(d, j, w.top[d], w.trend)
           new == ev \o (IF e.at = 0 THEN <<>> ELSE <<e>>)
<1>0. ev \in Seq(Breaks(b)) /\ InLine(ev) /\ Len(b) \in Nat /\ d \in Sides
  BY DEF LateSound
<1>1. e.at = j
  BY DEF Break
<1>2. ASSUME j = 0 PROVE LateSound(b, w, new, left \ {d})
  <2>1. new = ev
    BY <1>0, <1>1, <1>2
  <2> HIDE DEF new
  <2> QED BY <2>1 DEF LateSound
<1>3. ASSUME j # 0 PROVE LateSound(b, w, new, left \ {d})
  <2>1. e \in Breaks(b) /\ e.dir = d /\ e.swing = w.top[d] /\ (e.kind = "BOS" => w.trend = d)
    BY <1>0, <1>3, BreakIsOne
  <2>2. new = Append(ev, e)
    BY <1>0, <1>1, <1>3
  <2> HIDE DEF e, j, new
  <2>3. /\ \A k \in DOMAIN ev : ev[k].dir = d => ev[k].swing # w.top[d]
        /\ w.trend \in Sides => \E k \in DOMAIN ev : ev[k].dir = w.trend
    BY DEF LateSound
  <2>4. new \in Seq(Breaks(b)) /\ InLine(new)
    BY <1>0, <2>1, <2>2, <2>3, AppendInLine
  <2>5. /\ Len(ev) \in Nat /\ DOMAIN ev = 1..Len(ev) /\ DOMAIN new = 1..Len(ev) + 1
        /\ new[Len(ev) + 1] = e /\ \A k \in 1..Len(ev) : new[k] = ev[k]
    BY <1>0, <2>1, <2>2
  <2>6. ASSUME NEW k \in DOMAIN new, new[k].dir \in left \ {d}
        PROVE  new[k].swing # w.top[new[k].dir]
    <3>1. k # Len(ev) + 1
      BY <2>1, <2>5, <2>6
    <3>2. k \in DOMAIN ev /\ new[k] = ev[k]
      BY <2>5, <3>1
    <3> QED BY <2>6, <3>2 DEF LateSound
  <2>7. w.trend \in Sides => \E k \in DOMAIN new : new[k].dir = w.trend
    <3>1. \A k \in DOMAIN ev : k \in DOMAIN new /\ new[k] = ev[k]
      BY <2>5
    <3> QED BY <2>3, <3>1
  <2> QED BY <2>4, <2>6, <2>7 DEF LateSound
<1> QED BY <1>2, <1>3

\* All events of a frame, at the end of the scan too.
LEMMA StructureFine ==
    ASSUME NEW b \in Seq(Wicks), NEW wing
    PROVE  Structure(b, wing) \in Seq(Breaks(b)) /\ InLine(Structure(b, wing))
<1> DEFINE w == Scan(b, wing)
<1>1. ScanSound(b, w, Len(b))
  BY ScanIsSound
<1> HIDE DEF w
<1>2. LateSound(b, w, w.events, Sides)
  <2>1. /\ w.events \in Seq(Breaks(b)) /\ InLine(w.events)
        /\ \A k \in DOMAIN w.events : w.events[k].swing < w.top[w.events[k].dir]
        /\ w.trend \in Sides => \E k \in DOMAIN w.events : w.events[k].dir = w.trend
        /\ \A x \in Sides : w.top[x] \in Nat
    BY <1>1 DEF ScanSound
  <2>2. \A k \in DOMAIN w.events : w.events[k].dir \in Sides /\ w.events[k].swing \in Nat
    <3>1. \A k \in DOMAIN w.events : w.events[k] \in Breaks(b)
      BY <2>1
    <3> QED BY <3>1 DEF Breaks
  <2> QED BY <2>1, <2>2 DEF LateSound
<1> DEFINE last(d) == Break(d, BreakIn(b, d, w.top[d], w.cursor, Len(b)), w.top[d], w.trend)
           found(d) == IF last(d).at = 0 THEN <<>> ELSE <<last(d)>>
<1>3. ASSUME NEW d \in Sides, NEW x \in Sides, x # d
      PROVE  LateSound(b, w, (w.events \o found(d)) \o found(x), {})
  <2>1. LateSound(b, w, w.events \o found(d), Sides \ {d})
    BY <1>1, <1>2, LateStep
  <2>2. x \in Sides \ {d} /\ (Sides \ {d}) \ {x} = {}
    BY <1>3 DEF Sides
  <2>3. LateSound(b, w, (w.events \o found(d)) \o found(x), (Sides \ {d}) \ {x})
    BY <1>1, <2>1, <2>2, LateStep
  <2> QED BY <2>2, <2>3
<1>4. \A d, x \in Sides : w.events \o (found(d) \o found(x)) = (w.events \o found(d)) \o found(x)
  <2>1. w.events \in Seq(Breaks(b))
    BY <1>1 DEF ScanSound
  <2>2. \A d \in Sides : found(d) \in Seq(Breaks(b))
    <3> SUFFICES ASSUME NEW d \in Sides, last(d).at # 0 PROVE last(d) \in Breaks(b)
        OBVIOUS
    <3>1. BreakIn(b, d, w.top[d], w.cursor, Len(b)) # 0
      BY DEF Break
    <3>2. Len(b) \in Nat
      OBVIOUS
    <3> QED BY <1>1, <3>1, <3>2, BreakIsOne
  <2> HIDE DEF found
  <2> SUFFICES ASSUME NEW d \in Sides, NEW x \in Sides
               PROVE  w.events \o (found(d) \o found(x)) = (w.events \o found(d)) \o found(x)
      OBVIOUS
  <2> DEFINE F == found(d)
             G == found(x)
             H == w.events
  <2>3. F \in Seq(Breaks(b)) /\ G \in Seq(Breaks(b)) /\ H \in Seq(Breaks(b))
    BY <2>1, <2>2
  <2> HIDE DEF F, G, H
  <2>4. H \o (F \o G) = (H \o F) \o G
    BY <2>3, ConcatAssociative
  <2> QED BY <2>4 DEF F, G, H
<1>5. Structure(b, wing) = w.events \o Late(b, w)
  BY DEF Structure, Whole, w
<1>6. Late(b, w) \in {found("short") \o found("long"), found("long") \o found("short")}
  BY DEF Late
<1>7. LateSound(b, w, Structure(b, wing), {})
  <2> HIDE DEF found
  <2>1. "short" \in Sides /\ "long" \in Sides /\ "short" # "long"
    BY DEF Sides
  <2>2. CASE Late(b, w) = found("short") \o found("long")
    <3>1. Structure(b, wing) = (w.events \o found("short")) \o found("long")
      BY <1>4, <1>5, <2>1, <2>2
    <3> QED BY <1>3, <2>1, <3>1
  <2>3. CASE Late(b, w) = found("long") \o found("short")
    <3>1. Structure(b, wing) = (w.events \o found("long")) \o found("short")
      BY <1>4, <1>5, <2>1, <2>3
    <3> QED BY <1>3, <2>1, <3>1
  <2> QED BY <1>6, <2>2, <2>3
<1> QED BY <1>7 DEF LateSound

\* A block lies within its frame, before the bar that broke the structure.
LEMMA BlocksInside ==
    ASSUME NEW b \in Seq(Wicks), NEW wing, NEW ob \in OrderBlocks(b, wing)
    PROVE  ob.dir \in Sides /\ ob.at \in 1..Len(b) /\ ob.moved \in 1..Len(b) /\ ob.at < ob.moved
<1>1. PICK e \in ToSet(Structure(b, wing)) :
        /\ ob = [at |-> BlockOf(b, e), dir |-> e.dir, moved |-> e.at]
        /\ BlockOf(b, e) # 0
  BY DEF OrderBlocks
<1>2. /\ e.at \in 1..Len(b) /\ e.swing \in 1..Len(b) /\ e.dir \in Sides
  <2>1. Structure(b, wing) \in Seq(Breaks(b))
    BY StructureFine
  <2>2. e \in Breaks(b)
    BY <2>1 DEF ToSet
  <2> QED BY <2>2 DEF Breaks
<1> DEFINE f == Face(b, e.dir)
           body == {k \in e.swing..e.at - 1 : f[k].c < f[k].o /\ f[k].h > f[k].l /\ ~TooWild(b, k)}
           best == {k \in body : \A m \in body : f[m].h - f[m].l <= f[k].h - f[k].l}
<1>3. BlockOf(b, e) = FirstOf(best)
  BY DEF BlockOf
<1>4. best \in SUBSET (e.swing..e.at - 1)
  OBVIOUS
<1> HIDE DEF best
<1>5. best \in SUBSET (Nat \ {0})
  BY <1>2, <1>4
<1>6. FirstOf(best) \in e.swing..e.at - 1
  BY <1>1, <1>3, <1>4, <1>5, FirstOfNumbers
<1>7. ob.at = FirstOf(best) /\ ob.dir = e.dir /\ ob.moved = e.at
  BY <1>1, <1>3
<1> QED BY <1>2, <1>6, <1>7

\* A block that a bar has closed beyond, a wick has pierced.
LEMMA BrokenIsMitigated ==
    ASSUME NEW b \in Seq(Wicks), NEW wing, NEW ob \in OrderBlocks(b, wing), BreakerAt(b, ob) # 0
    PROVE  Mitigated(b, ob)
<1> DEFINE f == Face(b, ob.dir)
<1>1. ob.at \in 1..Len(b) /\ ob.moved \in 1..Len(b) /\ \A i \in 1..Len(b) : f[i] \in Wicks
  BY BlocksInside, FaceTyped
<1>2. PICK k \in ob.moved + 1..Len(b) : f[k].c < f[ob.at].l
  BY DEF BreakerAt, FirstOf
<1> HIDE DEF f
<1>3. k \in 1..Len(b)
  <2>1. Len(b) \in Nat
    OBVIOUS
  <2> QED BY <1>1, <1>2, <2>1
<1>4. f[k].l <= f[k].c /\ f[k].l \in Int /\ f[k].c \in Int /\ f[ob.at].l \in Int
  BY <1>1, <1>3, WicksTyped
<1>5. f[k].l < f[ob.at].l
  BY <1>2, <1>4
<1> QED BY <1>2, <1>5 DEF Mitigated, f

\* Breaks of structure are real in every frame: each closes beyond a swing that was formed
\* before (detect_structure_events), no swing is broken twice, a BOS continues an earlier
\* break; what is broken was filled or mitigated before.
THEOREM StructureSoundHolds == Spec => []StructureSound
<1>1. Framed => StructureSound
  <2> SUFFICES ASSUME Framed PROVE StructureSound
      OBVIOUS
  <2>1. bars \in Seq(Wicks)
    BY FramedWicks
  <2>2. EventsSound(Structure(bars, Wing))
    <3> DEFINE ev == Structure(bars, Wing)
    <3>1. ev \in Seq(Breaks(bars)) /\ InLine(ev)
      BY <2>1, StructureFine
    <3> HIDE DEF ev
    <3>2. \A k \in DOMAIN ev : ev[k] \in Breaks(bars)
      BY <3>1
    <3>3. \A k \in DOMAIN ev :
            /\ ev[k].swing < ev[k].at
            /\ Face(bars, ev[k].dir)[ev[k].at].c > Face(bars, ev[k].dir)[ev[k].swing].h
      BY <3>2 DEF Breaks
    <3>4. EventsSound(ev)
      BY <3>1, <3>3 DEF EventsSound, InLine
    <3> QED BY <3>4 DEF ev
  <2>3. \A d \in Sides : \A g \in Gaps(bars, d) : Invalidated(bars, g) => Filled(bars, g)
    BY <2>1, BrokenIsFilled
  <2>4. \A ob \in OrderBlocks(bars, ObWing) : BreakerAt(bars, ob) # 0 => Mitigated(bars, ob)
    BY <2>1, BrokenIsMitigated
  <2> QED BY <2>2, <2>3, <2>4 DEF StructureSound
<1> QED BY <1>1, FrameAlways, PTL
-----------------------------------------------------------------------------
(* What is found in the closed bars stands *)

\* Frame b goes on where frame a ends.
Begins(a, b) ==
    /\ a \in Seq(Wicks) /\ b \in Seq(Wicks)
    /\ Len(a) \in Nat /\ Len(b) \in Nat /\ Len(a) <= Len(b)
    /\ \A i \in 1..Len(a) : a[i] = b[i]

\* So it does upside down.
LEMMA FaceBegins ==
    ASSUME NEW a, NEW b, NEW d, Begins(a, b)
    PROVE  /\ Begins(Face(a, d), Face(b, d))
           /\ Len(Face(a, d)) = Len(a) /\ Len(Face(b, d)) = Len(b)
           /\ DOMAIN a = 1..Len(a) /\ DOMAIN b = 1..Len(b)
<1>1. a \in Seq(Wicks) /\ b \in Seq(Wicks) /\ Len(a) \in Nat /\ Len(b) \in Nat /\ Len(a) <= Len(b)
      /\ DOMAIN a = 1..Len(a) /\ DOMAIN b = 1..Len(b)
  BY DEF Begins
<1>2. \A i \in 1..Len(a) : Face(a, d)[i] = Face(b, d)[i]
  <2> SUFFICES ASSUME NEW i \in 1..Len(a) PROVE Face(a, d)[i] = Face(b, d)[i]
      OBVIOUS
  <2>1. a[i] = b[i] /\ i \in DOMAIN a /\ i \in DOMAIN b
    BY <1>1 DEF Begins
  <2>2. Mirror(a)[i] = Mirror(b)[i]
    BY <2>1 DEF Mirror
  <2> QED BY <2>1, <2>2 DEF Face
<1>3. /\ Face(a, d) \in Seq(Wicks) /\ Len(Face(a, d)) = Len(a)
      /\ Face(b, d) \in Seq(Wicks) /\ Len(Face(b, d)) = Len(b)
  BY <1>1, FaceTyped
<1> QED BY <1>1, <1>2, <1>3 DEF Begins

\* What a bar of either frame is.
LEMMA BeginsTyped ==
    ASSUME NEW f, NEW g, Begins(f, g)
    PROVE  /\ Len(f) \in Nat /\ Len(g) \in Nat /\ Len(f) <= Len(g)
           /\ \A i \in 1..Len(f) : f[i] = g[i]
           /\ \A i \in 1..Len(g) : /\ g[i] \in Wicks
                                   /\ g[i].o \in Int /\ g[i].h \in Int /\ g[i].l \in Int /\ g[i].c \in Int
           /\ \A i \in 1..Len(f) : f[i] \in Wicks /\ i \in 1..Len(g)
<1>1. \A i \in 1..Len(g) : g[i] \in Wicks
  BY DEF Begins
<1>2. \A i \in 1..Len(f) : f[i] \in Wicks
  BY DEF Begins
<1>3. Len(f) \in Nat /\ Len(g) \in Nat /\ Len(f) <= Len(g) /\ \A i \in 1..Len(f) : f[i] = g[i]
  BY DEF Begins
<1> QED BY <1>1, <1>2, <1>3, WicksTyped

\* A peak between closed bars is one whatever comes.
LEMMA PeakStands ==
    ASSUME NEW f, NEW g, Begins(f, g), NEW w \in Nat, NEW i \in Nat, i + w <= Len(f)
    PROVE  Peak(f, i, w) <=> Peak(g, i, w)
<1>1. Len(f) \in Nat /\ Len(g) \in Nat /\ Len(f) <= Len(g) /\ \A k \in 1..Len(f) : f[k] = g[k]
  BY BeginsTyped
<1>2. CASE i - w >= 1
  <2>1. f[i] = g[i] /\ \A k \in 1..w : f[i - k] = g[i - k] /\ f[i + k] = g[i + k]
    <3>1. i \in 1..Len(f) /\ \A k \in 1..w : i - k \in 1..Len(f) /\ i + k \in 1..Len(f)
      BY <1>1, <1>2
    <3> QED BY <1>1, <3>1
  <2> QED BY <1>1, <2>1 DEF Peak
<1>3. CASE ~(i - w >= 1)
  BY <1>3 DEF Peak
<1> QED BY <1>2, <1>3

\* Between closed bars the swings are the same.
LEMMA SwingsSame ==
    ASSUME NEW a, NEW b, Begins(a, b), NEW d, NEW w \in Nat \ {0}, NEW i \in Nat, i + w <= Len(a)
    PROVE  i \in Swings(a, d, w) <=> i \in Swings(b, d, w)
<1>1. Len(a) \in Nat /\ Len(b) \in Nat /\ Len(a) <= Len(b)
      /\ DOMAIN a = 1..Len(a) /\ DOMAIN b = 1..Len(b)
      /\ Begins(Face(a, d), Face(b, d)) /\ Len(Face(a, d)) = Len(a)
  BY FaceBegins, BeginsTyped
<1>2. Peak(a, i, w) <=> Peak(b, i, w)
  BY PeakStands
<1>3. Peak(Face(a, d), i, w) <=> Peak(Face(b, d), i, w)
  BY <1>1, PeakStands
<1>4. i \in DOMAIN b /\ i - w >= 1 => i \in DOMAIN a
  BY <1>1
<1>5. Peak(Face(a, d), i, w) => i \in DOMAIN a /\ i \in DOMAIN b
  BY <1>1 DEF Peak
<1> QED BY <1>2, <1>3, <1>5 DEF Swings

\* A swing of closed bars is one whatever comes.
LEMMA SwingsStand ==
    ASSUME NEW a, NEW b, Begins(a, b), NEW d, NEW w \in Nat \ {0}
    PROVE  /\ Swings(a, d, w) \subseteq Swings(b, d, w)
           /\ \A i \in Swings(a, d, w) : i \in 1..Len(a) /\ i + w <= Len(a)
<1>1. \A i \in Swings(a, d, w) : i \in 1..Len(a) /\ i + w \in 1..Len(a)
  BY SwingsInside DEF Begins
<1>2. \A i \in Swings(a, d, w) : i \in Nat /\ i \in 1..Len(a) /\ i + w <= Len(a)
  BY <1>1
<1> QED BY <1>2, SwingsSame

\* A gap between closed bars.
LEMMA GapsStand ==
    ASSUME NEW a, NEW b, Begins(a, b), NEW d
    PROVE  Gaps(a, d) \subseteq Gaps(b, d)
<1> DEFINE f == Face(a, d)
           g == Face(b, d)
<1>1. Begins(f, g) /\ Len(f) = Len(a) /\ Len(g) = Len(b)
  BY FaceBegins
<1>2. Len(a) \in Nat /\ Len(b) \in Nat /\ Len(a) <= Len(b) /\ \A i \in 1..Len(a) : f[i] = g[i]
  BY <1>1, BeginsTyped
<1> HIDE DEF f, g
<1>3. \A i \in 2..Len(a) - 1 : /\ i \in 2..Len(b) - 1
                               /\ f[i] = g[i] /\ f[i - 1] = g[i - 1] /\ f[i + 1] = g[i + 1]
  <2>1. \A i \in 2..Len(a) - 1 : i \in 1..Len(a) /\ i - 1 \in 1..Len(a) /\ i + 1 \in 1..Len(a)
    BY <1>2
  <2> QED BY <1>2, <2>1
<1>4. ASSUME NEW x \in Gaps(a, d) PROVE x \in Gaps(b, d)
  <2>1. PICK i \in 2..Len(a) - 1 :
          /\ x = [at |-> i, dir |-> d, lo |-> f[i - 1].h, hi |-> f[i + 1].l]
          /\ f[i].c > f[i - 1].h /\ f[i + 1].l - f[i - 1].h >= MinGap
    BY <1>4 DEF Gaps, f
  <2>2. /\ i \in 2..Len(b) - 1
        /\ x = [at |-> i, dir |-> d, lo |-> g[i - 1].h, hi |-> g[i + 1].l]
        /\ g[i].c > g[i - 1].h /\ g[i + 1].l - g[i - 1].h >= MinGap
    BY <1>3, <2>1
  <2> QED BY <2>2 DEF Gaps, g
<1> QED BY <1>4

\* The bar that broke a gap stays the one that broke it.
LEMMA BrokenStands ==
    ASSUME NEW a, NEW b, Begins(a, b), NEW d, NEW x \in Gaps(a, d), Invalidated(a, x)
    PROVE  BrokenAt(b, x) = BrokenAt(a, x)
<1> DEFINE f == Face(a, d)
           g == Face(b, d)
           J == {j \in x.at + 2..Len(a) : f[j].c < x.lo}
           K == {j \in x.at + 2..Len(b) : g[j].c < x.lo}
<1>1. Begins(f, g) /\ Len(f) = Len(a) /\ Len(g) = Len(b)
  BY FaceBegins
<1>2. Len(a) \in Nat /\ Len(b) \in Nat /\ Len(a) <= Len(b) /\ \A i \in 1..Len(a) : f[i] = g[i]
  BY <1>1, BeginsTyped
<1>3. x.dir = d /\ x.at \in Nat
  BY GapsTyped DEF Begins
<1>4. BrokenAt(a, x) = FirstOf(J) /\ BrokenAt(b, x) = FirstOf(K)
  BY <1>3 DEF BrokenAt
<1> HIDE DEF f, g
<1>5. J \in SUBSET (Nat \ {0}) /\ K \in SUBSET (Nat \ {0})
  BY <1>2, <1>3
<1>6. J # {}
  BY <1>4 DEF Invalidated, FirstOf
<1>7. \A j \in x.at + 2..Len(a) : j \in 1..Len(a) /\ j \in x.at + 2..Len(b)
  BY <1>2, <1>3
<1>8. J \subseteq K
  BY <1>2, <1>7
<1>9. \A k \in K \ J : \A j \in J : j <= k
  <2> SUFFICES ASSUME NEW k \in K, k \notin J PROVE \A j \in J : j <= k
      OBVIOUS
  <2>1. k > Len(a)
    <3> SUFFICES ASSUME k <= Len(a) PROVE FALSE
        BY <1>2, <1>3
    <3>1. k \in x.at + 2..Len(a) /\ k \in 1..Len(a)
      BY <1>2, <1>3
    <3> QED BY <1>2, <3>1
  <2> QED BY <1>2, <1>3, <2>1
<1> HIDE DEF J, K
<1>10. FirstOf(K) = FirstOf(J)
  BY <1>5, <1>6, <1>8, <1>9, FirstOfStays
<1> QED BY <1>4, <1>10

\* The first bar beyond a swing stays the first.
LEMMA TakenStands ==
    ASSUME NEW a, NEW b, Begins(a, b), NEW d, NEW i \in 1..Len(a), Swept(a, d, i)
    PROVE  TakenAt(b, d, i) = TakenAt(a, d, i) /\ TakenAt(a, d, i) \in i + 1..Len(a)
<1> DEFINE f == Face(a, d)
           g == Face(b, d)
           J == {j \in i + 1..Len(a) : f[j].h > f[i].h}
           K == {j \in i + 1..Len(b) : g[j].h > g[i].h}
<1>1. Begins(f, g) /\ Len(f) = Len(a) /\ Len(g) = Len(b)
  BY FaceBegins
<1>2. Len(a) \in Nat /\ Len(b) \in Nat /\ Len(a) <= Len(b) /\ \A k \in 1..Len(a) : f[k] = g[k]
  BY <1>1, BeginsTyped
<1>3. i \in Nat
  BY <1>2
<1>4. TakenAt(a, d, i) = FirstOf(J) /\ TakenAt(b, d, i) = FirstOf(K)
  BY DEF TakenAt
<1> HIDE DEF f, g
<1>5. J \in SUBSET (Nat \ {0}) /\ K \in SUBSET (Nat \ {0})
  BY <1>2, <1>3
<1>6. J # {} /\ FirstOf(J) \in J
  <2>1. J # {}
    BY <1>4 DEF Swept, FirstOf
  <2> QED BY <1>5, <2>1, FirstOfNumbers
<1>7. \A j \in i + 1..Len(a) : j \in 1..Len(a) /\ j \in i + 1..Len(b)
  BY <1>2, <1>3
<1>8. J \subseteq K
  BY <1>2, <1>7
<1>9. \A k \in K \ J : \A j \in J : j <= k
  <2> SUFFICES ASSUME NEW k \in K, k \notin J PROVE \A j \in J : j <= k
      OBVIOUS
  <2>1. k > Len(a)
    <3> SUFFICES ASSUME k <= Len(a) PROVE FALSE
        BY <1>2, <1>3
    <3>1. k \in i + 1..Len(a) /\ k \in 1..Len(a)
      BY <1>2, <1>3
    <3> QED BY <1>2, <3>1
  <2> QED BY <1>2, <1>3, <2>1
<1>10. FirstOf(J) \in i + 1..Len(a)
  BY <1>6
<1> HIDE DEF J, K
<1>11. FirstOf(K) = FirstOf(J)
  BY <1>5, <1>6, <1>8, <1>9, FirstOfStays
<1> QED BY <1>4, <1>10, <1>11

\* Two gaps that overlap.
LEMMA BalancedStand ==
    ASSUME NEW a, NEW b, Begins(a, b)
    PROVE  BalancedRanges(a) \subseteq BalancedRanges(b)
<1> DEFINE L(p) == GreatestOf({p[1].lo, -p[2].hi})
           H(p) == LeastOf({p[1].hi, -p[2].lo})
           P == Gaps(a, "long") \X Gaps(a, "short")
           Q == Gaps(b, "long") \X Gaps(b, "short")
<1>1. P \subseteq Q
  BY GapsStand
<1> HIDE DEF P, Q, L, H
<1>2. {[long |-> p[1].at, short |-> p[2].at, lo |-> L(p), hi |-> H(p)] : p \in {p \in P : L(p) < H(p)}}
      \subseteq {[long |-> p[1].at, short |-> p[2].at, lo |-> L(p), hi |-> H(p)] :
                   p \in {p \in Q : L(p) < H(p)}}
  BY <1>1
<1> QED BY <1>2 DEF BalancedRanges, L, H, P, Q

\* The bait of a swing: all lower swings before it were closed before.
LEMMA InducementsStand ==
    ASSUME NEW a, NEW b, Begins(a, b), NEW d
    PROVE  Inducements(a, d) \subseteq Inducements(b, d)
<1> DEFINE f == Face(a, d)
           g == Face(b, d)
           A(i) == {k \in Swings(a, d, Wing) : k < i /\ k >= i - Lookback /\ f[k].h < f[i].h}
           B(i) == {k \in Swings(b, d, Wing) : k < i /\ k >= i - Lookback /\ g[k].h < g[i].h}
<1>1. Begins(f, g) /\ Len(f) = Len(a) /\ Len(g) = Len(b)
  BY FaceBegins
<1>2. Len(a) \in Nat /\ Len(b) \in Nat /\ Len(a) <= Len(b) /\ \A k \in 1..Len(a) : f[k] = g[k]
  BY <1>1, BeginsTyped
<1>3. Wing \in Nat \ {0} /\ ObWing \in Nat \ {0} /\ Wing <= ObWing /\ Lookback \in Nat
  BY DetectorsAssumption
<1>4. /\ Swings(a, d, ObWing) \subseteq Swings(b, d, ObWing)
      /\ \A i \in Swings(a, d, ObWing) : i \in 1..Len(a) /\ i + ObWing <= Len(a)
      /\ Swings(a, d, Wing) \subseteq Swings(b, d, Wing)
      /\ \A k \in Swings(a, d, Wing) : k \in 1..Len(a)
      /\ \A k \in Swings(b, d, Wing) : k \in 1..Len(b)
  <2>1. \A k \in Swings(b, d, Wing) : k \in 1..Len(b)
    BY <1>3, SwingsInside DEF Begins
  <2> QED BY <1>3, <2>1, SwingsStand
<1> HIDE DEF f, g
<1>5. ASSUME NEW i \in Swings(a, d, ObWing) PROVE A(i) = B(i)
  <2>1. \A k \in Swings(a, d, Wing) : k \in Swings(b, d, Wing) /\ f[k] = g[k] /\ f[i] = g[i]
    BY <1>2, <1>4
  <2>2. A(i) \subseteq B(i)
    BY <2>1
  <2>3. ASSUME NEW k \in B(i) PROVE k \in A(i)
    <3>1. k \in 1..Len(b) /\ k < i /\ i \in 1..Len(a) /\ i + ObWing <= Len(a)
      BY <1>4
    <3>2. k \in Nat /\ k \in 1..Len(a) /\ k + Wing <= Len(a)
      BY <1>2, <1>3, <3>1
    <3>3. k \in Swings(a, d, Wing)
      BY <1>3, <3>2, SwingsSame
    <3>4. f[k] = g[k] /\ f[i] = g[i]
      BY <1>2, <3>1, <3>2
    <3> QED BY <3>3, <3>4
  <2> HIDE DEF A, B
  <2> QED BY <2>2, <2>3
<1>6. Inducements(a, d) = {[target |-> i, bait |-> GreatestOf(A(i))] : i \in {i \in Swings(a, d, ObWing) : A(i) # {}}}
  BY DEF Inducements, f
<1>7. Inducements(b, d) = {[target |-> i, bait |-> GreatestOf(B(i))] : i \in {i \in Swings(b, d, ObWing) : B(i) # {}}}
  BY DEF Inducements, g
<1> HIDE DEF A, B
<1> QED BY <1>4, <1>5, <1>6, <1>7

\* A gap between the bodies of closed bars.
LEMMA ImpliedStand ==
    ASSUME NEW a, NEW b, Begins(a, b), NEW d
    PROVE  ImpliedGaps(a, d) \subseteq ImpliedGaps(b, d)
<1> DEFINE f == Face(a, d)
           g == Face(b, d)
<1>1. Begins(f, g) /\ Len(f) = Len(a) /\ Len(g) = Len(b)
  BY FaceBegins
<1>2. Len(a) \in Nat /\ Len(b) \in Nat /\ Len(a) <= Len(b) /\ \A i \in 1..Len(a) : f[i] = g[i]
  BY <1>1, BeginsTyped
<1> HIDE DEF f, g
<1>3. \A i \in 3..Len(a) : i \in 3..Len(b) /\ f[i] = g[i] /\ f[i - 2] = g[i - 2]
  <2>1. \A i \in 3..Len(a) : i \in 1..Len(a) /\ i - 2 \in 1..Len(a)
    BY <1>2
  <2> QED BY <1>2, <2>1
<1>4. ASSUME NEW x \in ImpliedGaps(a, d) PROVE x \in ImpliedGaps(b, d)
  <2>1. PICK i \in 3..Len(a) :
          /\ x = [at |-> i, dir |-> d, lo |-> BodyTop(f[i - 2]), hi |-> BodyFoot(f[i])]
          /\ BodyTop(f[i - 2]) < BodyFoot(f[i]) /\ f[i - 2].h >= f[i].l
    BY <1>4 DEF ImpliedGaps, f
  <2>2. /\ i \in 3..Len(b)
        /\ x = [at |-> i, dir |-> d, lo |-> BodyTop(g[i - 2]), hi |-> BodyFoot(g[i])]
        /\ BodyTop(g[i - 2]) < BodyFoot(g[i]) /\ g[i - 2].h >= g[i].l
    BY <1>3, <2>1
  <2> QED BY <2>2 DEF ImpliedGaps, g
<1> QED BY <1>4

\* A swing that was swept, and the bars that came back to its wick.
LEMMA SweepsStand ==
    ASSUME NEW a, NEW b, Begins(a, b), NEW d
    PROVE  /\ Sweeps(a, d) \subseteq Sweeps(b, d)
           /\ \A s \in Sweeps(a, d) : Retested(a, s) => Retested(b, s)
<1> DEFINE f == Face(a, d)
           g == Face(b, d)
<1>1. Begins(f, g) /\ Len(f) = Len(a) /\ Len(g) = Len(b)
  BY FaceBegins
<1>2. Len(a) \in Nat /\ Len(b) \in Nat /\ Len(a) <= Len(b) /\ \A i \in 1..Len(a) : f[i] = g[i]
  BY <1>1, BeginsTyped
<1>3. /\ Swings(a, d, Wing) \subseteq Swings(b, d, Wing)
      /\ \A i \in Swings(a, d, Wing) : i \in 1..Len(a)
  BY SwingsStand, DetectorsAssumption
<1> HIDE DEF f, g
<1> SUFFICES ASSUME NEW s \in Sweeps(a, d)
             PROVE  s \in Sweeps(b, d) /\ (Retested(a, s) => Retested(b, s))
    OBVIOUS
<1>4. PICK i \in Swings(a, d, Wing) :
        /\ s = [swing |-> i, at |-> TakenAt(a, d, i), dir |-> d]
        /\ Swept(a, d, i) /\ f[TakenAt(a, d, i)].c < f[i].h
  BY DEF Sweeps, f
<1> DEFINE j == TakenAt(a, d, i)
<1>5. TakenAt(b, d, i) = j /\ j \in i + 1..Len(a)
  BY <1>3, <1>4, TakenStands
<1>6. i \in 1..Len(a) /\ j \in 1..Len(a) /\ j # 0
  BY <1>2, <1>3, <1>5
<1> HIDE DEF j
<1>7. g[j] = f[j] /\ g[i] = f[i]
  BY <1>2, <1>6
<1>8. s \in Sweeps(b, d)
  <2>1. /\ i \in Swings(b, d, Wing) /\ s = [swing |-> i, at |-> TakenAt(b, d, i), dir |-> d]
        /\ Swept(b, d, i) /\ g[TakenAt(b, d, i)].c < g[i].h
    BY <1>3, <1>4, <1>5, <1>6, <1>7 DEF Swept, j
  <2> QED BY <2>1 DEF Sweeps, g
<1>9. ASSUME Retested(a, s) PROVE Retested(b, s)
  <2>1. s.dir = d /\ s.at = j /\ s.swing = i
    BY <1>4 DEF j
  <2>2. PICK k \in j + 1..Len(a) : f[k].h >= f[i].h /\ f[k].l <= f[j].h
    BY <1>9, <2>1 DEF Retested, f
  <2>3. k \in 1..Len(a) /\ k \in j + 1..Len(b)
    BY <1>2, <1>6
  <2>4. g[k] = f[k]
    BY <1>2, <2>3
  <2>5. g[k].h >= g[i].h /\ g[k].l <= g[j].h
    BY <1>7, <2>2, <2>4
  <2> QED BY <2>1, <2>3, <2>5 DEF Retested, g
<1> QED BY <1>8, <1>9

\* Whether a bar failed beyond the bars before it.
LEMMA FailedSame ==
    ASSUME NEW a, NEW b, Begins(a, b), NEW d, NEW i \in Lookback + 1..Len(a)
    PROVE  /\ Failed(a, d, i) <=> Failed(b, d, i)
           /\ i \in Lookback + 1..Len(b) /\ Face(a, d)[i] = Face(b, d)[i]
           /\ \A k \in i - Lookback..i - 1 : Face(a, d)[k] = Face(b, d)[k]
<1> DEFINE f == Face(a, d)
           g == Face(b, d)
<1>1. Begins(f, g) /\ Len(f) = Len(a) /\ Len(g) = Len(b)
  BY FaceBegins
<1>2. Len(a) \in Nat /\ Len(b) \in Nat /\ Len(a) <= Len(b) /\ \A k \in 1..Len(a) : f[k] = g[k]
  BY <1>1, BeginsTyped
<1>3. Lookback \in Nat
  BY DetectorsAssumption
<1> HIDE DEF f, g
<1>4. i \in Lookback + 1..Len(b) /\ i \in 1..Len(a) /\ \A k \in i - Lookback..i - 1 : k \in 1..Len(a)
  BY <1>2, <1>3
<1>5. f[i] = g[i] /\ \A k \in i - Lookback..i - 1 : f[k] = g[k]
  BY <1>2, <1>4
<1>6. {f[k].h : k \in i - Lookback..i - 1} = {g[k].h : k \in i - Lookback..i - 1}
  BY <1>5
<1> QED BY <1>4, <1>5, <1>6 DEF Failed, f, g

\* A setup against a bar that failed.
LEMMA TurtlesStand ==
    ASSUME NEW a, NEW b, Begins(a, b), NEW d
    PROVE  TurtleSoups(a, d) \subseteq TurtleSoups(b, d)
<1> DEFINE f == Face(a, d)
           g == Face(b, d)
<1> SUFFICES ASSUME NEW x \in TurtleSoups(a, d) PROVE x \in TurtleSoups(b, d)
    OBVIOUS
<1>1. PICK i \in Lookback + 1..Len(a) :
        /\ x = [at |-> i, dir |-> d,
                swept |-> LeastOf({f[k].l : k \in i - Lookback..i - 1}), wick |-> f[i].l,
                target |-> GreatestOf({f[k].h : k \in i - Lookback..i - 1})]
        /\ Failed(a, Other(d), i) /\ (d = "long" => ~Failed(a, "long", i))
  BY DEF TurtleSoups
<1> HIDE DEF f, g
<1>2. /\ Failed(b, Other(d), i) /\ (d = "long" => ~Failed(b, "long", i))
      /\ i \in Lookback + 1..Len(b)
  BY <1>1, FailedSame
<1>3. f[i] = g[i] /\ \A k \in i - Lookback..i - 1 : f[k] = g[k]
  BY FailedSame DEF f, g
<1>4. /\ {f[k].l : k \in i - Lookback..i - 1} = {g[k].l : k \in i - Lookback..i - 1}
      /\ {f[k].h : k \in i - Lookback..i - 1} = {g[k].h : k \in i - Lookback..i - 1}
  BY <1>3
<1>5. x = [at |-> i, dir |-> d,
           swept |-> LeastOf({g[k].l : k \in i - Lookback..i - 1}), wick |-> g[i].l,
           target |-> GreatestOf({g[k].h : k \in i - Lookback..i - 1})]
  BY <1>1, <1>3, <1>4
<1> QED BY <1>2, <1>5 DEF TurtleSoups, g

\* There is a price no bar of a frame exceeds.
LEMMA HighsBounded ==
    ASSUME NEW f \in Seq(Wicks)
    PROVE  \E m \in Int : \A k \in 1..Len(f) : f[k].h <= m
<1> DEFINE S == {i \in 0..Len(f) : \E m \in Int : \A k \in 1..i : f[k].h <= m}
<1>0. Len(f) \in Nat /\ \A k \in 1..Len(f) : f[k] \in Wicks
  OBVIOUS
<1>1. \A k \in 1..Len(f) : f[k].h \in Int
  BY <1>0, WicksTyped
<1>2. 0 \in S
  BY <1>0
<1>3. ASSUME NEW i \in 1..Len(f), i - 1 \in S PROVE i \in S
  <2>1. PICK m \in Int : \A k \in 1..i - 1 : f[k].h <= m
    BY <1>3
  <2>2. \E v \in Int : m <= v /\ f[i].h <= v
    <3>1. CASE m <= f[i].h
      BY <1>1, <3>1
    <3>2. CASE f[i].h <= m
      BY <1>1, <3>2
    <3> QED BY <1>1, <3>1, <3>2
  <2>3. PICK v \in Int : m <= v /\ f[i].h <= v
    BY <2>2
  <2>4. ASSUME NEW k \in 1..i PROVE f[k].h <= v
    <3>1. CASE k = i
      BY <2>3, <3>1
    <3>2. CASE k # i
      <4>1. k \in 1..i - 1 /\ k \in 1..Len(f)
        BY <1>0, <3>2
      <4> QED BY <1>1, <2>1, <2>3, <4>1
    <3> QED BY <3>1, <3>2
  <2> QED BY <1>0, <2>4
<1>4. 0..Len(f) \subseteq S
  <2> HIDE DEF S
  <2> QED BY <1>0, <1>2, <1>3, Climbs
<1>5. Len(f) \in S
  <2> HIDE DEF S
  <2> QED BY <1>0, <1>4
<1> QED BY <1>5

\* The lesser of two numbers.
LEMMA LeastOfTwo ==
    ASSUME NEW x \in Nat, NEW y \in Nat
    PROVE  LeastOf({x, y}) \in {x, y} /\ LeastOf({x, y}) <= x /\ LeastOf({x, y}) <= y
<1>1. {x, y} \in SUBSET Nat /\ {x, y} # {}
  OBVIOUS
<1>2. LeastOf({x, y}) \in {x, y} /\ \A v \in {x, y} : LeastOf({x, y}) <= v
  BY <1>1, LeastOfNumbers
<1> QED BY <1>2

\* A price that has moved away from a rejection has moved away from it for ever.
LEMMA RejectionsStand ==
    ASSUME NEW a, NEW b, Begins(a, b), NEW d
    PROVE  Rejections(a, d) \subseteq Rejections(b, d)
<1> DEFINE f == Face(a, d)
           g == Face(b, d)
<1>1. Begins(f, g) /\ Len(f) = Len(a) /\ Len(g) = Len(b) /\ g \in Seq(Wicks)
  BY FaceBegins DEF Begins
<1>2. /\ Len(a) \in Nat /\ Len(b) \in Nat /\ Len(a) <= Len(b) /\ \A i \in 1..Len(a) : f[i] = g[i]
      /\ \A i \in 1..Len(b) : g[i].h \in Int /\ g[i].l \in Int /\ g[i].c \in Int /\ g[i].o \in Int
  BY <1>1, BeginsTyped
<1> HIDE DEF f, g
<1> SUFFICES ASSUME NEW x \in Rejections(a, d) PROVE x \in Rejections(b, d)
    OBVIOUS
<1> DEFINE endA(i) == LeastOf({i + Confirm, Len(a)})
           endB(i) == LeastOf({i + Confirm, Len(b)})
           A(i) == {f[k].h : k \in i + 1..endA(i)}
           B(i) == {g[k].h : k \in i + 1..endB(i)}
<1>3. PICK i \in 1..Len(a) - 1 :
        /\ x = [at |-> i, dir |-> d, lo |-> f[i].l, hi |-> f[i].c]
        /\ f[i].c < f[i].o
        /\ 2 * (f[i].c - f[i].l) >= f[i].h - f[i].l
        /\ 2 * (GreatestOf(A(i)) - f[i].c) >= 3 * (f[i].c - f[i].l)
  BY DEF Rejections, f
<1>4. i \in 1..Len(a) /\ i \in 1..Len(b) - 1 /\ i \in 1..Len(b) /\ f[i] = g[i]
  BY <1>2
<1>5. endA(i) \in i + 1..Len(a) /\ endB(i) \in i + 1..Len(b) /\ endA(i) <= endB(i)
  <2>1. Confirm \in Nat \ {0}
    BY DetectorsAssumption
  <2>2. i + Confirm \in Nat /\ i + Confirm >= i + 1 /\ Len(a) >= i + 1 /\ Len(b) >= i + 1
    BY <1>2, <2>1
  <2>3. endA(i) \in {i + Confirm, Len(a)} /\ endA(i) <= i + Confirm /\ endA(i) <= Len(a)
    BY <1>2, <2>2, LeastOfTwo
  <2>4. endB(i) \in {i + Confirm, Len(b)} /\ endB(i) <= i + Confirm /\ endB(i) <= Len(b)
    BY <1>2, <2>2, LeastOfTwo
  <2> HIDE DEF endA, endB
  <2> QED BY <1>2, <2>2, <2>3, <2>4
<1> HIDE DEF endA, endB
<1>6. \A k \in i + 1..endA(i) : k \in 1..Len(a) /\ k \in 1..Len(b) /\ k \in i + 1..endB(i)
  BY <1>2, <1>5
<1>7. A(i) \subseteq B(i)
  BY <1>2, <1>6
<1>8. B(i) \in SUBSET Int /\ A(i) # {}
  <2>1. \A k \in i + 1..endB(i) : k \in 1..Len(b)
    BY <1>2, <1>5
  <2>2. i + 1 \in i + 1..endA(i)
    BY <1>2, <1>5
  <2> QED BY <1>2, <2>1, <2>2
<1>9. PICK m \in Int : \A y \in B(i) : y <= m
  <2>1. PICK m \in Int : \A k \in 1..Len(g) : g[k].h <= m
    BY <1>1, HighsBounded
  <2>2. \A k \in i + 1..endB(i) : k \in 1..Len(g)
    BY <1>1, <1>2, <1>5
  <2> QED BY <2>1, <2>2
<1> HIDE DEF A, B
<1>10. GreatestOf(A(i)) \in A(i)
  BY <1>7, <1>8, <1>9, GreatestOfNumbers
<1>11. GreatestOf(B(i)) \in B(i) /\ \A y \in B(i) : y <= GreatestOf(B(i))
  BY <1>7, <1>8, <1>9, GreatestOfNumbers
<1>12. GreatestOf(A(i)) \in Int /\ GreatestOf(B(i)) \in Int /\ GreatestOf(A(i)) <= GreatestOf(B(i))
  BY <1>7, <1>8, <1>10, <1>11
<1>13. 2 * (GreatestOf(B(i)) - g[i].c) >= 3 * (g[i].c - g[i].l)
  <2> DEFINE p == GreatestOf(A(i))
             q == GreatestOf(B(i))
             c == g[i].c
             l == g[i].l
  <2>1. p \in Int /\ q \in Int /\ p <= q /\ c \in Int /\ l \in Int
    BY <1>2, <1>4, <1>12
  <2>2. 2 * (p - c) >= 3 * (c - l)
    BY <1>3, <1>4
  <2> HIDE DEF p, q, c, l
  <2>3. 2 * (q - c) >= 3 * (c - l)
    BY <2>1, <2>2
  <2> QED BY <2>3 DEF q, c, l
<1>14. /\ x = [at |-> i, dir |-> d, lo |-> g[i].l, hi |-> g[i].c]
       /\ g[i].c < g[i].o
       /\ 2 * (g[i].c - g[i].l) >= g[i].h - g[i].l
  BY <1>3, <1>4
<1> QED BY <1>4, <1>13, <1>14 DEF Rejections, g, B, endB

\* A gap that turned into one of the other direction.
LEMMA InvertedStand ==
    ASSUME NEW a, NEW b, Begins(a, b), NEW d
    PROVE  InvertedGaps(a, d) \subseteq InvertedGaps(b, d)
<1> SUFFICES ASSUME NEW x \in InvertedGaps(a, d) PROVE x \in InvertedGaps(b, d)
    OBVIOUS
<1>1. PICK g \in Gaps(a, Other(d)) :
        /\ x = [at |-> BrokenAt(a, g), dir |-> d, origin |-> g.at]
        /\ Invalidated(a, g)
  BY DEF InvertedGaps
<1>2. BrokenAt(b, g) = BrokenAt(a, g)
  BY <1>1, BrokenStands
<1>3. Invalidated(b, g) /\ g \in Gaps(b, Other(d))
  BY <1>1, <1>2, GapsStand DEF Invalidated
<1> QED BY <1>1, <1>2, <1>3 DEF InvertedGaps

\* A level of equal highs keeps its swings.
LEMMA LevelsStand ==
    ASSUME NEW a, NEW b, Begins(a, b), NEW d, NEW S \in EqualLevels(a, d)
    PROVE  \E T \in EqualLevels(b, d) : S \subseteq T
<1> DEFINE f == Face(a, d)
           g == Face(b, d)
           A == Swings(a, d, Wing)
           B == Swings(b, d, Wing)
<1>1. Begins(f, g)
  BY FaceBegins
<1>2. Len(a) \in Nat /\ Len(b) \in Nat /\ Len(a) <= Len(b) /\ \A i \in 1..Len(a) : f[i] = g[i]
  <2>1. Len(f) = Len(a) /\ Len(a) \in Nat /\ Len(b) \in Nat /\ Len(a) <= Len(b)
    BY FaceBegins DEF Begins
  <2> QED BY <1>1, <2>1, BeginsTyped
<1>3. A \subseteq B /\ \A i \in A : i \in 1..Len(a)
  BY SwingsStand, DetectorsAssumption
<1>4. B \subseteq 1..Len(b)
  <2>1. b \in Seq(Wicks) /\ Wing \in Nat \ {0}
    BY DetectorsAssumption DEF Begins
  <2>2. \A i \in B : i \in 1..Len(b)
    BY <2>1, SwingsInside
  <2> QED BY <2>2
<1>5. PICK p \in {f[i].h : i \in A} : S = {i \in A : f[i].h = p} /\ Cardinality(S) >= 2
  BY DEF EqualLevels
<1> HIDE DEF f, g, A, B
<1> DEFINE T == {i \in B : g[i].h = p}
<1>6. S \subseteq T /\ p \in {g[i].h : i \in B}
  BY <1>2, <1>3, <1>5
<1>7. IsFiniteSet(T) /\ T \subseteq 1..Len(b)
  <2>1. IsFiniteSet(1..Len(b))
    BY <1>2, FS_Interval
  <2>2. T \subseteq 1..Len(b)
    BY <1>4
  <2> QED BY <2>1, <2>2, FS_Subset
<1>8. Cardinality(T) >= 2
  <2>1. Cardinality(S) <= Cardinality(T) /\ Cardinality(S) \in Nat /\ Cardinality(T) \in Nat
    BY <1>6, <1>7, FS_Subset, FS_CardinalityType
  <2> QED BY <1>5, <2>1
<1>9. T \in EqualLevels(b, d)
  <2>1. T \in {{i \in B : g[i].h = q} : q \in {g[i].h : i \in B}}
    BY <1>6
  <2> QED BY <1>8, <2>1 DEF EqualLevels, g, B
<1> QED BY <1>6, <1>9

\* All that is shown of a frame stands in every frame that goes on from it.
LEMMA ShownStands ==
    ASSUME NEW a, NEW b, Begins(a, b)
    PROVE  Contained(Shown(a), Shown(b))
<1>1. Shown(a).swings \subseteq Shown(b).swings
  BY SwingsStand, DetectorsAssumption DEF Shown
<1>2. Shown(a).gaps \subseteq Shown(b).gaps
  BY GapsStand DEF Shown
<1>3. Shown(a).balanced \subseteq Shown(b).balanced
  BY BalancedStand DEF Shown
<1>4. Shown(a).inducements \subseteq Shown(b).inducements
  BY InducementsStand DEF Shown
<1>5. Shown(a).implied \subseteq Shown(b).implied
  BY ImpliedStand DEF Shown
<1>6. Shown(a).sweeps \subseteq Shown(b).sweeps
  BY SweepsStand DEF Shown
<1>7. Shown(a).retests \subseteq Shown(b).retests
  BY SweepsStand DEF Shown
<1>8. Shown(a).turtles \subseteq Shown(b).turtles
  BY TurtlesStand DEF Shown
<1>9. Shown(a).rejections \subseteq Shown(b).rejections
  BY RejectionsStand DEF Shown
<1>10. Shown(a).inverted \subseteq Shown(b).inverted
  BY InvertedStand DEF Shown
<1>11. DOMAIN Shown(a) = {"swings", "gaps", "balanced", "inducements", "implied", "sweeps",
                          "retests", "turtles", "rejections", "inverted"}
  BY DEF Shown
<1> QED BY <1>1, <1>2, <1>3, <1>4, <1>5, <1>6, <1>7, <1>8, <1>9, <1>10, <1>11 DEF Contained

\* The closed bars of a frame are where it begins.
LEMMA ClosedBegin ==
    ASSUME NEW b \in Seq(Wicks), Len(b) > 0
    PROVE  Begins(SubSeq(b, 1, Len(b) - 1), b) /\ Len(SubSeq(b, 1, Len(b) - 1)) = Len(b) - 1
<1> DEFINE a == SubSeq(b, 1, Len(b) - 1)
<1>1. /\ a \in Seq(Wicks) /\ Len(a) = Len(b) - 1 /\ Len(b) \in Nat
      /\ \A i \in 1..Len(b) - 1 : a[i] = b[i]
  <2>1. 1 \in Int /\ Len(b) - 1 \in Int /\ \A i \in 1..Len(b) - 1 : b[i] \in Wicks
    OBVIOUS
  <2>2. a \in Seq(Wicks)
    BY <2>1, SubSeqProperties
  <2>3. Len(a) = IF 1 <= Len(b) - 1 THEN Len(b) - 1 - 1 + 1 ELSE 0
    BY <2>1, SubSeqProperties
  <2>4. \A i \in 1..Len(b) - 1 : a[i] = b[i]
    BY <2>1, SubSeqProperties
  <2>5. Len(b) \in Nat
    OBVIOUS
  <2> HIDE DEF a
  <2>6. Len(a) = Len(b) - 1
    <3> DEFINE n == Len(b)
               k == Len(a)
    <3>1. n \in Nat /\ n > 0 /\ k = IF 1 <= n - 1 THEN n - 1 - 1 + 1 ELSE 0
      BY <2>3, <2>5
    <3> HIDE DEF n, k
    <3>2. k = n - 1
      BY <3>1
    <3> QED BY <3>2 DEF n, k
  <2> QED BY <2>2, <2>4, <2>5, <2>6
<1> HIDE DEF a
<1>2. Begins(a, b) /\ Len(a) = Len(b) - 1
  BY <1>1 DEF Begins
<1> QED BY <1>2 DEF a

\* The patterns drawn in the closed bars do not repaint: swings, gaps, balanced ranges,
\* inducements, implied gaps, sweeps and their retests, turtle soups, rejections, inverted
\* gaps and equal levels stand in every frame of every length, whatever the forming bar does.
THEOREM ClosedBarsStandHolds == Spec => []ClosedBarsStand
<1>1. Framed => ClosedBarsStand
  <2> SUFFICES ASSUME Framed PROVE ClosedBarsStand
      OBVIOUS
  <2>1. bars \in Seq(Wicks) /\ Len(bars) > 0
    BY FramedWicks
  <2>2. Begins(SubSeq(bars, 1, Len(bars) - 1), bars)
    BY <2>1, ClosedBegin
  <2> QED BY <2>2, ShownStands, LevelsStand DEF ClosedBarsStand
<1> QED BY <1>1, FrameAlways, PTL
-----------------------------------------------------------------------------
(* The backtest does not look ahead *)

\* The hours that are over before bar i end before it.
LEMMA HoursAreOver ==
    ASSUME NEW i \in Nat \ {0}
    PROVE  HoursBefore(i) \in Nat /\ \A j \in 0..HoursBefore(i) : j * HourBars \in Nat /\ j * HourBars < i
<1>1. HourBars \in Nat \ {0}
  BY ReplayAssumption
<1> DEFINE q == (i - 1) \div HourBars
<1>2. q \in Nat /\ q * HourBars <= i - 1
  <2>1. i - 1 \in Nat
    OBVIOUS
  <2> QED BY <1>1, <2>1
<1>3. HoursBefore(i) = q
  <2>1. HourOf(i) = q + 1
    BY DEF HourOf
  <2> HIDE DEF q
  <2> QED BY <1>2, <2>1 DEF HoursBefore
<1> HIDE DEF q
<1>4. ASSUME NEW j \in 0..q PROVE j * HourBars \in Nat /\ j * HourBars < i
  <2>1. j \in Nat /\ j <= q /\ HourBars \in Nat
    BY <1>1, <1>2
  <2>2. j * HourBars \in Nat /\ j * HourBars <= q * HourBars /\ q * HourBars \in Nat
    BY <1>2, <2>1
  <2> QED BY <1>2, <2>2
<1> QED BY <1>2, <1>3, <1>4

\* What is known of the hours at a closed bar stands.
LEMMA HoursSame ==
    ASSUME NEW a, NEW b, Begins(a, b), NEW i \in 1..Len(a)
    PROVE  /\ \A j \in 1..HoursBefore(i) : HourClose(a, j) = HourClose(b, j)
           /\ Ema(a, HoursBefore(i)) = Ema(b, HoursBefore(i))
<1>1. Len(a) \in Nat /\ Len(b) \in Nat /\ Len(a) <= Len(b) /\ \A k \in 1..Len(a) : a[k] = b[k]
  BY DEF Begins
<1>2. i \in Nat \ {0}
  BY <1>1
<1>3. ASSUME NEW j \in 1..HoursBefore(i) PROVE HourClose(a, j) = HourClose(b, j)
  <2> DEFINE x == j * HourBars
  <2>1. HourBars \in Nat \ {0} /\ j \in Nat \ {0}
    BY <1>2, <1>3, HoursAreOver, ReplayAssumption
  <2>2. x \in Nat /\ x < i /\ x # 0
    <3>1. j \in 0..HoursBefore(i)
      BY <1>2, <1>3, HoursAreOver
    <3>2. x \in Nat /\ x < i
      BY <1>2, <3>1, HoursAreOver
    <3>3. x # 0
      BY <2>1
    <3> QED BY <3>2, <3>3
  <2> HIDE DEF x
  <2>3. x \in 1..Len(a) /\ x <= Len(b)
    BY <1>1, <2>2
  <2>4. LeastOf({x, Len(a)}) = x /\ LeastOf({x, Len(b)}) = x
    <3>1. LeastOf({x, Len(a)}) \in {x, Len(a)} /\ LeastOf({x, Len(a)}) <= x
      BY <1>1, <2>2, LeastOfTwo
    <3>2. LeastOf({x, Len(b)}) \in {x, Len(b)} /\ LeastOf({x, Len(b)}) <= x
      BY <1>1, <2>2, LeastOfTwo
    <3> QED BY <1>1, <2>2, <2>3, <3>1, <3>2
  <2>5. HourClose(a, j) = a[LeastOf({x, Len(a)})].c /\ HourClose(b, j) = b[LeastOf({x, Len(b)})].c
    BY DEF HourClose, x
  <2> QED BY <1>1, <2>3, <2>4, <2>5
<1>4. [j \in 1..HoursBefore(i) |-> HourClose(a, j)] = [j \in 1..HoursBefore(i) |-> HourClose(b, j)]
  BY <1>3
<1> QED BY <1>3, <1>4 DEF Ema

\* So the score and the gate at a closed bar stand.
LEMMA ScoreSame ==
    ASSUME NEW a, NEW b, Begins(a, b), NEW i \in 1..Len(a)
    PROVE  Score(a, i) = Score(b, i)
<1>1. CASE HoursBefore(i) = 0
  BY <1>1 DEF Score
<1>2. CASE HoursBefore(i) # 0
  <2>1. HoursBefore(i) \in 1..HoursBefore(i)
    <3>1. i \in Nat \ {0}
      BY DEF Begins
    <3>2. HoursBefore(i) \in Nat
      BY <3>1, HoursAreOver
    <3> QED BY <1>2, <3>2
  <2>2. HourClose(a, HoursBefore(i)) = HourClose(b, HoursBefore(i))
        /\ Ema(a, HoursBefore(i)) = Ema(b, HoursBefore(i))
    BY <2>1, HoursSame
  <2> QED BY <2>2 DEF Score
<1> QED BY <1>1, <1>2

\* What a closed bar's filters keep from being traded stands: the same close, score and trend.
LEMMA BlockedSame ==
    ASSUME NEW a, NEW b, Begins(a, b), NEW i \in 1..Len(a), NEW d, NEW bias
    PROVE  Blocked(a, i, d, bias) <=> Blocked(b, i, d, bias)
<1>1. a[i] = b[i]
  BY DEF Begins
<1>2. Score(a, i) = Score(b, i)
  BY ScoreSame
<1>3. Ema(a, HoursBefore(i)) = Ema(b, HoursBefore(i))
  BY HoursSame
<1> QED BY <1>1, <1>2, <1>3 DEF Blocked

\* The window of bars up to a closed bar stands.
LEMMA WindowSame ==
    ASSUME NEW a, NEW b, Begins(a, b), NEW i \in Nat, i > Window, i <= Len(a)
    PROVE  SubSeq(a, i - Window, i) = SubSeq(b, i - Window, i)
<1>0. Window \in Nat
  BY ReplayAssumption
<1>1. /\ i - Window \in Int /\ i \in Int
      /\ \A k \in i - Window..i : k \in 1..Len(a) /\ a[k] \in Wicks /\ b[k] \in Wicks /\ a[k] = b[k]
  <2>1. \A k \in i - Window..i : k \in 1..Len(a)
    BY <1>0 DEF Begins
  <2>2. \A k \in 1..Len(a) : a[k] \in Wicks /\ b[k] = a[k]
    BY BeginsTyped
  <2> QED BY <1>0, <2>1, <2>2
<1> DEFINE s == SubSeq(a, i - Window, i)
           t == SubSeq(b, i - Window, i)
           n == i - (i - Window) + 1
<1>2. /\ s \in Seq(Wicks) /\ Len(s) = (IF i - Window <= i THEN n ELSE 0)
      /\ \A k \in 1..n : s[k] = a[(i - Window) + k - 1]
  BY <1>1, SubSeqProperties
<1>3. /\ t \in Seq(Wicks) /\ Len(t) = (IF i - Window <= i THEN n ELSE 0)
      /\ \A k \in 1..n : t[k] = b[(i - Window) + k - 1]
  BY <1>1, SubSeqProperties
<1>4. \A k \in 1..n : (i - Window) + k - 1 \in i - Window..i
  BY <1>0
<1> HIDE DEF s, t, n
<1>5. n \in Nat /\ i - Window <= i
  BY <1>0 DEF n
<1>6. Len(s) = Len(t) /\ \A k \in 1..Len(s) : s[k] = t[k]
  BY <1>1, <1>2, <1>3, <1>4, <1>5
<1>7. s = t
  BY <1>2, <1>3, <1>6, SeqEqual
<1> QED BY <1>7 DEF s, t

\* A limit that was touched, or whose time is over.
LEMMA FillSame ==
    ASSUME NEW a, NEW b, Begins(a, b), NEW i \in 1..Len(a), NEW s,
           FillAt(a, i, s) # 0 \/ i + Ttl <= Len(a)
    PROVE  /\ FillAt(b, i, s) = FillAt(a, i, s)
           /\ FillAt(a, i, s) # 0 => FillAt(a, i, s) \in i + 1..Len(a)
<1> DEFINE f == Face(a, s.dir)
           g == Face(b, s.dir)
           endA == LeastOf({i + Ttl, Len(a)})
           endB == LeastOf({i + Ttl, Len(b)})
           J == {j \in i + 1..endA : Scaled(f[j].l) <= s.entry}
           K == {j \in i + 1..endB : Scaled(g[j].l) <= s.entry}
<1>1. Begins(f, g) /\ Len(f) = Len(a) /\ Len(g) = Len(b)
  BY FaceBegins
<1>2. /\ Len(a) \in Nat /\ Len(b) \in Nat /\ Len(a) <= Len(b)
      /\ \A k \in 1..Len(a) : f[k] = g[k] /\ Scaled(f[k].l) = Scaled(g[k].l)
  BY <1>1, BeginsTyped
<1> HIDE DEF f, g
<1>3. FillAt(a, i, s) = FirstOf(J) /\ FillAt(b, i, s) = FirstOf(K)
  BY DEF FillAt, f, g
<1>4. Ttl \in Nat /\ i \in Nat
  BY <1>2, ReplayAssumption
<1>5. /\ endA \in {i + Ttl, Len(a)} /\ endA <= i + Ttl /\ endA <= Len(a)
      /\ endB \in {i + Ttl, Len(b)} /\ endB <= i + Ttl /\ endB <= Len(b)
  <2>1. i + Ttl \in Nat
    BY <1>4
  <2> HIDE DEF endA, endB
  <2> QED BY <1>2, <2>1, LeastOfTwo DEF endA, endB
<1> HIDE DEF endA, endB
<1>6. endA \in Nat /\ endB \in Nat /\ endA <= endB /\ (endA = endB \/ endA = Len(a))
  BY <1>2, <1>4, <1>5
<1>7. \A j \in i + 1..endA : j \in 1..Len(a) /\ j \in i + 1..endB /\ j \in i + 1..Len(a)
  BY <1>2, <1>4, <1>5, <1>6
<1>8. J \in SUBSET (Nat \ {0}) /\ K \in SUBSET (Nat \ {0})
  BY <1>4, <1>6
<1>9. J \subseteq K
  BY <1>2, <1>7
<1>10. ASSUME NEW k \in K, k \notin J PROVE k > Len(a) /\ i + Ttl > Len(a)
  <2>1. ~(k <= endA)
    <3> SUFFICES ASSUME k <= endA PROVE FALSE
        OBVIOUS
    <3>1. k \in i + 1..endA /\ k \in 1..Len(a)
      BY <1>4, <1>6, <1>7, <1>10
    <3> QED BY <1>2, <1>10, <3>1
  <2>2. k \in Nat /\ k <= endB
    BY <1>4, <1>6, <1>10
  <2> QED BY <1>2, <1>4, <1>5, <1>6, <2>1, <2>2
<1>11. FirstOf(J) # 0 => FirstOf(J) \in J
  BY <1>8, FirstOfNumbers
<1>12. CASE J = {}
  <2>1. i + Ttl <= Len(a)
    BY <1>3, <1>12 DEF FirstOf
  <2>2. K = {}
    BY <1>2, <1>4, <1>10, <1>12, <2>1
  <2> QED BY <1>3, <1>12, <2>2 DEF FirstOf
<1>13. CASE J # {}
  <2>1. \A y \in K \ J : \A x \in J : x <= y
    <3>1. \A x \in J : x \in Nat /\ x <= Len(a)
      BY <1>2, <1>4, <1>7
    <3>2. \A y \in K \ J : y \in Nat /\ y > Len(a)
      BY <1>8, <1>10
    <3> HIDE DEF J, K
    <3> QED BY <1>2, <3>1, <3>2
  <2>2. FirstOf(J) \in i + 1..Len(a)
    BY <1>7, <1>8, <1>13, FirstOfNumbers
  <2> HIDE DEF J, K
  <2>3. FirstOf(K) = FirstOf(J)
    BY <1>8, <1>9, <1>13, <2>1, FirstOfStays
  <2> QED BY <1>3, <2>2, <2>3
<1> QED BY <1>12, <1>13

\* What a closed bar does to a position.
LEMMA BarSame ==
    ASSUME NEW a, NEW b, Begins(a, b), NEW j \in 1..Len(a), NEW s, NEW cfg
    PROVE  /\ StopHit(a, s, j) <=> StopHit(b, s, j)
           /\ TargetHit(a, s, j) <=> TargetHit(b, s, j)
           /\ Flipped(a, s, j, cfg) <=> Flipped(b, s, j, cfg)
           /\ Outcome(a, s, j, cfg) = Outcome(b, s, j, cfg)
<1>1. Face(a, s.dir)[j] = Face(b, s.dir)[j]
  <2>1. Begins(Face(a, s.dir), Face(b, s.dir)) /\ Len(Face(a, s.dir)) = Len(a)
    BY FaceBegins
  <2> QED BY <2>1, BeginsTyped
<1>2. a[j] = b[j]
  BY BeginsTyped
<1>3. Score(a, j) = Score(b, j)
  BY ScoreSame
<1>4. /\ StopHit(a, s, j) <=> StopHit(b, s, j)
      /\ TargetHit(a, s, j) <=> TargetHit(b, s, j)
  BY <1>1 DEF StopHit, TargetHit
<1>5. Flipped(a, s, j, cfg) <=> Flipped(b, s, j, cfg)
  BY <1>3 DEF Flipped
<1>6. Outcome(a, s, j, cfg) = Outcome(b, s, j, cfg)
  BY <1>2, <1>4 DEF Outcome
<1> QED BY <1>4, <1>5, <1>6

\* The first bar that ends a position stays the first.
LEMMA ExitSame ==
    ASSUME NEW a, NEW b, Begins(a, b), NEW from \in 1..Len(a), NEW s, NEW cfg, ExitAt(a, from, s, cfg) # 0
    PROVE  ExitAt(b, from, s, cfg) = ExitAt(a, from, s, cfg) /\ ExitAt(a, from, s, cfg) \in from + 1..Len(a)
<1> DEFINE Ends(x, j) == StopHit(x, s, j) \/ TargetHit(x, s, j) \/ Flipped(x, s, j, cfg)
           J == {j \in from + 1..Len(a) : Ends(a, j)}
           K == {j \in from + 1..Len(b) : Ends(b, j)}
<1>1. Len(a) \in Nat /\ Len(b) \in Nat /\ Len(a) <= Len(b) /\ from \in Nat
  BY BeginsTyped
<1>2. \A j \in 1..Len(a) : Ends(a, j) <=> Ends(b, j)
  BY BarSame
<1>3. ExitAt(a, from, s, cfg) = FirstOf(J) /\ ExitAt(b, from, s, cfg) = FirstOf(K)
  BY DEF ExitAt
<1> HIDE DEF Ends
<1>4. J \in SUBSET (Nat \ {0}) /\ K \in SUBSET (Nat \ {0})
  BY <1>1
<1>5. \A j \in from + 1..Len(a) : j \in 1..Len(a) /\ j \in from + 1..Len(b)
  BY <1>1
<1>6. J \subseteq K
  BY <1>2, <1>5
<1>7. J # {}
  BY <1>3 DEF FirstOf
<1>8. ASSUME NEW k \in K, k \notin J PROVE k > Len(a)
  <2> SUFFICES ASSUME k <= Len(a) PROVE FALSE
      BY <1>1
  <2>1. k \in from + 1..Len(a) /\ k \in 1..Len(a)
    BY <1>1, <1>8
  <2> QED BY <1>2, <1>8, <2>1
<1>9. \A y \in K \ J : \A x \in J : x <= y
  <2>1. \A x \in J : x \in Nat /\ x <= Len(a)
    BY <1>1
  <2>2. \A y \in K \ J : y \in Nat /\ y > Len(a)
    BY <1>4, <1>8
  <2> HIDE DEF J, K
  <2> QED BY <1>1, <2>1, <2>2
<1>10. FirstOf(J) \in from + 1..Len(a)
  BY <1>4, <1>7, FirstOfNumbers
<1> HIDE DEF J, K
<1>11. FirstOf(K) = FirstOf(J)
  BY <1>4, <1>6, <1>7, <1>9, FirstOfStays
<1> QED BY <1>3, <1>10, <1>11

\* The bars of an order lie in the frame.
LEMMA OrderTyped ==
    ASSUME NEW b \in Seq(Wicks), NEW i \in 0..Len(b), NEW s, NEW cfg
    PROVE  /\ Order(b, i, s, cfg).seen = i
           /\ Order(b, i, s, cfg).to \in i..Len(b)
<1>0. Len(b) \in Nat /\ Ttl \in Nat /\ i \in Nat /\ i <= Len(b)
  BY ReplayAssumption
<1> DEFINE from == FillAt(b, i, s)
           to == ExitAt(b, from, s, cfg)
<1>1. from \in {0} \cup i + 1..Len(b)
  <2> DEFINE J == {j \in i + 1..LeastOf({i + Ttl, Len(b)}) : Scaled(Face(b, s.dir)[j].l) <= s.entry}
  <2>1. LeastOf({i + Ttl, Len(b)}) \in Nat /\ LeastOf({i + Ttl, Len(b)}) <= Len(b)
    <3>1. i + Ttl \in Nat
      BY <1>0
    <3> QED BY <1>0, <3>1, LeastOfTwo
  <2>2. J \in SUBSET (i + 1..Len(b)) /\ J \in SUBSET (Nat \ {0})
    BY <1>0, <2>1
  <2>3. from = FirstOf(J)
    BY DEF FillAt
  <2> HIDE DEF J, from
  <2>4. CASE J = {}
    BY <2>3, <2>4 DEF FirstOf
  <2>5. CASE J # {}
    BY <2>2, <2>3, <2>5, FirstOfNumbers
  <2> QED BY <2>4, <2>5
<1>2. from # 0 => to \in {0} \cup from + 1..Len(b)
  <2> DEFINE J == {j \in from + 1..Len(b) :
                     StopHit(b, s, j) \/ TargetHit(b, s, j) \/ Flipped(b, s, j, cfg)}
  <2> SUFFICES ASSUME from # 0 PROVE to \in {0} \cup from + 1..Len(b)
      OBVIOUS
  <2>1. to = FirstOf(J)
    BY DEF ExitAt
  <2> HIDE DEF from, to
  <2>2. J \in SUBSET (from + 1..Len(b)) /\ J \in SUBSET (Nat \ {0})
    BY <1>0, <1>1
  <2> HIDE DEF J
  <2>3. CASE J = {}
    BY <2>1, <2>3 DEF FirstOf
  <2>4. CASE J # {}
    BY <2>1, <2>2, <2>4, FirstOfNumbers
  <2> QED BY <2>3, <2>4
<1>3. Order(b, i, s, cfg) =
        IF from = 0 THEN [seen |-> i, from |-> 0, to |-> i, outcome |-> "unfilled"]
        ELSE IF to = 0 THEN [seen |-> i, from |-> from, to |-> Len(b), outcome |-> "eod"]
        ELSE [seen |-> i, from |-> from, to |-> to, outcome |-> Outcome(b, s, to, cfg)]
  BY DEF Order
<1> HIDE DEF from, to
<1>4. CASE from = 0
  BY <1>0, <1>3, <1>4
<1>5. CASE from # 0 /\ to = 0
  BY <1>0, <1>3, <1>5
<1>6. CASE from # 0 /\ to # 0
  BY <1>0, <1>1, <1>2, <1>3, <1>6
<1> QED BY <1>4, <1>5, <1>6

\* An order that is over, or whose time is, stands.
LEMMA OrderSame ==
    ASSUME NEW a, NEW b, Begins(a, b), NEW i \in 1..Len(a), NEW s, NEW cfg,
           Order(a, i, s, cfg).outcome # "eod",
           Order(a, i, s, cfg).outcome = "unfilled" => i + Ttl <= Len(a)
    PROVE  Order(b, i, s, cfg) = Order(a, i, s, cfg)
<1> DEFINE from == FillAt(a, i, s)
           to == ExitAt(a, from, s, cfg)
<1>1. Order(a, i, s, cfg) =
        IF from = 0 THEN [seen |-> i, from |-> 0, to |-> i, outcome |-> "unfilled"]
        ELSE IF to = 0 THEN [seen |-> i, from |-> from, to |-> Len(a), outcome |-> "eod"]
        ELSE [seen |-> i, from |-> from, to |-> to, outcome |-> Outcome(a, s, to, cfg)]
  BY DEF Order
<1> HIDE DEF from, to
<1>2. FillAt(b, i, s) = from /\ (from # 0 => from \in i + 1..Len(a))
  <2>1. from # 0 \/ i + Ttl <= Len(a)
    BY <1>1
  <2> QED BY <2>1, FillSame DEF from
<1>3. CASE from = 0
  BY <1>1, <1>2, <1>3 DEF Order
<1>4. CASE from # 0
  <2>1. to # 0
    BY <1>1, <1>4
  <2>2. from \in 1..Len(a)
    BY <1>2, <1>4, BeginsTyped
  <2>3. ExitAt(b, from, s, cfg) = to /\ to \in from + 1..Len(a)
    BY <2>1, <2>2, ExitSame DEF to
  <2>4. to \in 1..Len(a)
    BY <2>2, <2>3, BeginsTyped
  <2>5. Outcome(b, s, to, cfg) = Outcome(a, s, to, cfg)
    BY <2>4, BarSame
  <2> QED BY <1>1, <1>2, <1>4, <2>1, <2>3, <2>5 DEF Order
<1> QED BY <1>3, <1>4

\* The setups that are ordered at bar i.
Ordered(b, i, cfg) ==
    {x \in LatestBullet(SubSeq(b, i - Window, i)) :
        Len(SubSeq(b, i - Window, i)) - x.at <= StaleBars /\ ~Blocked(b, i, x.dir, cfg.bias)}

\* What is ordered at a closed bar stands, whatever bars follow it.
LEMMA OrderedSame ==
    ASSUME NEW a, NEW b, Begins(a, b), NEW i \in Nat, i > Window, i <= Len(a), NEW cfg
    PROVE  Ordered(a, i, cfg) = Ordered(b, i, cfg)
<1>1. SubSeq(a, i - Window, i) = SubSeq(b, i - Window, i)
  BY WindowSame
<1>2. i \in 1..Len(a)
  BY BeginsTyped, ReplayAssumption
<1>3. \A d : Blocked(a, i, d, cfg.bias) <=> Blocked(b, i, d, cfg.bias)
  BY <1>2, BlockedSame
<1> QED BY <1>1, <1>3 DEF Ordered

\* The trades ordered at bar i are the orders on the setups ordered there.
LEMMA OrdersAtIs ==
    ASSUME NEW b, NEW i, NEW cfg
    PROVE  OrdersAt(b, i, cfg) = {Order(b, i, s, cfg) : s \in Ordered(b, i, cfg)}
BY DEF OrdersAt, Ordered

\* Where the walk goes on after bar i: behind it, and behind every order there.
Behind(b, i, cfg) == GreatestOf({i} \cup {t.to : t \in OrdersAt(b, i, cfg)}) + 1

\* The walk always moves forward, past every bar its trades are open on.
LEMMA BehindTyped ==
    ASSUME NEW b \in Seq(Wicks), NEW i \in 0..Len(b), NEW cfg
    PROVE  /\ Behind(b, i, cfg) \in Nat /\ Behind(b, i, cfg) > i
           /\ \A t \in OrdersAt(b, i, cfg) : t.seen = i /\ t.to \in i..Len(b) /\ Behind(b, i, cfg) > t.to
<1> DEFINE T == {i} \cup {t.to : t \in OrdersAt(b, i, cfg)}
<1>0. Len(b) \in Nat /\ i \in Nat
  OBVIOUS
<1>1. \A t \in OrdersAt(b, i, cfg) : t.seen = i /\ t.to \in i..Len(b)
  BY OrdersAtIs, OrderTyped
<1>2. T \in SUBSET (i..Len(b)) /\ T # {} /\ i \in T
  BY <1>0, <1>1
<1>3. \A t \in OrdersAt(b, i, cfg) : t.to \in T
  OBVIOUS
<1>4. Behind(b, i, cfg) = GreatestOf(T) + 1
  BY DEF Behind
<1> HIDE DEF T
<1>5. T \in SUBSET Int /\ \A x \in T : x <= Len(b)
  BY <1>0, <1>2
<1>6. GreatestOf(T) \in T /\ \A y \in T : y <= GreatestOf(T)
  <2> DEFINE m == Len(b)
  <2>1. m \in Int /\ \A x \in T : x <= m
    BY <1>0, <1>5
  <2> HIDE DEF m
  <2> QED BY <1>2, <1>5, <2>1, GreatestOfNumbers
<1>7. GreatestOf(T) \in i..Len(b)
  BY <1>2, <1>6
<1>8. Behind(b, i, cfg) \in Nat /\ Behind(b, i, cfg) > i
  BY <1>0, <1>4, <1>7
<1>9. ASSUME NEW t \in OrdersAt(b, i, cfg) PROVE Behind(b, i, cfg) > t.to
  <2>1. t.to \in i..Len(b) /\ t.to <= GreatestOf(T)
    BY <1>1, <1>3, <1>6
  <2> QED BY <1>0, <1>4, <1>7, <2>1
<1> QED BY <1>1, <1>8, <1>9

\* The walk over a frame, from each of its bars.
IsWalk(w, b, cfg) ==
    w = [i \in Nat |-> IF i >= Len(b) THEN {}
                       ELSE OrdersAt(b, i, cfg) \cup w[Behind(b, i, cfg)]]

\* There is one, and the backtest starts it at the first bar with a full window.
LEMMA OrdersAreWalk ==
    ASSUME NEW b \in Seq(Wicks), NEW cfg
    PROVE  \E w : IsWalk(w, b, cfg) /\ Orders(b, cfg) = w[Window + 1]
<1> DEFINE n == Len(b)
           From(m) == {i \in Nat : i >= n - m}
           Row(g, m) == g = [i \in From(m) |-> IF i >= n THEN {}
                                               ELSE OrdersAt(b, i, cfg) \cup g[Behind(b, i, cfg)]]
           M == {m \in 0..n : \E g : Row(g, m)}
<1>0. n \in Nat
  OBVIOUS
<1>1. \A i \in 0..n : Behind(b, i, cfg) \in Nat /\ Behind(b, i, cfg) > i
  BY BehindTyped
<1> HIDE DEF n
<1>2. 0 \in M
  <2> DEFINE h == [i \in From(0) |-> {}]
  <2>1. \A i \in From(0) : i >= n
    BY <1>0
  <2>2. h = [i \in From(0) |-> IF i >= n THEN {} ELSE OrdersAt(b, i, cfg) \cup h[Behind(b, i, cfg)]]
    BY <2>1
  <2> HIDE DEF h
  <2>3. \E g : Row(g, 0)
    BY <2>2
  <2>4. 0 \in 0..n
    BY <1>0
  <2> HIDE DEF Row
  <2> QED BY <2>3, <2>4
<1>3. ASSUME NEW m \in 1..n, m - 1 \in M PROVE m \in M
  <2>1. PICK g : Row(g, m - 1)
    BY <1>3
  <2> DEFINE x == n - m
             h == [i \in From(m) |-> IF i = x THEN OrdersAt(b, x, cfg) \cup g[Behind(b, x, cfg)]
                                     ELSE g[i]]
  <2>2. x \in Nat /\ x < n /\ x \in 0..n
    BY <1>0
  <2>3. From(m) = From(m - 1) \cup {x} /\ x \notin From(m - 1)
        /\ \A i \in From(m - 1) : i \in Nat /\ i > x
    BY <1>0
  <2>4. \A i \in Nat : i > x => i \in From(m - 1)
    BY <1>0
  <2> HIDE DEF From, x
  <2>5. ASSUME NEW i \in From(m)
        PROVE  h[i] = IF i >= n THEN {} ELSE OrdersAt(b, i, cfg) \cup h[Behind(b, i, cfg)]
    <3>1. CASE i = x
      <4>1. Behind(b, x, cfg) \in From(m - 1) /\ Behind(b, x, cfg) # x /\ Behind(b, x, cfg) \in From(m)
        BY <1>1, <2>2, <2>3, <2>4
      <4>2. h[Behind(b, x, cfg)] = g[Behind(b, x, cfg)]
        BY <4>1
      <4>3. h[i] = OrdersAt(b, x, cfg) \cup g[Behind(b, x, cfg)] /\ ~(i >= n)
        BY <1>0, <2>2, <3>1
      <4> QED BY <3>1, <4>2, <4>3
    <3>2. CASE i # x
      <4>1. i \in From(m - 1) /\ i \in Nat /\ h[i] = g[i]
        BY <2>3, <3>2
      <4>2. g[i] = IF i >= n THEN {} ELSE OrdersAt(b, i, cfg) \cup g[Behind(b, i, cfg)]
        BY <2>1, <4>1
      <4>3. ASSUME ~(i >= n) PROVE h[Behind(b, i, cfg)] = g[Behind(b, i, cfg)]
        <5>1. i \in 0..n
          BY <1>0, <4>1, <4>3
        <5>2. i > x
          BY <2>3, <4>1
        <5>3. Behind(b, i, cfg) \in Nat /\ Behind(b, i, cfg) > x
          BY <1>1, <2>2, <4>1, <5>1, <5>2
        <5>4. Behind(b, i, cfg) \in From(m - 1) /\ Behind(b, i, cfg) # x
          BY <2>2, <2>4, <5>3
        <5>5. Behind(b, i, cfg) \in From(m)
          BY <2>3, <5>4
        <5> QED BY <5>4, <5>5
      <4> QED BY <4>1, <4>2, <4>3
    <3> QED BY <3>1, <3>2
  <2>6. Row(h, m)
    BY <2>5
  <2> HIDE DEF h
  <2>7. \E r : Row(r, m)
    BY <2>6
  <2> QED BY <2>7
<1>4. \E g : Row(g, n)
  <2>1. 0..n \subseteq M
    <3> HIDE DEF M
    <3> QED BY <1>0, <1>2, <1>3, Climbs
  <2>2. n \in M
    <3> HIDE DEF M
    <3> QED BY <1>0, <2>1
  <2> QED BY <2>2
<1>5. From(n) = Nat
  BY <1>0
<1> DEFINE w == CHOOSE g : IsWalk(g, b, cfg)
<1>6. IsWalk(w, b, cfg)
  <2>1. PICK g : Row(g, n)
    BY <1>4
  <2>2. IsWalk(g, b, cfg)
    <3> HIDE DEF From
    <3> QED BY <1>5, <2>1 DEF IsWalk, n
  <2> QED BY <2>2
<1>7. Orders(b, cfg) = w[Window + 1]
  BY Zenon DEF Orders, IsWalk, Behind
<1> QED BY <1>6, <1>7

\* What the walk finds from a bar on, it saw there or later.
LEMMA SeenLater ==
    ASSUME NEW b \in Seq(Wicks), NEW cfg, NEW w, IsWalk(w, b, cfg)
    PROVE  \A i \in Nat : \A t \in w[i] : t.seen \in Nat /\ t.seen >= i
<1> DEFINE n == Len(b)
           Fine(i) == \A t \in w[i] : t.seen \in Nat /\ t.seen >= i
           S == {m \in 0..n : \A i \in Nat : i >= n - m => Fine(i)}
<1>0. n \in Nat
  OBVIOUS
<1>1. \A i \in Nat : w[i] = IF i >= n THEN {} ELSE OrdersAt(b, i, cfg) \cup w[Behind(b, i, cfg)]
  BY DEF IsWalk
<1>2. 0 \in S
  <2>1. ASSUME NEW i \in Nat, i >= n - 0 PROVE Fine(i)
    <3>1. i >= n
      BY <1>0, <2>1
    <3>2. w[i] = {}
      BY <1>1, <3>1
    <3> QED BY <3>2
  <2> HIDE DEF Fine
  <2> QED BY <1>0, <2>1
<1>3. ASSUME NEW m \in 1..n, m - 1 \in S PROVE m \in S
  <2>1. \A i \in Nat : i >= n - (m - 1) => Fine(i)
    BY <1>3
  <2> SUFFICES ASSUME NEW i \in Nat, i >= n - m PROVE Fine(i)
      BY <1>0
  <2>2. CASE i >= n
    BY <1>1, <2>2
  <2>3. CASE ~(i >= n)
    <3>1. i \in 0..n
      BY <1>0, <2>3
    <3>2. Behind(b, i, cfg) \in Nat /\ Behind(b, i, cfg) > i
          /\ \A t \in OrdersAt(b, i, cfg) : t.seen = i
      BY <3>1, BehindTyped
    <3>3. Fine(Behind(b, i, cfg))
      <4>1. Behind(b, i, cfg) >= n - (m - 1)
        BY <1>0, <3>2
      <4> HIDE DEF Fine
      <4> QED BY <2>1, <3>2, <4>1
    <3>4. ASSUME NEW t \in w[i] PROVE t.seen \in Nat /\ t.seen >= i
      <4>1. CASE t \in OrdersAt(b, i, cfg)
        BY <3>2, <4>1
      <4>2. CASE t \in w[Behind(b, i, cfg)]
        <5>1. t.seen \in Nat /\ t.seen >= Behind(b, i, cfg)
          BY <3>3, <4>2
        <5> QED BY <3>2, <5>1
      <4> QED BY <1>1, <2>3, <3>4, <4>1, <4>2
    <3> QED BY <3>4
  <2> QED BY <2>2, <2>3
<1>4. n \in S
  <2>1. 0..n \subseteq S
    <3> HIDE DEF S, n
    <3> QED BY <1>0, <1>2, <1>3, Climbs
  <2> HIDE DEF S, n
  <2> QED BY <1>0, <2>1
<1> QED BY <1>0, <1>4

\* Order t is over in a frame of n bars, and no order before it may still be filled.
Stands(t, all, n) ==
    /\ t.outcome \notin {"unfilled", "eod"}
    /\ \A u \in all : (u.outcome = "unfilled" /\ u.seen + Ttl > n) => u.seen > t.seen

\* Such an order is one of every frame that goes on: no order before it ends otherwise there,
\* so the walk comes to its bar.
LEMMA WalkStands ==
    ASSUME NEW a, NEW b, Begins(a, b), NEW cfg, NEW u, IsWalk(u, a, cfg), NEW v, IsWalk(v, b, cfg)
    PROVE  \A i \in Nat : i > Window => \A t \in u[i] : Stands(t, u[i], Len(a)) => t \in v[i]
<1> DEFINE n == Len(a)
           Same(i) == \A t \in u[i] : Stands(t, u[i], n) => t \in v[i]
           S == {m \in 0..n : \A i \in Nat : i > Window /\ i >= n - m => Same(i)}
<1>0. n \in Nat /\ Len(b) \in Nat /\ n <= Len(b) /\ Window \in Nat \ {0} /\ Ttl \in Nat
      /\ a \in Seq(Wicks) /\ b \in Seq(Wicks)
  BY ReplayAssumption DEF Begins
<1>1. /\ \A i \in Nat : u[i] = IF i >= n THEN {} ELSE OrdersAt(a, i, cfg) \cup u[Behind(a, i, cfg)]
      /\ \A i \in Nat : v[i] = IF i >= Len(b) THEN {} ELSE OrdersAt(b, i, cfg) \cup v[Behind(b, i, cfg)]
  BY DEF IsWalk
<1> HIDE DEF n
<1>2. 0 \in S
  <2>1. ASSUME NEW i \in Nat, i >= n - 0 PROVE Same(i)
    <3>1. i >= n
      BY <1>0, <2>1
    <3>2. u[i] = {}
      BY <1>1, <3>1
    <3> QED BY <3>2
  <2> HIDE DEF Same
  <2> QED BY <1>0, <2>1
<1>3. ASSUME NEW m \in 1..n, m - 1 \in S PROVE m \in S
  <2>1. \A i \in Nat : i > Window /\ i >= n - (m - 1) => Same(i)
    BY <1>3
  <2> SUFFICES ASSUME NEW i \in Nat, i > Window, i >= n - m, NEW t \in u[i], Stands(t, u[i], n)
               PROVE  t \in v[i]
      BY <1>0
  <2> HIDE DEF S
  <2>2. ~(i >= n) /\ i \in 0..n /\ i \in 1..n /\ i \in 0..Len(b) /\ ~(i >= Len(b))
    <3>1. ~(i >= n)
      BY <1>1
    <3> QED BY <1>0, <3>1
  <2> DEFINE N == Behind(a, i, cfg)
  <2>3. /\ u[i] = OrdersAt(a, i, cfg) \cup u[N]
        /\ v[i] = OrdersAt(b, i, cfg) \cup v[Behind(b, i, cfg)]
    BY <1>1, <2>2
  <2>4. /\ OrdersAt(a, i, cfg) = {Order(a, i, s, cfg) : s \in Ordered(a, i, cfg)}
        /\ OrdersAt(b, i, cfg) = {Order(b, i, s, cfg) : s \in Ordered(a, i, cfg)}
    <3>1. i <= Len(a)
      BY <1>0, <2>2 DEF n
    <3>2. Ordered(a, i, cfg) = Ordered(b, i, cfg)
      BY <3>1, OrderedSame
    <3> QED BY <3>2, OrdersAtIs
  <2>5. /\ N \in Nat /\ N > i
        /\ \A x \in OrdersAt(a, i, cfg) : x.seen = i /\ x.to \in i..n /\ N > x.to
    BY <1>0, <2>2, BehindTyped DEF n
  <2> HIDE DEF N
  <2>6. i \in 1..Len(a)
    BY <2>2 DEF n
  <2>7. t.outcome \notin {"unfilled", "eod"}
        /\ \A x \in u[i] : (x.outcome = "unfilled" /\ x.seen + Ttl > n) => x.seen > t.seen
    BY DEF Stands
  <2>8. CASE t \in OrdersAt(a, i, cfg)
    <3>1. PICK s \in Ordered(a, i, cfg) : t = Order(a, i, s, cfg)
      BY <2>4, <2>8
    <3>2. Order(b, i, s, cfg) = t
      BY <2>6, <2>7, <3>1, OrderSame
    <3> QED BY <2>3, <2>4, <3>1, <3>2
  <2>9. CASE t \in u[N]
    <3>1. t.seen \in Nat /\ t.seen >= N
      BY <1>0, <2>5, <2>9, SeenLater
    <3>2. ~(N >= n)
      BY <1>1, <2>5, <2>9
    <3>3. ASSUME NEW s \in Ordered(a, i, cfg) PROVE Order(b, i, s, cfg) = Order(a, i, s, cfg)
      <4> DEFINE x == Order(a, i, s, cfg)
      <4>1. x \in OrdersAt(a, i, cfg) /\ x \in u[i]
        BY <2>3, <2>4
      <4>2. x.seen = i /\ N > x.to
        BY <2>5, <4>1
      <4>3. x.outcome = "eod" => x.to = n
        <5>1. \A j : Outcome(a, s, j, cfg) \in {"sl", "tp", "flip"}
          BY DEF Outcome
        <5> QED BY <5>1 DEF Order, n
      <4>4. x.outcome # "eod"
        BY <1>0, <2>5, <3>2, <4>2, <4>3
      <4>5. x.outcome = "unfilled" => i + Ttl <= n
        BY <1>0, <2>5, <2>7, <3>1, <4>1, <4>2
      <4> QED BY <2>6, <4>4, <4>5, OrderSame DEF n
    <3>4. OrdersAt(b, i, cfg) = OrdersAt(a, i, cfg)
      BY <2>4, <3>3
    <3>5. Behind(b, i, cfg) = N
      BY <3>4 DEF Behind, N
    <3>6. Stands(t, u[N], n)
      BY <2>3, <2>7 DEF Stands
    <3>7. Same(N)
      <4>1. N > Window /\ N >= n - (m - 1)
        BY <1>0, <2>5
      <4> HIDE DEF Same
      <4> QED BY <2>1, <2>5, <4>1
    <3> QED BY <2>3, <2>9, <3>5, <3>6, <3>7
  <2> QED BY <2>3, <2>8, <2>9
<1>4. n \in S
  <2>1. 0..n \subseteq S
    <3> HIDE DEF S
    <3> QED BY <1>0, <1>2, <1>3, Climbs
  <2> HIDE DEF S
  <2> QED BY <1>0, <2>1
<1> QED BY <1>0, <1>4 DEF n

\* The backtest does not look ahead: a trade that is over stands in every frame that goes on,
\* unless an order seen before it may still be filled.
LEMMA OverStands ==
    ASSUME NEW a, NEW b, Begins(a, b), NEW cfg
    PROVE  Over(a, cfg) \subseteq Orders(b, cfg)
<1>1. a \in Seq(Wicks) /\ b \in Seq(Wicks)
  BY DEF Begins
<1>2. PICK u : IsWalk(u, a, cfg) /\ Orders(a, cfg) = u[Window + 1]
  BY <1>1, OrdersAreWalk
<1>3. PICK v : IsWalk(v, b, cfg) /\ Orders(b, cfg) = v[Window + 1]
  BY <1>1, OrdersAreWalk
<1>4. Window + 1 \in Nat /\ Window + 1 > Window
  BY ReplayAssumption
<1>5. \A t \in u[Window + 1] : Stands(t, u[Window + 1], Len(a)) => t \in v[Window + 1]
  BY <1>2, <1>3, <1>4, WalkStands
<1>6. Over(a, cfg) = {t \in Orders(a, cfg) : Stands(t, Orders(a, cfg), Len(a))}
  BY DEF Over, Stands
<1> QED BY <1>2, <1>3, <1>5, <1>6

\* run_backtest does not look ahead, in frames of every length and for every configuration
\* of the gate, the flip and the priority within a bar.
THEOREM TradesStandHolds == Spec => []TradesStand
<1>1. Framed => TradesStand
  <2> SUFFICES ASSUME Framed PROVE TradesStand
      OBVIOUS
  <2>1. bars \in Seq(Wicks) /\ Len(bars) > 0
    BY FramedWicks
  <2>2. Begins(SubSeq(bars, 1, Len(bars) - 1), bars)
    BY <2>1, ClosedBegin
  <2> QED BY <2>2, OverStands DEF TradesStand
<1> QED BY <1>1, FrameAlways, PTL

-----------------------------------------------------------------------------
(* Setups and their tracker *)

\* The least of some numbers that are not below a bound.
LEMMA LeastOfInts ==
    ASSUME NEW S \in SUBSET Int, S # {}, NEW m \in Int, \A x \in S : m <= x
    PROVE  LeastOf(S) \in S /\ \A y \in S : LeastOf(S) <= y
<1> DEFINE T == {x - m : x \in S}
<1>1. T \in SUBSET Nat /\ T # {}
  <2>1. \A x \in S : x \in Int /\ x - m \in Nat
    OBVIOUS
  <2> QED BY <2>1
<1>2. PICK t \in T : \A u \in T : t <= u
  BY <1>1, LeastOfNumbers
<1>3. \E x \in S : \A y \in S : x <= y
  <2>1. PICK x \in S : t = x - m
    BY <1>2
  <2>2. \A y \in S : x - m <= y - m
    BY <1>2, <2>1
  <2>3. \A y \in S : y \in Int /\ x <= y
    BY <2>2
  <2> QED BY <2>3
<1> QED BY <1>3 DEF LeastOf

\* Some numbers added up one after the other.
LEMMA SumsExist ==
    ASSUME NEW n \in Nat, NEW t, \A k \in 1..n : t[k] \in Int
    PROVE  \E g : /\ g = [k \in 0..n |-> IF k = 0 THEN 0 ELSE g[k - 1] + t[k]]
                  /\ \A k \in 0..n : g[k] \in Int
<1> DEFINE Sums(g, m) == /\ g = [k \in 0..m |-> IF k = 0 THEN 0 ELSE g[k - 1] + t[k]]
                         /\ \A k \in 0..m : g[k] \in Int
           M == {m \in 0..n : \E g : Sums(g, m)}
<1>1. 0 \in M
  <2> DEFINE h == [k \in 0..0 |-> 0]
  <2>1. h = [k \in 0..0 |-> IF k = 0 THEN 0 ELSE h[k - 1] + t[k]] /\ \A k \in 0..0 : h[k] \in Int
    OBVIOUS
  <2> HIDE DEF h
  <2>2. \E g : Sums(g, 0)
    BY <2>1
  <2> QED BY <2>2
<1>2. ASSUME NEW m \in 1..n, m - 1 \in M PROVE m \in M
  <2>1. PICK g : Sums(g, m - 1)
    BY <1>2
  <2> DEFINE h == [k \in 0..m |-> IF k = m THEN g[m - 1] + t[m] ELSE g[k]]
  <2>2. ASSUME NEW k \in 0..m
        PROVE  h[k] = (IF k = 0 THEN 0 ELSE h[k - 1] + t[k]) /\ h[k] \in Int
    <3>1. CASE k = m
      <4>1. h[k - 1] = g[m - 1] /\ k # 0 /\ m - 1 \in 0..m - 1
        BY <3>1
      <4> QED BY <2>1, <3>1, <4>1
    <3>2. CASE k # m /\ k # 0
      <4>1. h[k - 1] = g[k - 1] /\ h[k] = g[k] /\ k \in 0..m - 1
        BY <3>2
      <4> QED BY <2>1, <3>2, <4>1
    <3>3. CASE k # m /\ k = 0
      <4>1. h[k] = g[k] /\ k \in 0..m - 1
        BY <3>3
      <4> QED BY <2>1, <3>3, <4>1
    <3> QED BY <3>1, <3>2, <3>3
  <2>3. Sums(h, m)
    BY <2>2
  <2> HIDE DEF h
  <2>4. \E r : Sums(r, m)
    BY <2>3
  <2> QED BY <2>4
<1> HIDE DEF M
<1>3. 0..n \subseteq M
  BY <1>1, <1>2, Climbs
<1>4. n \in M
  BY <1>3
<1>5. \E g : Sums(g, n)
  BY <1>4 DEF M
<1> QED BY <1>5

\* The true range of a bar is a number.
LEMMA RangeTyped ==
    ASSUME NEW b \in Seq(Wicks), NEW i \in 1..Len(b)
    PROVE  TrueRange(b, i) \in Int
<1> DEFINE T == {b[i].h - b[i].l} \cup (IF i = 1 THEN {} ELSE {b[i].h - b[i - 1].c, b[i - 1].c - b[i].l})
<1>1. /\ b[i].h \in Int /\ b[i].l \in Int
      /\ i # 1 => b[i - 1].c \in Int
  <2>1. b[i] \in Wicks /\ (i # 1 => b[i - 1] \in Wicks)
    OBVIOUS
  <2> QED BY <2>1, WicksTyped
<1>2. PICK x, y, z : x = b[i].h - b[i].l /\ y = b[i].h - b[i - 1].c /\ z = b[i - 1].c - b[i].l
  OBVIOUS
<1>3. T = {x} \cup (IF i = 1 THEN {} ELSE {y, z}) /\ x \in Int /\ (i # 1 => y \in Int /\ z \in Int)
  BY <1>1, <1>2
<1>4. TrueRange(b, i) = GreatestOf(T)
  BY DEF TrueRange
<1> HIDE DEF T
<1>5. T \in SUBSET Int /\ x \in T
  BY <1>3
<1>6. PICK m \in Int : \A v \in T : v <= m
  <2>1. CASE i = 1
    BY <1>3, <2>1
  <2>2. CASE i # 1
    <3>1. x \in Int /\ y \in Int /\ z \in Int /\ T = {x, y, z}
      BY <1>3, <2>2
    <3>2. \E m \in Int : x <= m /\ y <= m /\ z <= m
      <4> HIDE DEF T
      <4>1. CASE x <= y /\ z <= y
        <5>1. y \in Int /\ x <= y /\ y <= y /\ z <= y
          BY <3>1, <4>1
        <5> QED BY <5>1
      <4>2. CASE y <= x /\ z <= x
        BY <3>1, <4>2
      <4>3. CASE x <= z /\ y <= z
        BY <3>1, <4>3
      <4> QED BY <3>1, <4>1, <4>2, <4>3
    <3> QED BY <3>1, <3>2
  <2> QED BY <2>1, <2>2
<1>7. GreatestOf(T) \in T
  BY <1>5, <1>6, GreatestOfNumbers
<1> QED BY <1>4, <1>5, <1>7

\* So is the sum of those of the first bars.
LEMMA SumRangeTyped ==
    ASSUME NEW b \in Seq(Wicks), NEW i \in 0..Len(b)
    PROVE  SumRange(b, i) \in Int
<1> DEFINE t == [k \in 1..i |-> TrueRange(b, k)]
<1>0. i \in Nat /\ \A k \in 1..i : k \in 1..Len(b)
  OBVIOUS
<1>1. \A k \in 1..i : t[k] = TrueRange(b, k) /\ t[k] \in Int
  BY <1>0, RangeTyped
<1> HIDE DEF t
<1>2. PICK g : /\ g = [k \in 0..i |-> IF k = 0 THEN 0 ELSE g[k - 1] + t[k]]
               /\ \A k \in 0..i : g[k] \in Int
  BY <1>0, <1>1, SumsExist
<1>3. g = [k \in 0..i |-> IF k = 0 THEN 0 ELSE g[k - 1] + TrueRange(b, k)]
  <2>1. \A k \in 0..i : k # 0 => k \in 1..i
    BY <1>0
  <2>2. [k \in 0..i |-> IF k = 0 THEN 0 ELSE g[k - 1] + t[k]]
          = [k \in 0..i |-> IF k = 0 THEN 0 ELSE g[k - 1] + TrueRange(b, k)]
    BY <1>1, <2>1
  <2> QED BY <1>2, <2>2
<1> DEFINE Row(r) == r = [k \in 0..i |-> IF k = 0 THEN 0 ELSE r[k - 1] + TrueRange(b, k)]
           sum == CHOOSE r : Row(r)
<1>4. Row(sum)
  BY <1>3
<1>5. SumRange(b, i) = sum[i]
  BY Zenon DEF SumRange
<1> HIDE DEF sum
<1>6. \A k \in 0..i : sum[k] = IF k = 0 THEN 0 ELSE sum[k - 1] + TrueRange(b, k)
  BY <1>4
<1> DEFINE S == {k \in 0..i : sum[k] \in Int}
<1>7. 0 \in S
  BY <1>0, <1>6
<1>8. ASSUME NEW k \in 1..i, k - 1 \in S PROVE k \in S
  <2>0. k \in 0..i /\ k # 0
    BY <1>0
  <2>1. sum[k] = sum[k - 1] + TrueRange(b, k) /\ TrueRange(b, k) \in Int
    BY <1>1, <1>6, <2>0
  <2> QED BY <1>8, <2>1
<1> HIDE DEF S
<1>9. 0..i \subseteq S
  BY <1>0, <1>7, <1>8, Climbs
<1> QED BY <1>0, <1>5, <1>9 DEF S

\* A setup made of prices is well placed if its target is not below its entry.
LEMMA SetupIsPlaced ==
    ASSUME NEW b \in Seq(Wicks), Len(b) > 0, NEW d, NEW at, NEW source, NEW entry \in Int,
           NEW stop \in Int, NEW target \in Int, entry <= target, NEW aim, NEW retraced,
           NEW s \in Setup(b, d, at, source, entry, stop, target, aim, retraced)
    PROVE  WellPlaced(s) /\ s.stop \in Int /\ s.entry \in Int /\ s.target \in Int
<1> DEFINE n == Len(b)
           reward == IF target < entry THEN entry - target ELSE target - entry
<1>1. PICK r : /\ r = Risk(b, entry * n, stop * n) /\ r > 0 /\ 2 * reward * n >= 3 * r
               /\ s.entry = entry * n /\ s.stop = entry * n - r /\ s.target = target * n
  BY DEF Setup
<1>2. n \in Nat \ {0} /\ entry * n \in Int /\ stop * n \in Int /\ target * n \in Int
  OBVIOUS
<1>3. r \in Int
  <2>1. n \in 0..Len(b)
    BY <1>2
  <2>2. 3 * SumRange(b, n) \in Int
    <3> HIDE DEF n
    <3>1. SumRange(b, n) \in Int
      BY <2>1, SumRangeTyped
    <3> QED BY <3>1
  <2>3. PICK x, y : x = entry * n - stop * n /\ y = 3 * SumRange(b, n)
    OBVIOUS
  <2>4. x \in Int /\ y \in Int
    BY <1>2, <2>2, <2>3
  <2>5. \E m \in Int : x <= m /\ y <= m
    <3>1. CASE x <= y
      BY <2>4, <3>1
    <3>2. CASE y <= x
      BY <2>4, <3>2
    <3> QED BY <2>4, <3>1, <3>2
  <2>6. PICK m \in Int : \A v \in {x, y} : v <= m
    BY <2>5
  <2>7. GreatestOf({x, y}) \in {x, y}
    <3>1. {x, y} \in SUBSET Int /\ {x, y} # {}
      BY <2>4
    <3> QED BY <2>6, <3>1, GreatestOfNumbers
  <2>8. r = GreatestOf({x, y})
    BY <1>1, <2>3 DEF Risk
  <2> QED BY <2>4, <2>7, <2>8
<1>4. \A x, y, k \in Int : (y - x) * k = y * k - x * k /\ 2 * (y - x) * k = 2 * ((y - x) * k)
  OBVIOUS
<1>5. PICK e \in Int, t \in Int : e = entry * n /\ t = target * n
  BY <1>2
<1>6. 2 * (t - e) >= 3 * r
  <2>1. reward = target - entry
    OBVIOUS
  <2>2. n \in Int
    BY <1>2
  <2>3. 2 * reward * n >= 3 * r
    BY <1>1
  <2> HIDE DEF n, reward
  <2>4. 2 * reward * n = 2 * ((target - entry) * n)
    BY <1>4, <2>1, <2>2
  <2>5. (target - entry) * n = t - e
    BY <1>4, <1>5, <2>2
  <2> QED BY <2>3, <2>4, <2>5
<1>7. s.entry = e /\ s.stop = e - r /\ s.target = t
  BY <1>1, <1>5
<1>8. r > 0
  BY <1>1
<1> HIDE DEF n, reward
<1>9. e - r < e /\ e < t /\ 2 * (t - e) >= 3 * (e - (e - r))
  BY <1>3, <1>6, <1>8
<1> QED BY <1>3, <1>7, <1>9 DEF WellPlaced

\* A swing beyond the entry is beyond it.
LEMMA ToSwingPlaced ==
    ASSUME NEW b \in Seq(Wicks), Len(b) > 0, NEW d, NEW at, NEW source, NEW entry \in Int,
           NEW stop \in Int, NEW after, NEW retraced,
           NEW s \in ToSwing(b, d, at, source, entry, stop, after, retraced)
    PROVE  WellPlaced(s) /\ s.stop \in Int /\ s.entry \in Int /\ s.target \in Int
<1>1. PICK i \in OpenTargets(b, d, entry, after) :
        s \in Setup(b, d, at, source, entry, stop, 2 * Face(b, d)[i].h, i, retraced)
  BY DEF ToSwing
<1>2. i \in Swings(b, d, Wing) /\ 2 * Face(b, d)[i].h > entry
  BY DEF OpenTargets, NearestBeyond
<1>3. Face(b, d)[i].h \in Int
  <2>1. i \in 1..Len(b)
    BY <1>2, SwingsInside, DetectorsAssumption
  <2> QED BY <2>1, FaceTyped, WicksTyped
<1>4. PICK t \in Int : t = 2 * Face(b, d)[i].h
  BY <1>3
<1>5. entry <= t /\ s \in Setup(b, d, at, source, entry, stop, t, i, retraced)
  BY <1>1, <1>2, <1>4
<1> QED BY <1>5, SetupIsPlaced

\* A setup against a failed break aims at an extreme of the bars before, not below the
\* other one where it enters.
LEMMA TurtlePlaced ==
    ASSUME NEW b \in Seq(Wicks), Len(b) > 0, NEW d, NEW t \in TurtleSoups(b, d),
           NEW s \in TurtleSetup(b, t)
    PROVE  WellPlaced(s)
<1> DEFINE f == Face(b, d)
<1>1. PICK i \in Lookback + 1..Len(b) :
        t = [at |-> i, dir |-> d,
             swept |-> LeastOf({f[k].l : k \in i - Lookback..i - 1}), wick |-> f[i].l,
             target |-> GreatestOf({f[k].h : k \in i - Lookback..i - 1})]
  BY DEF TurtleSoups
<1>0. f \in Seq(Wicks) /\ Len(f) = Len(b) /\ Len(b) \in Nat /\ Face(f, "short") \in Seq(Wicks)
  BY FaceTyped
<1> HIDE DEF f
<1>2. /\ \A k \in 1..Len(b) : f[k] \in Wicks /\ f[k].h \in Int /\ f[k].l \in Int /\ f[k].l <= f[k].h
      /\ Lookback \in Nat \ {0}
  BY <1>0, WicksTyped, DetectorsAssumption
<1>3. i \in 1..Len(b) /\ i - 1 \in i - Lookback..i - 1 /\ \A k \in i - Lookback..i - 1 : k \in 1..Len(b)
  BY <1>0, <1>2
<1>4. PICK top \in Int : \A k \in 1..Len(b) : f[k].h <= top
  BY <1>0, HighsBounded
<1>5. PICK foot \in Int : \A k \in 1..Len(b) : foot <= f[k].l
  <2>1. PICK m \in Int : \A k \in 1..Len(b) : Face(f, "short")[k].h <= m
    <3>1. Len(Face(f, "short")) = Len(b)
      BY <1>0, FaceTyped
    <3> QED BY <1>0, <3>1, HighsBounded
  <2>2. \A k \in 1..Len(b) : Face(f, "short")[k].h = -f[k].l
    BY <1>0 DEF Face, Mirror
  <2>3. -m \in Int /\ \A k \in 1..Len(b) : -m <= f[k].l
    BY <1>2, <2>1, <2>2
  <2> QED BY <2>3
<1> DEFINE L == {f[k].l : k \in i - Lookback..i - 1}
           H == {f[k].h : k \in i - Lookback..i - 1}
<1>6. L \in SUBSET Int /\ L # {} /\ (\A x \in L : foot <= x) /\ f[i - 1].l \in L
  BY <1>2, <1>3, <1>5
<1>7. H \in SUBSET Int /\ H # {} /\ (\A x \in H : x <= top) /\ f[i - 1].h \in H
  BY <1>2, <1>3, <1>4
<1>8. t.at = i /\ t.dir = d /\ t.swept = LeastOf(L) /\ t.wick = f[i].l /\ t.target = GreatestOf(H)
  BY <1>1
<1> HIDE DEF L, H
<1>9. LeastOf(L) \in Int /\ LeastOf(L) <= f[i - 1].l
  BY <1>6, LeastOfInts
<1>10. GreatestOf(H) \in Int /\ f[i - 1].h <= GreatestOf(H)
  BY <1>7, GreatestOfNumbers
<1>11. f[i - 1].l \in Int /\ f[i - 1].h \in Int /\ f[i - 1].l <= f[i - 1].h /\ f[i].l \in Int
  BY <1>2, <1>3
<1>12. PICK p \in Int, q \in Int, w \in Int :
         p = 2 * t.swept /\ q = 2 * t.target /\ w = 2 * t.wick /\ p <= q
  <2>1. PICK l \in Int : l = t.swept /\ l <= f[i - 1].l
    BY <1>8, <1>9
  <2>2. PICK h \in Int : h = t.target /\ f[i - 1].h <= h
    BY <1>8, <1>10
  <2>3. PICK v \in Int : v = t.wick
    BY <1>8, <1>11
  <2>4. l <= h
    BY <1>11, <2>1, <2>2
  <2>5. 2 * l \in Int /\ 2 * h \in Int /\ 2 * v \in Int /\ 2 * l <= 2 * h
    BY <2>4
  <2> QED BY <2>1, <2>2, <2>3, <2>5
<1>13. s \in Setup(b, t.dir, t.at, "turtle", p, w, q, 0, TRUE)
  BY <1>12 DEF TurtleSetup
<1>14. PICK source, retraced : s \in Setup(b, t.dir, t.at, source, p, w, q, 0, retraced)
  BY <1>13
<1> QED BY <1>12, <1>14, SetupIsPlaced

\* The edges of an implied gap and of a rejection are prices.
LEMMA ImpliedTyped ==
    ASSUME NEW b \in Seq(Wicks), NEW d, NEW g \in ImpliedGaps(b, d)
    PROVE  g.dir = d /\ g.at \in 1..Len(b) /\ g.lo \in Int /\ g.hi \in Int
<1> DEFINE f == Face(b, d)
<1>0. Len(b) \in Nat /\ \A i \in 1..Len(b) : f[i] \in Wicks
  BY FaceTyped
<1>1. PICK i \in 3..Len(b) : g = [at |-> i, dir |-> d, lo |-> BodyTop(f[i - 2]), hi |-> BodyFoot(f[i])]
  BY DEF ImpliedGaps
<1> HIDE DEF f
<1>2. i \in 1..Len(b) /\ i - 2 \in 1..Len(b)
  BY <1>0
<1>3. BodyTop(f[i - 2]) \in Int /\ BodyFoot(f[i]) \in Int
  <2>1. \A x \in Wicks : BodyTop(x) \in Int /\ BodyFoot(x) \in Int
    BY WicksTyped DEF BodyTop, BodyFoot
  <2> QED BY <1>0, <1>2, <2>1
<1> QED BY <1>1, <1>2, <1>3

\* The edges of a rejection block are prices.
LEMMA RejectionsTyped ==
    ASSUME NEW b \in Seq(Wicks), NEW d, NEW r \in Rejections(b, d)
    PROVE  r.dir = d /\ r.at \in 1..Len(b) /\ r.lo \in Int /\ r.hi \in Int
<1> DEFINE f == Face(b, d)
<1>0. Len(b) \in Nat /\ \A i \in 1..Len(b) : f[i] \in Wicks
  BY FaceTyped
<1>1. PICK i \in 1..Len(b) - 1 : r = [at |-> i, dir |-> d, lo |-> f[i].l, hi |-> f[i].c]
  BY DEF Rejections
<1> HIDE DEF f
<1>2. i \in 1..Len(b)
  BY <1>0
<1>3. f[i].l \in Int /\ f[i].c \in Int
  BY <1>0, <1>2, WicksTyped
<1> QED BY <1>1, <1>2, <1>3

\* A Silver Bullet is well placed.
LEMMA BulletsPlaced ==
    ASSUME NEW b \in Seq(Wicks), Len(b) > 0, NEW s \in SilverBullets(b)
    PROVE  WellPlaced(s) /\ s.stop \in Int /\ s.entry \in Int /\ s.target \in Int
<1>1. PICK g \in Gaps(b, "long") \cup Gaps(b, "short") :
        s \in ToSwing(b, g.dir, g.at, "fvg", g.lo + g.hi, 2 * g.lo, 0, Filled(b, g))
  BY BulletFields
<1>2. g.lo \in Int /\ g.hi \in Int
  BY GapsTyped
<1>3. PICK d, at, source, entry, stop, after, retraced :
        /\ entry \in Int /\ stop \in Int
        /\ s \in ToSwing(b, d, at, source, entry, stop, after, retraced)
  <2>1. PICK entry \in Int, stop \in Int : entry = g.lo + g.hi /\ stop = 2 * g.lo
    BY <1>2
  <2> QED BY <1>1, <2>1
<1> QED BY <1>3, ToSwingPlaced

\* So is a setup of the other sources.
LEMMA ExtrasPlaced ==
    ASSUME NEW b \in Seq(Wicks), Len(b) > 0, NEW s \in Extras(b)
    PROVE  WellPlaced(s)
<1> DEFINE T == UNION {TurtleSoups(b, d) : d \in Sides}
           I == UNION {ImpliedGaps(b, d) : d \in Sides}
           R == UNION {Rejections(b, d) : d \in Sides}
           A1 == UNION {TurtleSetup(b, t) : t \in LastThree(T)}
           A2 == UNION {BlockSetup(b, m) : m \in LastThree(MitigationBlocks(b, Wing))}
           A3 == UNION {ImpliedSetup(b, g) : g \in LastThree(I)}
           A4 == UNION {RejectionSetup(b, r) : r \in LastThree(R)}
<1>1. s \in A1 \/ s \in A2 \/ s \in A3 \/ s \in A4
  <2>1. Extras(b) = IF Len(b) < MinExtra THEN {} ELSE A1 \cup A2 \cup A3 \cup A4
    BY Zenon DEF Extras
  <2> HIDE DEF A1, A2, A3, A4
  <2> QED BY <2>1
<1>2. \A S : LastThree(S) \subseteq S
  BY DEF LastThree
<1>3. CASE s \in A1
  <2>1. PICK t \in LastThree(T) : s \in TurtleSetup(b, t)
    BY <1>3
  <2>2. PICK d : t \in TurtleSoups(b, d)
    BY <1>2, <2>1
  <2> QED BY <2>1, <2>2, TurtlePlaced
<1>4. CASE s \in A2
  <2>1. PICK m \in LastThree(MitigationBlocks(b, Wing)) : s \in BlockSetup(b, m)
    BY <1>4
  <2>2. PICK ob \in OrderBlocks(b, Wing) : m.ob = ob
    <3>1. m \in MitigationBlocks(b, Wing)
      BY <1>2, <2>1
    <3>2. \E ob \in OrderBlocks(b, Wing) : \E x, y : m = [at |-> x, ob |-> ob, back |-> y]
      BY <3>1, Zenon DEF MitigationBlocks
    <3> QED BY <3>2
  <2>3. Face(b, ob.dir)[ob.at].h \in Int /\ Face(b, ob.dir)[ob.at].l \in Int
    <3>1. Face(b, ob.dir)[ob.at] \in Wicks
      BY BlocksInside, FaceTyped
    <3> QED BY <3>1, WicksTyped
  <2>4. PICK high \in Int, low \in Int : high = Face(b, ob.dir)[ob.at].h /\ low = Face(b, ob.dir)[ob.at].l
    BY <2>3
  <2>5. s \in ToSwing(b, ob.dir, m.back, "mitigation", high + low, 2 * low, m.back, TRUE)
    BY <2>1, <2>2, <2>4 DEF BlockSetup
  <2>6. PICK d, at, source, entry, stop, after, retraced :
          /\ entry \in Int /\ stop \in Int
          /\ s \in ToSwing(b, d, at, source, entry, stop, after, retraced)
    <3>1. PICK entry \in Int, stop \in Int : entry = high + low /\ stop = 2 * low
      OBVIOUS
    <3> QED BY <2>5, <3>1
  <2> QED BY <2>6, ToSwingPlaced
<1>5. CASE s \in A3
  <2>1. PICK g \in LastThree(I) : s \in ImpliedSetup(b, g)
    BY <1>5
  <2>2. PICK d : g \in ImpliedGaps(b, d)
    BY <1>2, <2>1
  <2>3. g.lo \in Int /\ g.hi \in Int
    BY <2>2, ImpliedTyped
  <2>4. PICK dd, at, source, entry, stop, after, retraced :
          /\ entry \in Int /\ stop \in Int
          /\ s \in ToSwing(b, dd, at, source, entry, stop, after, retraced)
    <3>1. PICK entry \in Int, stop \in Int : entry = g.lo + g.hi /\ stop = 2 * g.lo
      BY <2>3
    <3> QED BY <2>1, <3>1 DEF ImpliedSetup
  <2> QED BY <2>4, ToSwingPlaced
<1>6. CASE s \in A4
  <2>1. PICK r \in LastThree(R) : s \in RejectionSetup(b, r)
    BY <1>6
  <2>2. PICK d : r \in Rejections(b, d)
    BY <1>2, <2>1
  <2>3. r.lo \in Int /\ r.hi \in Int
    BY <2>2, RejectionsTyped
  <2>4. PICK dd, at, source, entry, stop, after, retraced :
          /\ entry \in Int /\ stop \in Int
          /\ s \in ToSwing(b, dd, at, source, entry, stop, after, retraced)
    <3>1. PICK entry \in Int, stop \in Int : entry = r.lo + r.hi /\ stop = 2 * r.lo
      BY <2>3
    <3> QED BY <2>1, <3>1 DEF RejectionSetup
  <2> QED BY <2>4, ToSwingPlaced
<1> QED BY <1>1, <1>3, <1>4, <1>5, <1>6

\* In every frame, every setup of every source has its stop below its entry, its entry
\* below its target, and a reward of one and a half times the risk, although the ratio is
\* computed from the absolute value of the reward (_calc_rr) and the stop is widened
\* (_widen_sl_to_atr).
THEOREM SetupsSoundHolds == Spec => []SetupsSound
<1>1. Framed => SetupsSound
  BY FramedWicks, BulletsPlaced, ExtrasPlaced DEF SetupsSound, AllSetups
<1> QED BY <1>1, FrameAlways, PTL

\* The nearest swing beyond a price is one: of two at the same height, the earlier.
LEMMA NearestIsOne ==
    ASSUME NEW b \in Seq(Wicks), NEW d, NEW S \in SUBSET (1..Len(b)), NEW entry,
           NEW i \in NearestBeyond(b, d, S, entry), NEW k \in NearestBeyond(b, d, S, entry)
    PROVE  i = k
<1> DEFINE f == Face(b, d)
<1>1. /\ i \in S /\ k \in S
      /\ f[i].h < f[k].h \/ (f[i].h = f[k].h /\ i <= k)
      /\ f[k].h < f[i].h \/ (f[k].h = f[i].h /\ k <= i)
  BY DEF NearestBeyond
<1>2. f[i] \in Wicks /\ f[k] \in Wicks
  BY <1>1, FaceTyped
<1>3. f[i].h \in Int /\ f[k].h \in Int /\ i \in Int /\ k \in Int
  BY <1>1, <1>2, WicksTyped
<1> HIDE DEF f
<1> QED BY <1>1, <1>3

\* So is the setup to it.
LEMMA ToSwingIsOne ==
    ASSUME NEW b \in Seq(Wicks), NEW d, NEW at, NEW source, NEW entry, NEW stop, NEW after,
           NEW retraced,
           NEW s \in ToSwing(b, d, at, source, entry, stop, after, retraced),
           NEW t \in ToSwing(b, d, at, source, entry, stop, after, retraced)
    PROVE  s = t
<1>1. PICK i \in OpenTargets(b, d, entry, after) :
        s \in Setup(b, d, at, source, entry, stop, 2 * Face(b, d)[i].h, i, retraced)
  BY DEF ToSwing
<1>2. PICK k \in OpenTargets(b, d, entry, after) :
        t \in Setup(b, d, at, source, entry, stop, 2 * Face(b, d)[k].h, k, retraced)
  BY DEF ToSwing
<1>3. i = k
  <2> DEFINE S == {x \in Swings(b, d, Wing) : x > after /\ ~Swept(b, d, x)}
  <2>1. S \in SUBSET (1..Len(b))
    BY SwingsInside, DetectorsAssumption
  <2>2. i \in NearestBeyond(b, d, S, entry) /\ k \in NearestBeyond(b, d, S, entry)
    BY DEF OpenTargets
  <2> HIDE DEF S
  <2> QED BY <2>1, <2>2, NearestIsOne
<1>4. PICK target : /\ s \in Setup(b, d, at, source, entry, stop, target, i, retraced)
                    /\ t \in Setup(b, d, at, source, entry, stop, target, i, retraced)
  BY <1>1, <1>2, <1>3
<1> QED BY <1>4 DEF Setup

\* A bar closes across one gap at most.
LEMMA GapIsOne ==
    ASSUME NEW b \in Seq(Wicks), NEW g \in Gaps(b, "long") \cup Gaps(b, "short"),
           NEW x \in Gaps(b, "long") \cup Gaps(b, "short"), g.at = x.at
    PROVE  g = x
<1>1. \A y \in Gaps(b, "long"), z \in Gaps(b, "short") : y.at # z.at
  <2> SUFFICES ASSUME NEW y \in Gaps(b, "long"), NEW z \in Gaps(b, "short"), y.at = z.at
               PROVE  FALSE
      OBVIOUS
  <2>1. y.at \in 2..Len(b) - 1 /\ Face(b, "long")[y.at].c > Face(b, "long")[y.at - 1].h
    BY GapsTyped
  <2>2. Face(b, "short")[y.at].c > Face(b, "short")[y.at - 1].h
    BY GapsTyped, SMTT(30)
  <2>3. y.at \in 1..Len(b) /\ y.at - 1 \in 1..Len(b) /\ DOMAIN b = 1..Len(b)
    BY <2>1
  <2>4. /\ Face(b, "long") = b /\ Face(b, "short")[y.at].c = -b[y.at].c
        /\ Face(b, "short")[y.at - 1].h = -b[y.at - 1].l
    BY <2>3 DEF Face, Mirror
  <2>5. b[y.at].c \in Int /\ b[y.at - 1].h \in Int /\ b[y.at - 1].l \in Int
        /\ b[y.at - 1].l <= b[y.at - 1].h
    <3>1. b[y.at] \in Wicks /\ b[y.at - 1] \in Wicks
      BY <2>3
    <3> QED BY <3>1, WicksTyped
  <2> QED BY <2>1, <2>2, <2>4, <2>5
<1>2. ASSUME NEW d, g \in Gaps(b, d), x \in Gaps(b, d) PROVE g = x
  <2>1. g = [at |-> g.at, dir |-> d, lo |-> Face(b, d)[g.at - 1].h, hi |-> Face(b, d)[g.at + 1].l]
    BY <1>2, GapsTyped
  <2>2. x = [at |-> x.at, dir |-> d, lo |-> Face(b, d)[x.at - 1].h, hi |-> Face(b, d)[x.at + 1].l]
    BY <1>2, GapsTyped
  <2> QED BY <2>1, <2>2
<1>3. CASE g \in Gaps(b, "long") /\ x \in Gaps(b, "long")
  BY <1>2, <1>3
<1>4. CASE g \in Gaps(b, "short") /\ x \in Gaps(b, "short")
  BY <1>2, <1>4
<1> QED BY <1>1, <1>3, <1>4

\* A Silver Bullet belongs to a bar, and a bar has one at most.
LEMMA BulletIsOne ==
    ASSUME NEW b \in Seq(Wicks), NEW s \in SilverBullets(b), NEW t \in SilverBullets(b)
    PROVE  /\ s.at \in 1..Len(b) /\ s.dir \in Sides
           /\ s.at = t.at => s = t
<1>1. \A u \in SilverBullets(b) : \E g \in Gaps(b, "long") \cup Gaps(b, "short") :
        /\ u \in ToSwing(b, g.dir, g.at, "fvg", g.lo + g.hi, 2 * g.lo, 0, Filled(b, g))
        /\ u.at = g.at /\ u.dir = g.dir
  <2> SUFFICES ASSUME NEW u \in SilverBullets(b)
               PROVE  \E g \in Gaps(b, "long") \cup Gaps(b, "short") :
                        /\ u \in ToSwing(b, g.dir, g.at, "fvg", g.lo + g.hi, 2 * g.lo, 0, Filled(b, g))
                        /\ u.at = g.at /\ u.dir = g.dir
      OBVIOUS
  <2>1. PICK g \in Gaps(b, "long") \cup Gaps(b, "short") :
          u \in ToSwing(b, g.dir, g.at, "fvg", g.lo + g.hi, 2 * g.lo, 0, Filled(b, g))
    BY BulletFields
  <2>2. PICK source, retraced :
          u \in ToSwing(b, g.dir, g.at, source, g.lo + g.hi, 2 * g.lo, 0, retraced)
    BY <2>1
  <2>3. u.at = g.at /\ u.dir = g.dir
    BY <2>2, ToSwingFields
  <2> QED BY <2>1, <2>3
<1>2. PICK g \in Gaps(b, "long") \cup Gaps(b, "short") :
        /\ s \in ToSwing(b, g.dir, g.at, "fvg", g.lo + g.hi, 2 * g.lo, 0, Filled(b, g))
        /\ s.at = g.at /\ s.dir = g.dir
  BY <1>1
<1>3. PICK x \in Gaps(b, "long") \cup Gaps(b, "short") :
        /\ t \in ToSwing(b, x.dir, x.at, "fvg", x.lo + x.hi, 2 * x.lo, 0, Filled(b, x))
        /\ t.at = x.at
  BY <1>1
<1>4. s.at \in 1..Len(b) /\ s.dir \in Sides
  <2>1. PICK d \in Sides : g \in Gaps(b, d)
    BY DEF Sides
  <2>2. g.dir = d /\ g.at \in 2..Len(b) - 1 /\ Len(b) \in Nat
    BY <2>1, GapsTyped
  <2> QED BY <1>2, <2>2
<1>5. ASSUME s.at = t.at PROVE s = t
  <2>1. g = x
    BY <1>2, <1>3, <1>5, GapIsOne
  <2>2. PICK source, retraced :
          /\ s \in ToSwing(b, g.dir, g.at, source, g.lo + g.hi, 2 * g.lo, 0, retraced)
          /\ t \in ToSwing(b, g.dir, g.at, source, g.lo + g.hi, 2 * g.lo, 0, retraced)
    BY <1>2, <1>3, <2>1
  <2> QED BY <2>2, ToSwingIsOne
<1> QED BY <1>4, <1>5

\* The tracker keeps one setup at most, of a bar of the frame, with its stop below its
\* target.
Tracked ==
    /\ \A s, t \in active : s = t
    /\ \A s \in active : s.at \in DOMAIN bars /\ s.dir \in Sides /\ s.stop < s.target
    /\ stopped \subseteq DOMAIN bars

\* What update_htf takes over, it may keep.
LEMMA UpdatedIsOne ==
    ASSUME NEW b \in Seq(Wicks), Len(b) > 0, NEW kept, \A s, t \in kept : s = t,
           \A s \in kept : s.at \in 1..Len(b) /\ s.dir \in Sides /\ s.stop < s.target
    PROVE  /\ \A s, t \in Updated(b, kept) : s = t
           /\ \A s \in Updated(b, kept) : s.at \in 1..Len(b) /\ s.dir \in Sides /\ s.stop < s.target
<1> DEFINE L == {x \in LatestBullet(b) : \A a \in kept : x.at # a.at}
           new == Taken(b, L)
<1>1. L \subseteq SilverBullets(b) /\ \A s, t \in L : t.at <= s.at
  BY DEF LatestBullet, LatestOf
<1>2. Updated(b, kept) = IF new = {} THEN kept ELSE new
  BY Zenon DEF Updated, Replaced
<1> HIDE DEF L
<1>3. \A s, t \in L : s = t
  <2> SUFFICES ASSUME NEW s \in L, NEW t \in L PROVE s = t
      OBVIOUS
  <2>1. s.at \in 1..Len(b) /\ t.at \in 1..Len(b) /\ (s.at = t.at => s = t)
    BY <1>1, BulletIsOne
  <2> QED BY <1>1, <2>1
<1>4. \A s \in L : s.at \in 1..Len(b) /\ s.dir \in Sides /\ s.stop < s.target
  <2> SUFFICES ASSUME NEW s \in L
               PROVE  s.at \in 1..Len(b) /\ s.dir \in Sides /\ s.stop < s.target
      OBVIOUS
  <2>1. s.at \in 1..Len(b) /\ s.dir \in Sides
    BY <1>1, BulletIsOne
  <2>2. WellPlaced(s) /\ s.stop \in Int /\ s.entry \in Int /\ s.target \in Int
    BY <1>1, BulletsPlaced
  <2>3. s.stop < s.target
    BY <2>2 DEF WellPlaced
  <2> QED BY <2>1, <2>3
<1>5. \A n \in new : \E s \in L : n.at = s.at /\ n.dir = s.dir /\ n.stop = s.stop /\ n.target = s.target
  BY DEF Taken
<1>6. \A m, n \in new : m = n
  BY <1>3 DEF Taken
<1> HIDE DEF new
<1>7. \A n \in new : n.at \in 1..Len(b) /\ n.dir \in Sides /\ n.stop < n.target
  BY <1>4, <1>5
<1> QED BY <1>2, <1>6, <1>7

\* The frame never gets shorter.
LEMMA FrameGrows == Framed /\ [Next]_vars => Len(bars) <= Len(bars')
<1> SUFFICES ASSUME Framed, [Next]_vars PROVE Len(bars) <= Len(bars')
    OBVIOUS
<1>0. bars \in Seq(Candles) /\ Len(bars) \in Nat
  BY DEF Framed
<1>1. CASE NewBar
  <2>1. PICK x : bars' = Append(bars, x)
    BY <1>1 DEF NewBar
  <2>2. Len(bars') = Len(bars) + 1
    BY <1>0, <2>1
  <2> QED BY <1>0, <2>2
<1>2. ASSUME NEW p, Tick(p) PROVE Len(bars) <= Len(bars')
  <2>1. PICK x : bars' = [bars EXCEPT ![Len(bars)] = x]
    BY <1>2 DEF Tick
  <2>2. Len(bars') = Len(bars)
    BY <1>0, <2>1
  <2> QED BY <1>0, <2>2
<1>3. CASE UNCHANGED vars
  BY <1>0, <1>3 DEF vars
<1> QED BY <1>1, <1>2, <1>3 DEF Next

\* The tracker goes on keeping one.
LEMMA TrackedKept == Framed /\ Tracked /\ [Next]_vars => Tracked'
<1> SUFFICES ASSUME Framed, Tracked, [Next]_vars PROVE Tracked'
    OBVIOUS
<1>1. /\ bars' \in Seq(Wicks) /\ Len(bars') > 0
      /\ DOMAIN bars' = 1..Len(bars') /\ DOMAIN bars = 1..Len(bars)
      /\ DOMAIN bars \subseteq DOMAIN bars'
  <2>1. Framed' /\ Len(bars) <= Len(bars')
    BY FrameKept, FrameGrows
  <2>2. bars' \in Seq(Wicks) /\ Len(bars') \in Nat \ {0} /\ bars \in Seq(Wicks) /\ Len(bars) \in Nat
    BY <2>1, CandlesAreWicks DEF Framed
  <2> QED BY <2>1, <2>2
<1>2. CASE UNCHANGED vars
  BY <1>2 DEF vars, Tracked
<1>3. CASE Track(bars', Updated(bars', active))
  <2> DEFINE kept == Updated(bars', active)
  <2>1. /\ \A s, t \in kept : s = t
        /\ \A s \in kept : s.at \in 1..Len(bars') /\ s.dir \in Sides /\ s.stop < s.target
    BY <1>1, UpdatedIsOne DEF Tracked
  <2>2. /\ active' \subseteq kept
        /\ \A n \in stopped' : n \in stopped \/ \E s \in kept : n = s.at
    BY <1>3 DEF Track
  <2> HIDE DEF kept
  <2> QED BY <1>1, <2>1, <2>2 DEF Tracked
<1> QED BY <1>2, <1>3 DEF Next

\* The tracker of a higher timeframe keeps one setup at most (a bar closes across one gap,
\* a gap has one nearest target), of a bar of the frame, and a price that has reached its
\* stop has not reached its target (HtfSetupTracker, _active).
THEOREM TypeCorrect == Spec => []TypeOK
<1>1. Init => Tracked
  BY DEF Init, Tracked
<1>2. Framed /\ Tracked => TypeOK
  <2> SUFFICES ASSUME Framed, Tracked PROVE TypeOK
      OBVIOUS
  <2>1. Cardinality(active) <= 1
    <3>1. CASE active = {}
      BY <3>1, FS_EmptySet
    <3>2. CASE active # {}
      <4>1. PICK a : a \in active
        BY <3>2
      <4>2. active = {a}
        BY <4>1 DEF Tracked
      <4>3. Cardinality(active) = 1
        BY <4>2, FS_Singleton
      <4> QED BY <4>3
    <3> QED BY <3>1, <3>2
  <2> QED BY <2>1 DEF TypeOK, Framed, Tracked
<1>3. Spec => []Tracked
  BY <1>1, TrackedKept, FrameAlways, PTL DEF Spec
<1> QED BY <1>2, <1>3, FrameAlways, PTL
=============================================================================
