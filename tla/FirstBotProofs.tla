---------------------------- MODULE FirstBotProofs ----------------------------
(***************************************************************************)
(* Theorems about the first bot: the loop that trades (Legacy) and the     *)
(* backtest that shares its ladder (Engine), for any targets, trailing     *)
(* mode, signals and number of failed calls, restarts and trades by hand.  *)
(***************************************************************************)
EXTENDS Legacy, Engine, WellFoundedInduction, TLAPS

-----------------------------------------------------------------------------
(* The ladder *)

\* The targets are numbered, and each sells something.
LEMMA LadderTyped ==
    NTp \in Nat \ {0} /\ \A i \in 1..NTp : Allocations[i] \in Nat \ {0}
  BY LadderAssumption DEF NTp

\* What holds of 0, and of each number up to n if it does of the one before, holds up to n.
LEMMA Climbs ==
    ASSUME NEW n \in Nat, NEW S, 0 \in S, \A i \in 1..n : i - 1 \in S => i \in S
    PROVE  0..n \subseteq S
<1> DEFINE T == (0..n) \ S
<1> SUFFICES ASSUME T # {} PROVE FALSE
    OBVIOUS
<1>1. PICK x \in T : \A y \in T : x <= y
  <2>0. T \in SUBSET Nat
    OBVIOUS
  <2> HIDE DEF T
  <2>1. \E x \in T : \A y \in T : ~ (<<y, x>> \in OpToRel(<, Nat))
    BY <2>0, NatLessThanWellFounded, WFMin
  <2>2. \A x, y \in T : <<y, x>> \in OpToRel(<, Nat) \/ x <= y
    BY <2>0 DEF OpToRel
  <2>3. \E x \in T : \A y \in T : x <= y
    BY <2>1, <2>2
  <2> QED BY <2>3
<1>2. x \in 1..n /\ x - 1 \in 0..n /\ x - 1 \notin T
  BY <1>1
<1> QED BY <1>1, <1>2

\* What the targets sell is summed up one target after the other.
LEMMA SoldUpToIs ==
    SoldUpTo = [n \in 0..NTp |-> IF n = 0 THEN 0 ELSE SoldUpTo[n - 1] + Allocations[n]]
<1> DEFINE Sums(g, m) == g = [n \in 0..m |-> IF n = 0 THEN 0 ELSE g[n - 1] + Allocations[n]]
           M == {m \in 0..NTp : \E g : Sums(g, m)}
<1>0. NTp \in Nat
  BY LadderTyped
<1>1. 0 \in M
  <2> DEFINE h == [n \in 0..0 |-> 0]
  <2>1. h = [n \in 0..0 |-> IF n = 0 THEN 0 ELSE h[n - 1] + Allocations[n]]
    OBVIOUS
  <2> HIDE DEF h
  <2>2. \E g : Sums(g, 0)
    BY <2>1
  <2> QED BY <1>0, <2>2
<1>2. ASSUME NEW m \in 1..NTp, m - 1 \in M PROVE m \in M
  <2>1. PICK g : Sums(g, m - 1)
    BY <1>2
  <2> DEFINE h == [n \in 0..m |-> IF n = m THEN g[m - 1] + Allocations[m] ELSE g[n]]
  <2>2. ASSUME NEW n \in 0..m PROVE h[n] = IF n = 0 THEN 0 ELSE h[n - 1] + Allocations[n]
    <3>1. CASE n = m
      <4>1. h[n - 1] = g[m - 1] /\ n # 0
        BY <1>0, <3>1
      <4> QED BY <3>1, <4>1
    <3>2. CASE n # m /\ n # 0
      <4>1. h[n - 1] = g[n - 1] /\ h[n] = g[n] /\ n \in 0..m - 1
        BY <1>0, <3>2
      <4> QED BY <2>1, <3>2, <4>1
    <3>3. CASE n # m /\ n = 0
      <4>1. h[n] = g[n] /\ n \in 0..m - 1
        BY <1>0, <3>3
      <4> QED BY <2>1, <3>3, <4>1
    <3> QED BY <3>1, <3>2, <3>3
  <2>3. Sums(h, m)
    BY <2>2
  <2> HIDE DEF h
  <2>4. \E r : Sums(r, m)
    BY <2>3
  <2> QED BY <2>4
<1>3. \E g : Sums(g, NTp)
  <2> HIDE DEF M
  <2>1. 0..NTp \subseteq M
    BY <1>0, <1>1, <1>2, Climbs
  <2> QED BY <1>0, <2>1 DEF M
<1> QED BY <1>3, Zenon DEF SoldUpTo

\* The targets sell numbers, and no first few of them more than all.
LEMMA SumsTyped ==
    Qty \in Nat /\ \A n \in 0..NTp : SoldUpTo[n] \in 0..Qty
<1>0. NTp \in Nat /\ \A i \in 1..NTp : Allocations[i] \in Nat
  BY LadderTyped
<1>1. SoldUpTo[0] = 0 /\ \A n \in 1..NTp : SoldUpTo[n] = SoldUpTo[n - 1] + Allocations[n]
  <2> HIDE DEF SoldUpTo
  <2> QED BY <1>0, SoldUpToIs
<1> HIDE DEF SoldUpTo
<1>2. \A n \in 0..NTp : SoldUpTo[n] \in Nat
  <2> DEFINE S == {n \in 0..NTp : SoldUpTo[n] \in Nat}
  <2>1. 0 \in S /\ \A i \in 1..NTp : i - 1 \in S => i \in S
    BY <1>0, <1>1
  <2> HIDE DEF S
  <2>2. 0..NTp \subseteq S
    BY <1>0, <2>1, Climbs
  <2> QED BY <2>2 DEF S
<1>3. ASSUME NEW n \in 0..NTp PROVE SoldUpTo[n] <= SoldUpTo[NTp]
  <2> DEFINE S == {m \in 0..NTp : m >= n => SoldUpTo[n] <= SoldUpTo[m]}
  <2>1. 0 \in S
    BY <1>0, <1>2
  <2>2. ASSUME NEW i \in 1..NTp, i - 1 \in S PROVE i \in S
    <3>1. SoldUpTo[i] = SoldUpTo[i - 1] + Allocations[i] /\ Allocations[i] \in Nat
          /\ SoldUpTo[i - 1] \in Nat /\ SoldUpTo[n] \in Nat
      BY <1>0, <1>1, <1>2
    <3>2. CASE i <= n
      BY <1>0, <3>1, <3>2
    <3>3. CASE i > n
      BY <1>0, <2>2, <3>1, <3>3
    <3> QED BY <1>0, <3>2, <3>3
  <2> HIDE DEF S
  <2>3. 0..NTp \subseteq S
    BY <1>0, <2>1, <2>2, Climbs
  <2> QED BY <1>0, <2>3 DEF S
<1> QED BY <1>0, <1>2, <1>3 DEF Qty

\* The larger of two numbers is one of them and below neither.
LEMMA MaxOfTwo ==
    ASSUME NEW a \in Int, NEW b \in Int
    PROVE  Max({a, b}) = IF a >= b THEN a ELSE b
<1>1. \A x \in {a, b} : (\A y \in {a, b} : x >= y) => x = IF a >= b THEN a ELSE b
  OBVIOUS
<1>2. \E x \in {a, b} : \A y \in {a, b} : x >= y
  <2>1. CASE a >= b
    BY <2>1
  <2>2. CASE ~(a >= b)
    BY <2>2
  <2> QED BY <2>1, <2>2
<1>3. Max({a, b}) \in {a, b} /\ \A y \in {a, b} : Max({a, b}) >= y
  BY <1>2, Zenon DEF Max
<1> QED BY <1>1, <1>3

\* The targets the price has reached are no fewer than before and no more than there are.
LEMMA TpHitsBounded ==
    ASSUME NEW hits \in 0..NTp, NEW price \in Int
    PROVE  TpHits(hits, price) \in hits..NTp
<1> USE LadderTyped
<1> DEFINE S == {hits} \cup {i \in 1..NTp : price >= i}
           m == IF price > hits THEN IF price < NTp THEN price ELSE NTp ELSE hits
<1>1. m \in S /\ \A y \in S : m >= y
  OBVIOUS
<1>2. \E x \in S : \A y \in S : x >= y
  BY <1>1
<1>3. Max(S) \in S /\ \A y \in S : Max(S) >= y
  <2> HIDE DEF S
  <2> QED BY <1>2, Zenon DEF Max
<1>4. Max(S) \in hits..NTp
  BY <1>3
<1> QED BY <1>4, Zenon DEF TpHits

\* The trailed stop is a level, and never below the stop there was.
LEMMA TrailedTyped ==
    ASSUME NEW m, NEW sl \in Int, NEW hits \in Int, NEW high \in Int
    PROVE  /\ TrailedStop(m, sl, hits, high) \in Int
           /\ TrailedStop(m, sl, hits, high) >= sl
<1>1. NewStop(m, sl, hits, high) \in Int
  BY DEF NewStop
<1>2. Max({sl, NewStop(m, sl, hits, high)}) =
        IF sl >= NewStop(m, sl, hits, high) THEN sl ELSE NewStop(m, sl, hits, high)
  BY <1>1, MaxOfTwo
<1> QED BY <1>1, <1>2 DEF TrailedStop

-----------------------------------------------------------------------------
(* The bot: its inductive invariant *)

Plans == [dir : Sides, sl : Int, hits : 0..NTp, qty : Nat, sources : SUBSET Ranks]
PlanOrNone == Plans \cup {NoPlan}
WithPlan == {"position", "manage", "sold", "closed", "swapped", "reversed"}
Loops == [at : WithPlan \cup {"idle", "external", "decide", "opened"},
          price : Int, seen : Int, plan : PlanOrNone]

LegacyTyped ==
    /\ net \in Int /\ level \in Int /\ highest \in Int
    /\ loop \in Loops /\ plan \in PlanOrNone /\ file \in PlanOrNone

\* Position n, with targets sold as s says: a position that ended has
\* taken its history along.
Sound(n, s) ==
    /\ n = 0 => s = NothingSold
    /\ s \in [1..NTp -> 0..1]
    /\ Size(n) <= 2 * Qty

\* What the loop l is about to do: it enters only where no position of its own is left,
\* and writes down the plan of an entry of which nothing is sold yet.
Awaits(l, n, s) ==
    /\ l.at = "decide" /\ l.seen = 0 => s = NothingSold /\ Size(n) <= Qty
    /\ l.at = "opened" => /\ s = NothingSold
                          /\ l.plan \in Plans /\ l.plan.hits = 0 /\ l.plan.qty = Qty

Carries(l, p) ==
    /\ l.at \in WithPlan => p \in Plans
    /\ l.at = "sold" => p.hits \in 1..NTp

\* A target behind the ones that p counts as reached is sold.
Beyond(s, p) == \E i \in 1..NTp : i > p.hits /\ s[i] # 0

\* A file that does not know of a sale does not match what is left of the position.
FileFits(f, n, s) == Beyond(s, f) => SideOf(n) # f.dir \/ 10 * Size(n) < 9 * f.qty

\* The plan knows every sale, whatever the file has missed.
Knows(p, f, n, s) ==
    /\ p \in Plans => /\ ~Beyond(s, p)
                      /\ f \in Plans /\ f.dir = p.dir /\ f.hits <= p.hits /\ p.qty <= f.qty
    /\ f \in Plans => FileFits(f, n, s) /\ f.qty <= 2 * Qty

LegacyInv ==
    /\ LegacyTyped
    /\ Sound(net, sold)
    /\ Awaits(loop, net, sold)
    /\ Carries(loop, plan)
    /\ Knows(plan, file, net, sold)

\* Each target sells more than a fifth of the whole, so that a file that has missed a
\* sale is a tenth off; by default a target sells a quarter.
Coarse == \A i \in 1..NTp : 5 * Allocations[i] > Qty

-----------------------------------------------------------------------------
(* What steps do to the position at the exchange *)

\* It is reduced, ended or left alone.
Eased ==
    /\ net' \in Int
    /\ \/ net' = 0 /\ sold' = NothingSold
       \/ /\ net' # 0 /\ SideOf(net') = SideOf(net) /\ Size(net') <= Size(net)
          /\ sold' = sold

\* A plan is not the absence of one.
LEMMA PlansAreReal == \A p \in Plans : p # NoPlan
  BY DEF Plans, NoPlan, Sides

\* The size of a position is a number.
LEMMA SizeTyped == \A n \in Int : Size(n) \in Nat /\ (Size(n) = 0 <=> n = 0)
  BY DEF Size

\* A call that does nothing leaves the position alone.
LEMMA NoOrderEases ==
    ASSUME LegacyInv, NoOrder
    PROVE  Eased
<1>1. net \in Int /\ (net = 0 => sold = NothingSold)
  BY DEF LegacyInv, LegacyTyped, Sound
<1>2. net' = net /\ sold' = sold
  BY DEF NoOrder
<1>3. SideOf(net') = SideOf(net) /\ Size(net') <= Size(net)
  BY <1>1, <1>2 DEF SideOf, Size
<1>4. CASE net = 0
  BY <1>1, <1>2, <1>4 DEF Eased
<1>5. CASE net # 0
  BY <1>1, <1>2, <1>3, <1>5 DEF Eased
<1> QED BY <1>4, <1>5

\* A reduce-only order that sells no target eases the position.
LEMMA CloseEases ==
    ASSUME LegacyInv, NEW d \in Sides, NEW qty \in Nat, NEW then,
           SendClose(d, qty, 0, then)
    PROVE  Eased /\ loop' \in {then, Idle}
<1> DEFINE n == net - Signed(d, Least(qty, Size(net)))
<1>1. loop' \in {then, Idle}
  BY Zenon DEF SendClose
<1>2. NoOrder \/ (SideOf(net) = d /\ Holds(n, 0, 0))
  BY Zenon DEF SendClose, Outcomes
<1>3. CASE SideOf(net) = d /\ Holds(n, 0, 0)
  <2>1. net \in Int
    BY DEF LegacyInv, LegacyTyped, Sound
  <2>2. n \in Int /\ (n # 0 => SideOf(n) = SideOf(net) /\ Size(n) <= Size(net))
    BY <1>3, <2>1 DEF SideOf, Size, Signed, Least, Sides
  <2>3. net' = n /\ IF n = 0 THEN sold' = NothingSold
                    ELSE sold' = sold
    BY <1>3, <2>1 DEF Holds
  <2> HIDE DEF n
  <2>4. CASE n = 0
    BY <1>1, <2>2, <2>3, <2>4 DEF Eased
  <2>5. CASE n # 0
    BY <1>1, <2>2, <2>3, <2>5, Zenon DEF Eased
  <2> QED BY <2>4, <2>5
<1> QED BY <1>1, <1>2, <1>3, NoOrderEases

\* An eased position is as sound as before, and no file fits it worse.
LEMMA EasedSound ==
    ASSUME LegacyInv, Eased
    PROVE  /\ Sound(net', sold')
           /\ \A p \in Plans : ~Beyond(sold, p) => ~Beyond(sold', p)
           /\ \A f \in Plans : FileFits(f, net, sold) => FileFits(f, net', sold')
           /\ sold = NothingSold => sold' = NothingSold
           /\ Size(net') <= Size(net)
<1> USE SumsTyped
<1>1. net \in Int /\ Sound(net, sold)
  BY DEF LegacyInv, LegacyTyped
<1>2. CASE net' = 0 /\ sold' = NothingSold
  <2>1. NothingSold \in [1..NTp -> 0..1] /\ \A p \in Plans : ~Beyond(NothingSold, p)
    BY DEF NothingSold, Beyond
  <2>2. Size(net') = 0 /\ Size(net) \in Nat
    BY <1>1, <1>2 DEF Size
  <2>3. \A f \in Plans : FileFits(f, net', sold')
    BY <1>2, <2>1, Zenon DEF FileFits
  <2> QED BY <1>1, <1>2, <2>1, <2>2, <2>3 DEF Sound
<1>3. CASE /\ net' # 0 /\ SideOf(net') = SideOf(net) /\ Size(net') <= Size(net)
           /\ sold' = sold
  <2>0. net' \in Int
    BY Zenon DEF Eased
  <2>1. net' \in Int /\ Size(net) \in Nat /\ Size(net') \in Nat
    BY <1>1, <2>0, SizeTyped
  <2>2. Sound(net', sold')
    BY <1>1, <1>3, <2>1 DEF Sound
  <2>3. ASSUME NEW f \in Plans, FileFits(f, net, sold)
        PROVE  FileFits(f, net', sold')
    <3>1. CASE Beyond(sold, f)
      <4>1. f.qty \in Nat
        BY DEF Plans
      <4> QED BY <1>3, <2>1, <2>3, <3>1, <4>1 DEF FileFits
    <3> QED BY <1>3, <3>1 DEF FileFits
  <2> QED BY <1>3, <2>2, <2>3
<1> QED BY <1>2, <1>3 DEF Eased

-----------------------------------------------------------------------------
(* Frames *)

\* A loop at rest asks for nothing.
LEMMA IdleHarmless ==
    /\ Idle \in Loops
    /\ \A p, n, s : Awaits(Idle, n, s) /\ Carries(Idle, p)
<1>1. NoPlan \in PlanOrNone /\ 0 \in Int
  BY DEF PlanOrNone
<1>2. Idle \in Loops
  BY <1>1 DEF Idle, Loops
<1>3. Idle.at = "idle"
  BY DEF Idle
<1> QED BY <1>2, <1>3 DEF Awaits, Carries, WithPlan

\* A plan and a file that fit the position fit what is left of it.
LEMMA EasedFits ==
    ASSUME LegacyInv, Eased, NEW p \in Plans, NEW f \in Plans,
           ~Beyond(sold, p), f.dir = p.dir, f.hits <= p.hits, p.qty <= f.qty,
           FileFits(f, net, sold), f.qty <= 2 * Qty
    PROVE  Knows(p, f, net', sold')
  BY EasedSound DEF Knows

\* Nothing is known of a position when there is neither plan nor file.
LEMMA NoneKnows == \A n, s : Knows(NoPlan, NoPlan, n, s)
  BY PlansAreReal DEF Knows

\* The plan and the file there are fit what is left of the position.
LEMMA EasedKnows ==
    ASSUME LegacyInv, Eased
    PROVE  Knows(plan, file, net', sold')
<1>1. PICK p : p = plan
  OBVIOUS
<1>2. PICK f : f = file
  OBVIOUS
<1>3. Knows(p, f, net, sold)
  BY <1>1, <1>2 DEF LegacyInv
<1>4. Knows(p, f, net', sold')
  BY <1>3, EasedSound DEF Knows
<1> QED BY <1>1, <1>2, <1>4

\* What the loop awaits stays true of an eased position.
LEMMA EasedAwaits ==
    ASSUME LegacyInv, Eased
    PROVE  Awaits(loop, net', sold')
<1>1. PICK l : l = loop
  OBVIOUS
<1>2. Awaits(l, net, sold)
  BY <1>1 DEF LegacyInv
<1>3. net \in Int /\ net' \in Int
  BY DEF LegacyInv, LegacyTyped, Eased
<1>4. Size(net) \in Nat /\ Size(net') \in Nat /\ Qty \in Nat
  BY <1>3, SizeTyped, SumsTyped
<1>5. Awaits(l, net', sold')
  BY <1>2, <1>4, EasedSound DEF Awaits
<1> QED BY <1>1, <1>5

\* A step that eases the position and leaves the plan and the file alone.
LEMMA LoopFrame ==
    ASSUME LegacyInv, Eased, UNCHANGED <<plan, file>>, level' \in Int, highest' \in Int,
           loop' \in Loops, Awaits(loop', net', sold'), Carries(loop', plan)
    PROVE  LegacyInv'
<1>1. LegacyTyped'
  BY DEF LegacyInv, LegacyTyped, Eased
<1>2. Knows(plan', file', net', sold')
  BY EasedKnows
<1> QED BY <1>1, <1>2, EasedSound DEF LegacyInv

\* Such a step that ends with the loop at rest.
LEMMA RestFrame ==
    ASSUME LegacyInv, Eased, UNCHANGED <<level, highest, plan, file>>, loop' = Idle
    PROVE  LegacyInv'
<1>1. level' \in Int /\ highest' \in Int
  BY DEF LegacyInv, LegacyTyped
<1> QED BY <1>1, LoopFrame, IdleHarmless

-----------------------------------------------------------------------------
(* The steps that do not touch the plan *)

\* A step begins with a plan, or asks for a position it does not know.
LEMMA BeginKeeps == LegacyInv /\ BeginStep => LegacyInv'
<1> SUFFICES ASSUME LegacyInv, BeginStep
             PROVE  LegacyInv'
    OBVIOUS
<1>1. Eased
  BY NoOrderEases DEF BeginStep
<1>2. level \in Int /\ highest \in Int /\ plan \in PlanOrNone
  BY DEF LegacyInv, LegacyTyped
<1>3. loop' = [Idle EXCEPT !.at = "external"] \/
      (plan \in Plans /\ loop' = [Idle EXCEPT !.at = "position", !.price = level])
  BY <1>2 DEF BeginStep, HasPosition, PlanOrNone
<1>4. loop' \in Loops /\ loop'.at \in {"external", "position"}
  <2>1. NoPlan \in PlanOrNone /\ 0 \in Int
    BY DEF PlanOrNone
  <2>2. CASE loop' = [Idle EXCEPT !.at = "external"]
    BY <2>1, <2>2 DEF Idle, Loops
  <2>3. CASE loop' = [Idle EXCEPT !.at = "position", !.price = level]
    <3>1. loop' = [at |-> "position", price |-> level, seen |-> 0, plan |-> NoPlan]
      BY <2>3 DEF Idle
    <3> QED BY <1>2, <2>1, <3>1 DEF Loops, WithPlan
  <2> QED BY <1>3, <2>2, <2>3
<1>5. loop'.at = "position" => plan \in Plans
  BY <1>3 DEF Idle
<1> QED BY <1>1, <1>2, <1>4, <1>5, LoopFrame DEF BeginStep, Awaits, Carries, WithPlan

\* The answer of a reading is the position there is; a reading that timed out counts as
\* none only where a plan is there.
LEMMA ReadKeeps ==
    ASSUME LegacyInv, NEW step, NEW next, NEW slow,
           ReadPosition(step, next, slow),
           \/ step = "position" /\ next = "manage"
           \/ step = "external" /\ next = "decide" /\ ~slow
    PROVE  LegacyInv'
<1>1. Eased /\ net' = net /\ sold' = sold
  BY NoOrderEases DEF ReadPosition, NoOrder
<1>2. loop \in Loops /\ net \in Int /\ level \in Int /\ highest \in Int
  BY DEF LegacyInv, LegacyTyped
<1>3. UNCHANGED <<plan, file, level, highest>>
  BY DEF ReadPosition
<1>4. CASE loop' = Idle
  BY <1>1, <1>3, <1>4, RestFrame
<1>5. CASE loop' = [loop EXCEPT !.at = next, !.seen = net]
  <2>1. loop' \in Loops /\ loop'.at = next /\ loop'.seen = net
    BY <1>2, <1>5 DEF Loops, WithPlan
  <2>2. Carries(loop', plan)
    BY <2>1 DEF LegacyInv, Carries, WithPlan, ReadPosition
  <2>3. Awaits(loop', net', sold')
    <3>1. net = 0 => sold = NothingSold
      BY DEF LegacyInv, Sound
    <3>2. Size(0) = 0 /\ 0 <= Qty
      BY SizeTyped, SumsTyped
    <3> QED BY <1>1, <2>1, <3>1, <3>2 DEF Awaits
  <2> QED BY <1>1, <1>2, <1>3, <2>1, <2>2, <2>3, LoopFrame
<1>6. CASE loop' = At(next) /\ next = "manage" /\ step = "position"
  <2>1. loop' \in Loops /\ loop'.at = "manage"
    BY <1>2, <1>6 DEF At, Loops, WithPlan
  <2>2. Carries(loop', plan) /\ Awaits(loop', net', sold')
    BY <1>6, <2>1 DEF LegacyInv, Carries, Awaits, WithPlan, ReadPosition
  <2> QED BY <1>1, <1>2, <1>3, <2>1, <2>2, LoopFrame
<1> QED BY <1>4, <1>5, <1>6, Zenon DEF ReadPosition

\* Dust is closed, anything else left alone.
LEMMA ForeignKeeps == LegacyInv /\ SeeForeign => LegacyInv'
<1> SUFFICES ASSUME LegacyInv, SeeForeign
             PROVE  LegacyInv'
    OBVIOUS
<1>1. UNCHANGED <<level, highest, plan, file>>
  BY DEF SeeForeign
<1>2. loop.seen \in Int /\ loop.seen # 0
  BY DEF LegacyInv, LegacyTyped, Loops, SeeForeign, FindsForeign
<1>3. SideOf(loop.seen) \in Sides /\ Size(loop.seen) \in Nat
  BY <1>2, SizeTyped DEF SideOf, Sides
<1>4. Eased /\ loop' = Idle
  <2>1. CASE SendClose(SideOf(loop.seen), Size(loop.seen), 0, Idle)
    <3>1. PICK d \in Sides, q \in Nat : d = SideOf(loop.seen) /\ q = Size(loop.seen)
      BY <1>3
    <3> QED BY <2>1, <3>1, CloseEases
  <2>2. CASE loop' = Idle /\ NoOrder
    BY <2>2, NoOrderEases
  <2> QED BY <2>1, <2>2 DEF SeeForeign
<1> QED BY <1>1, <1>4, RestFrame

\* The price and the bars move, the bot is stopped.
LEMMA OutsideKeeps ==
    ASSUME LegacyInv, Stop \/ BarEnds \/ \E to \in Levels : PriceMoves(to)
    PROVE  LegacyInv'
<1>1. Eased /\ UNCHANGED <<plan, file, highest>>
  <2>1. NoOrder
    BY DEF NoOrder, Stop, BarEnds, PriceMoves
  <2> QED BY <2>1, NoOrderEases DEF Stop, BarEnds, PriceMoves
<1>2. highest' \in Int
  BY <1>1 DEF LegacyInv, LegacyTyped
<1>3. level' \in Int
  BY LadderTyped DEF LegacyInv, LegacyTyped, Stop, BarEnds, PriceMoves, Levels
<1>4. CASE loop' = Idle
  BY <1>1, <1>2, <1>3, <1>4, LoopFrame, IdleHarmless
<1>5. CASE loop' = loop
  <2>1. loop' \in Loops /\ Carries(loop', plan)
    BY <1>5 DEF LegacyInv, LegacyTyped
  <2>2. Awaits(loop', net', sold')
    BY <1>1, <1>5, EasedAwaits
  <2> QED BY <1>1, <1>2, <1>3, <2>1, <2>2, LoopFrame
<1> QED BY <1>4, <1>5 DEF Stop, BarEnds, PriceMoves

-----------------------------------------------------------------------------
(* The steps of the loop with a plan *)

\* The calls that close the whole of a position.
Closing == {"closed", "swapped", "reversed"}

\* The check of the stop and of the signals closes the position or leaves it, and keeps
\* the plan but for its stop and its sources.
LEMMA CheckEases ==
    ASSUME LegacyInv, NEW p \in Plans, Check(p)
    PROVE  /\ Eased
           /\ loop' \in {Idle} \cup {At(step) : step \in Closing}
           /\ plan' \in Plans /\ plan'.dir = p.dir /\ plan'.hits = p.hits /\ plan'.qty = p.qty
<1>1. p.dir \in Sides /\ p.qty \in Nat
  BY DEF Plans
<1>2. ASSUME NEW step \in Closing, SendClose(p.dir, p.qty, 0, At(step))
      PROVE  Eased /\ loop' \in {Idle} \cup {At(s) : s \in Closing}
  <2>1. Eased /\ loop' \in {At(step), Idle}
    BY <1>1, <1>2, CloseEases
  <2> QED BY <2>1
<1>3. ASSUME loop' = Idle, NoOrder
      PROVE  Eased /\ loop' \in {Idle} \cup {At(s) : s \in Closing}
  BY <1>3, NoOrderEases
<1>4. CASE plan' = p /\ SendClose(p.dir, p.qty, 0, At("closed"))
  <2>1. "closed" \in Closing
    BY DEF Closing
  <2> QED BY <1>2, <1>4, <2>1
<1>5. CASE LookForStronger(p)
  <2>1. \/ loop' = Idle /\ NoOrder
        \/ SendClose(p.dir, p.qty, 0, At("swapped"))
        \/ SendClose(p.dir, p.qty, 0, At("reversed"))
    BY <1>5, Zenon DEF LookForStronger
  <2>2. Eased /\ loop' \in {Idle} \cup {At(s) : s \in Closing}
    <3>1. "swapped" \in Closing /\ "reversed" \in Closing
      BY DEF Closing
    <3> QED BY <1>2, <1>3, <2>1, <3>1
  <2>3. \/ plan' = p
        \/ \E r \in Ranks : plan' = [p EXCEPT !.sl = StructuralStop, !.sources = {r}]
    BY <1>5 DEF LookForStronger, Signals
  <2>4. plan' \in Plans /\ plan'.dir = p.dir /\ plan'.hits = p.hits /\ plan'.qty = p.qty
    <3>1. CASE plan' = p
      BY <3>1
    <3>2. ASSUME NEW r \in Ranks, plan' = [p EXCEPT !.sl = StructuralStop, !.sources = {r}]
          PROVE  /\ plan' \in Plans /\ plan'.dir = p.dir
                 /\ plan'.hits = p.hits /\ plan'.qty = p.qty
      <4>1. StructuralStop \in Int /\ {r} \in SUBSET Ranks
        BY DEF StructuralStop
      <4> QED BY <3>2, <4>1 DEF Plans
    <3> QED BY <2>3, <3>1, <3>2
  <2> QED BY <2>2, <2>4
<1> QED BY <1>4, <1>5 DEF Check

\* A step that eases the position, changes the plan within what the position and the
\* file allow, and waits for a close at most.
LEMMA PlanFrame ==
    ASSUME LegacyInv, Eased, level' \in Int, highest' \in Int,
           loop.at \in WithPlan, loop' \in {Idle} \cup {At(step) : step \in Closing},
           plan' \in Plans, file' \in Plans,
           ~Beyond(sold, plan'), file'.dir = plan'.dir, file'.hits <= plan'.hits,
           plan'.qty <= file'.qty, FileFits(file', net, sold), file'.qty <= 2 * Qty
    PROVE  LegacyInv'
<1>1. LegacyTyped'
  <2>1. loop' \in Loops
    <3>1. \A step \in Closing : At(step) \in Loops
      BY DEF LegacyInv, LegacyTyped, At, Closing, Loops, WithPlan
    <3> QED BY <3>1, IdleHarmless
  <2> QED BY <2>1 DEF LegacyTyped, Eased, PlanOrNone
<1>2. Knows(plan', file', net', sold')
  <2>1. PICK p \in Plans, f \in Plans : p = plan' /\ f = file'
    OBVIOUS
  <2>2. Knows(p, f, net', sold')
    BY <2>1, EasedFits
  <2> QED BY <2>1, <2>2
<1>3. loop'.at \notin {"decide", "opened", "sold"}
  <2>1. \A step \in Closing : At(step).at = step
    BY DEF LegacyInv, LegacyTyped, At, Loops
  <2> QED BY <2>1 DEF Idle, Closing
<1>4. Awaits(loop', net', sold') /\ Carries(loop', plan')
  BY <1>3 DEF Awaits, Carries
<1> QED BY <1>1, <1>2, <1>4, EasedSound DEF LegacyInv

\* Whatever drops the plan and the file, with the position left alone.
LEMMA ForgetFrame ==
    ASSUME LegacyInv, Eased, Forget, loop' = Idle, file' \in {file, NoPlan}
    PROVE  LegacyInv'
<1>1. LegacyTyped'
  BY IdleHarmless DEF LegacyInv, LegacyTyped, Eased, Forget, PlanOrNone
<1>2. Knows(plan', file', net', sold')
  <2>1. Knows(plan, file, net', sold')
    BY EasedKnows
  <2>2. NoPlan \notin Plans
    BY PlansAreReal
  <2> QED BY <2>1, <2>2 DEF Knows, Forget
<1> QED BY <1>1, <1>2, IdleHarmless, EasedSound DEF LegacyInv

\* The plan is dropped after three readings without a position.
LEMMA NotSeenKeeps == LegacyInv /\ NotSeen => LegacyInv'
<1> SUFFICES ASSUME LegacyInv, NotSeen
             PROVE  LegacyInv'
    OBVIOUS
<1>1. Eased /\ loop' = Idle
  BY NoOrderEases DEF NotSeen
<1>2. CASE UNCHANGED <<plan, highest, level, file>>
  BY <1>1, <1>2, RestFrame
<1>3. CASE Forget /\ file' = NoPlan
  BY <1>1, <1>3, ForgetFrame
<1> QED BY <1>2, <1>3 DEF NotSeen

\* A close is booked: plan and file go.
LEMMA ClosedKeeps ==
    ASSUME LegacyInv, NEW step, Closed(step)
    PROVE  LegacyInv'
  BY NoOrderEases, ForgetFrame DEF Closed, ForgetsClosed

\* A crash takes the plan and leaves the file.
LEMMA CrashKeeps == LegacyInv /\ Crash => LegacyInv'
  BY NoOrderEases, ForgetFrame DEF Crash

\* A sale is booked: the file now knows of it, and the step goes on.
LEMMA SoldKeeps == LegacyInv /\ Sold => LegacyInv'
<1> SUFFICES ASSUME LegacyInv, Sold
             PROVE  LegacyInv'
    OBVIOUS
<1> DEFINE rest == plan.qty - Share(plan)
<1>1. CASE Forget /\ file' = NoPlan /\ loop' = Idle /\ NoOrder
  BY <1>1, NoOrderEases, ForgetFrame
<1>2. CASE /\ \E p \in {[plan EXCEPT !.qty = rest]} : file' = p /\ Check(p)
           /\ UNCHANGED <<highest, level>>
  <2>1. /\ plan \in Plans /\ plan.hits \in 1..NTp /\ plan.qty \in Nat
        /\ ~Beyond(sold, plan) /\ file.qty \in Nat /\ plan.qty <= file.qty /\ file.qty <= 2 * Qty
    <3>1. plan \in Plans /\ plan.hits \in 1..NTp
      BY DEF LegacyInv, Carries, WithPlan, Sold
    <3>2. file \in Plans /\ ~Beyond(sold, plan) /\ plan.qty <= file.qty /\ file.qty <= 2 * Qty
      BY <3>1 DEF LegacyInv, Knows
    <3> QED BY <3>1, <3>2 DEF Plans
  <2>2. rest \in Nat /\ rest <= plan.qty
    <3>1. Allocations[plan.hits] \in Nat
      BY <2>1, LadderTyped
    <3> QED BY <2>1, <3>1 DEF Share, Least
  <2>3. PICK p : p = [plan EXCEPT !.qty = rest] /\ file' = p /\ Check(p)
    BY <1>2
  <2> HIDE DEF rest
  <2>4. p \in Plans /\ p.hits = plan.hits /\ p.qty = rest
    BY <2>1, <2>2, <2>3 DEF Plans
  <2>5. /\ Eased /\ loop' \in {Idle} \cup {At(step) : step \in Closing}
        /\ plan' \in Plans /\ plan'.dir = p.dir /\ plan'.hits = p.hits /\ plan'.qty = p.qty
    BY <2>3, <2>4, CheckEases
  <2>6. ~Beyond(sold, p) /\ ~Beyond(sold, plan') /\ FileFits(p, net, sold)
    BY <2>1, <2>4, <2>5 DEF Beyond, FileFits
  <2>7. level' \in Int /\ highest' \in Int /\ loop.at \in WithPlan
    BY <1>2 DEF LegacyInv, LegacyTyped, Sold, WithPlan
  <2>8. file'.hits <= plan'.hits /\ plan'.qty <= file'.qty /\ file'.qty <= 2 * Qty
    BY <2>1, <2>2, <2>3, <2>4, <2>5, SumsTyped
  <2>9. FileFits(file', net, sold) /\ file' \in Plans /\ file'.dir = plan'.dir
    BY <2>3, <2>4, <2>5, <2>6
  <2> QED BY <2>5, <2>6, <2>7, <2>8, <2>9, PlanFrame
<1> QED BY <1>1, <1>2, Zenon DEF Sold

\* What the ladder makes of a plan at the price that was read: a plan of the same
\* direction with no fewer targets reached and no more quantity.
LEMMA SyncedPlan ==
    ASSUME LegacyInv, loop.at \in WithPlan, NEW peak \in Int
    PROVE  /\ Synced(peak) \in Plans /\ Synced(peak).dir = plan.dir
           /\ Synced(peak).hits >= plan.hits /\ Synced(peak).qty <= plan.qty
<1>1. plan \in Plans /\ loop.price \in Int /\ loop.seen \in Int
  BY DEF LegacyInv, LegacyTyped, Loops, Carries
<1>2. plan.hits \in 0..NTp /\ plan.sl \in Int /\ plan.qty \in Nat
  BY <1>1 DEF Plans
<1>3. PICK hits \in plan.hits..NTp : hits = TpHits(plan.hits, loop.price)
  BY <1>1, <1>2, TpHitsBounded
<1>4. hits \in 0..NTp /\ hits >= plan.hits
  BY <1>2, <1>3, LadderTyped
<1>5. PICK sl \in Int : sl = TrailedStop(mode, plan.sl, hits, peak)
  BY <1>2, <1>4, TrailedTyped, LadderTyped
<1>6. PICK qty \in Nat : qty = Least(plan.qty, Size(loop.seen)) /\ qty <= plan.qty
  BY <1>1, <1>2, SizeTyped DEF Least
<1>7. Synced(peak) = [plan EXCEPT !.qty = qty, !.hits = hits, !.sl = sl]
  BY <1>3, <1>5, <1>6 DEF Synced
<1> QED BY <1>1, <1>4, <1>6, <1>7 DEF Plans

\* The sale of a target is counted once, and is so large that a file which misses it no
\* longer matches what is left.
LEMMA SaleCounts ==
    ASSUME LegacyInv, Coarse, NEW p \in Plans, p.hits \in 1..NTp, ~Beyond(sold, p),
           NEW f \in Plans, p.qty <= f.qty, f.qty <= 2 * Qty,
           sold[p.hits] = 0, Size(net) <= p.qty, SideOf(net) = p.dir,
           Holds(net - Signed(p.dir, Least(Share(p), Size(net))), 0, p.hits)
    PROVE  /\ net' \in Int
           /\ Sound(net', sold') /\ ~Beyond(sold', p) /\ FileFits(f, net', sold')
<1> DEFINE sale == Least(Share(p), Size(net))
           n == net - Signed(p.dir, sale)
<1>1. /\ net \in Int /\ Size(net) \in Nat /\ Size(net) <= 2 * Qty /\ Qty \in Nat
      /\ sold \in [1..NTp -> 0..1]
  BY SizeTyped, SumsTyped DEF LegacyInv, LegacyTyped, Sound
<1>2. PICK a \in Nat : a = Allocations[p.hits] /\ 5 * a > Qty
  BY LadderTyped DEF Coarse
<1>3. p.qty \in Nat /\ f.qty \in Nat /\ p.dir \in Sides
  BY DEF Plans
<1>4. sale \in Nat /\ sale <= Size(net)
      /\ (sale = a \/ sale = Size(net))
  BY <1>1, <1>2, <1>3 DEF Share, Least
<1> HIDE DEF sale
<1>5. n \in Int /\ Size(n) = Size(net) - sale
  BY <1>1, <1>3, <1>4 DEF SideOf, Size, Signed, Sides
<1>6. Holds(n, 0, p.hits)
  BY DEF sale
<1> HIDE DEF n
<1>7. CASE n = 0
  <2>1. net' = 0 /\ sold' = NothingSold
    BY <1>6, <1>7 DEF Holds
  <2>2. NothingSold \in [1..NTp -> 0..1] /\ \A q \in Plans : ~Beyond(NothingSold, q)
    BY DEF NothingSold, Beyond
  <2>3. Size(0) = 0
    BY SizeTyped
  <2> QED BY <1>1, <2>1, <2>2, <2>3 DEF Sound, FileFits
<1>8. CASE n # 0
  <2>1. net' = n /\ sold' = [sold EXCEPT ![p.hits] = 1]
    <3>1. Least(sold[p.hits] + 1, 2) = 1
      BY DEF Least
    <3>2. p.hits # 0
      OBVIOUS
    <3>3. /\ net' = n
          /\ sold' = [sold EXCEPT ![p.hits] = Least(sold[p.hits] + 1, 2)]
      BY <1>6, <1>8, <3>2, Zenon DEF Holds
    <3> QED BY <3>1, <3>3, Zenon
  <2>2. 10 * Size(n) < 9 * f.qty
    <3>1. sale = a
      BY <1>1, <1>4, <1>5, <1>8, SizeTyped
    <3>2. \A x, y, z, w \in Nat :
             x <= y /\ y <= z /\ z <= 2 * w => (5 * a > w => 10 * (x - a) < 9 * z)
      BY <1>2
    <3>3. 10 * (Size(net) - a) < 9 * f.qty
      BY <1>1, <1>2, <1>3, <3>2
    <3> QED BY <1>5, <3>1, <3>3
  <2>3. Sound(net', sold')
    BY <1>1, <1>4, <1>5, <1>8, <2>1 DEF Sound
  <2>4. ~Beyond(sold', p)
    BY <1>1, <2>1 DEF Beyond
  <2> QED BY <1>5, <2>1, <2>2, <2>3, <2>4 DEF FileFits
<1> QED BY <1>7, <1>8

\* A step with the position in sight: a target sold, or the check.
LEMMA ManageKeeps == LegacyInv /\ Coarse /\ Manage => LegacyInv'
<1> SUFFICES ASSUME LegacyInv, Coarse, Manage
             PROVE  LegacyInv'
    OBVIOUS
<1>1. highest \in Int /\ loop \in Loops /\ loop.price \in Int /\ level \in Int
      /\ loop.at \in WithPlan /\ loop.at = "manage"
  BY DEF LegacyInv, LegacyTyped, Loops, Manage, WithPlan
<1>2. PICK peak \in Int :
        /\ highest' = peak
        /\ \E p \in {Synced(peak)} :
             IF p.hits > plan.hits /\ p.hits < NTp
             THEN plan' = p /\ SendClose(p.dir, Share(p), SoldTarget(p), At("sold"))
             ELSE Check(p)
  <2>1. PICK peak : peak = Max({highest, loop.price})
    OBVIOUS
  <2>2. peak \in Int
    BY <1>1, <2>1, MaxOfTwo
  <2> QED BY <2>1, <2>2, Zenon DEF Manage
<1>3. PICK p : /\ p = Synced(peak)
               /\ IF p.hits > plan.hits /\ p.hits < NTp
                  THEN plan' = p /\ SendClose(p.dir, Share(p), SoldTarget(p), At("sold"))
                  ELSE Check(p)
  BY <1>2
<1>4. p \in Plans /\ p.dir = plan.dir /\ p.hits >= plan.hits /\ p.qty <= plan.qty
  BY <1>1, <1>3, SyncedPlan
<1>5. UNCHANGED <<file, level>> /\ highest' \in Int /\ level' \in Int
  BY <1>1, <1>2 DEF Manage
<1>6. /\ plan \in Plans /\ ~Beyond(sold, plan) /\ FileFits(file, net, sold) /\ file \in Plans
      /\ file.dir = plan.dir /\ file.hits <= plan.hits /\ plan.qty <= file.qty
      /\ file.qty <= 2 * Qty
  <2>1. plan \in Plans
    BY <1>1 DEF LegacyInv, Carries
  <2> QED BY <2>1 DEF LegacyInv, Knows
<1>7. /\ p.hits \in 0..NTp /\ plan.hits \in 0..NTp /\ file.hits \in 0..NTp
      /\ p.qty \in Nat /\ plan.qty \in Nat /\ file.qty \in Nat /\ p.dir \in Sides /\ NTp \in Nat
  BY <1>4, <1>6, LadderTyped DEF Plans
<1>8. ~Beyond(sold, p) /\ file.dir = p.dir /\ file.hits <= p.hits /\ p.qty <= file.qty
  <2>1. \A i \in 1..NTp : i > p.hits => i > plan.hits
    BY <1>4, <1>7
  <2> QED BY <1>4, <1>6, <1>7, <2>1 DEF Beyond
<1>9. CASE Check(p)
  <2>1. /\ Eased /\ loop' \in {Idle} \cup {At(step) : step \in Closing}
        /\ plan' \in Plans /\ plan'.dir = p.dir /\ plan'.hits = p.hits /\ plan'.qty = p.qty
    BY <1>4, <1>9, CheckEases
  <2>2. ~Beyond(sold, plan')
    BY <1>8, <2>1 DEF Beyond
  <2> QED BY <1>1, <1>5, <1>6, <1>8, <2>1, <2>2, PlanFrame
<1>10. CASE /\ p.hits > plan.hits /\ plan' = p
            /\ SendClose(p.dir, Share(p), SoldTarget(p), At("sold"))
  <2>1. Share(p) \in Nat /\ p.hits \in 1..NTp
    <3>1. p.hits \in 1..NTp
      BY <1>7, <1>10
    <3> QED BY <1>7, <3>1, LadderTyped DEF Share, Least
  <2>2. loop' \in {At("sold"), Idle}
    BY <1>10, Zenon DEF SendClose
  <2>3. loop' \in Loops /\ Carries(loop', p) /\ loop'.at \in {"sold", "idle"}
    BY <1>1, <1>4, <2>1, <2>2, IdleHarmless DEF At, Loops, WithPlan, Carries, Idle
  <2>4. CASE Eased
    <3>1. Sound(net', sold')
      BY <2>4, EasedSound
    <3>2. Knows(p, file, net', sold')
      BY <1>4, <1>6, <1>8, <2>4, EasedFits
    <3>3. LegacyTyped'
      BY <1>4, <1>5, <1>6, <1>10, <2>3, <2>4 DEF LegacyTyped, PlanOrNone, Eased
    <3> QED BY <1>5, <1>10, <2>3, <3>1, <3>2, <3>3 DEF LegacyInv, Awaits
  <2>5. CASE SideOf(net) = p.dir /\ Size(net) <= p.qty
             /\ Holds(net - Signed(p.dir, Least(Share(p), Size(net))), 0, p.hits)
    <3>1. sold[p.hits] = 0
      BY <1>6, <1>7, <1>10, <2>1 DEF Beyond
    <3>2. PICK f \in Plans : f = file
      BY <1>6
    <3>3. net' \in Int /\ Sound(net', sold') /\ ~Beyond(sold', p)
          /\ FileFits(f, net', sold')
      BY <1>4, <1>6, <1>8, <2>1, <2>5, <3>1, <3>2, SaleCounts
    <3>4. Knows(p, f, net', sold')
      BY <1>6, <1>8, <3>2, <3>3 DEF Knows
    <3>5. LegacyTyped'
      BY <1>4, <1>5, <1>6, <1>10, <2>3, <3>3 DEF LegacyTyped, PlanOrNone
    <3> QED BY <1>5, <1>10, <2>3, <3>2, <3>3, <3>4, <3>5 DEF LegacyInv, Awaits
  <2>6. CASE SendClose(p.dir, Share(p), 0, At("sold"))
    <3>1. Eased
      BY <1>7, <2>1, <2>6, CloseEases
    <3> QED BY <2>4, <3>1
  <2>7. CASE SendClose(p.dir, Share(p), p.hits, At("sold")) /\ Size(net) <= p.qty
    <3>1. \/ NoOrder
          \/ /\ SideOf(net) = p.dir
             /\ Holds(net - Signed(p.dir, Least(Share(p), Size(net))), 0, p.hits)
      BY <2>7, Zenon DEF SendClose, Outcomes
    <3> QED BY <2>4, <2>5, <2>7, <3>1, NoOrderEases
  <2> QED BY <1>10, <2>6, <2>7 DEF SoldTarget
<1> QED BY <1>3, <1>9, <1>10, Zenon

-----------------------------------------------------------------------------
(* Entries, starts and trades by hand *)

\* A position with no sale behind it suits every plan and file of its size.
LEMMA NothingBeyond ==
    NothingSold \in [1..NTp -> 0..1] /\ \A q : ~Beyond(NothingSold, q)
  BY DEF NothingSold, Beyond

\* The bot enters, or does not, after a reading that found no position.
LEMMA DecideKeeps == LegacyInv /\ Decide => LegacyInv'
<1> SUFFICES ASSUME LegacyInv, Decide
             PROVE  LegacyInv'
    OBVIOUS
<1>1. UNCHANGED <<level, highest, plan, file>>
  BY DEF Decide
<1>2. CASE loop' = Idle /\ NoOrder
  BY <1>1, <1>2, NoOrderEases, RestFrame
<1>3. ASSUME NEW d \in Sides, NEW sources \in SUBSET Ranks,
             SendEntry(NewPlan(d, sources))
      PROVE  LegacyInv'
  <2>1. PICK p : p = NewPlan(d, sources)
    OBVIOUS
  <2>2. p \in Plans /\ p.hits = 0 /\ p.qty = Qty /\ Qty \in Nat /\ p.dir \in Sides
    BY <2>1, SumsTyped, LadderTyped DEF NewPlan, Plans
  <2>3. loop' \in {Idle, [Idle EXCEPT !.at = "opened", !.plan = p]}
    BY <1>3, <2>1, Zenon DEF SendEntry
  <2>4. loop' \in Loops /\ Carries(loop', plan)
        /\ (loop'.at = "opened" => loop'.plan = p) /\ loop'.at \in {"idle", "opened"}
    <3>1. CASE loop' = Idle
      BY <3>1, IdleHarmless DEF Idle
    <3>2. CASE loop' = [at |-> "opened", price |-> 0, seen |-> 0, plan |-> p]
      BY <2>2, <3>2 DEF Loops, PlanOrNone, Carries, WithPlan
    <3> QED BY <2>3, <3>1, <3>2 DEF Idle
  <2>5. NoOrder \/ Holds(net + Signed(p.dir, p.qty), 1, 0)
    BY <1>3, <2>1, Zenon DEF SendEntry
  <2>6. sold = NothingSold /\ Size(net) <= Qty /\ net \in Int
    BY DEF LegacyInv, LegacyTyped, Awaits, Decide, FindsForeign
  <2>7. CASE NoOrder
    <3>1. Eased
      BY <2>7, NoOrderEases
    <3>2. Awaits(loop', net', sold')
      BY <2>2, <2>4, <2>6, <2>7 DEF Awaits, NoOrder
    <3>3. level' \in Int /\ highest' \in Int
      BY <1>1 DEF LegacyInv, LegacyTyped
    <3> QED BY <1>1, <2>4, <3>1, <3>2, <3>3, LoopFrame
  <2>8. CASE Holds(net + Signed(p.dir, p.qty), 1, 0)
    <3>1. PICK n \in Int : n = net + Signed(p.dir, p.qty)
      BY <2>2, <2>6 DEF Signed
    <3>2. Size(n) <= 2 * Qty /\ Size(n) \in Nat
      BY <2>2, <2>6, <3>1 DEF Size, Signed, Sides
    <3>3. net' = n /\ sold' = NothingSold
      BY <2>6, <2>8, <3>1 DEF Holds
    <3>4. Sound(net', sold')
      BY <3>2, <3>3, NothingBeyond DEF Sound
    <3>5. Awaits(loop', net', sold')
      BY <2>2, <2>4, <3>3 DEF Awaits
    <3>6. Knows(plan', file', net', sold')
      BY <1>1, <2>6, <3>3, NothingBeyond DEF LegacyInv, Knows, FileFits
    <3>7. LegacyTyped'
      BY <1>1, <2>4, <3>1, <3>3 DEF LegacyInv, LegacyTyped
    <3> QED BY <1>1, <2>4, <3>4, <3>5, <3>6, <3>7 DEF LegacyInv
  <2> QED BY <2>5, <2>7, <2>8
<1> QED BY <1>2, <1>3, Zenon DEF Decide

\* The plan of an entry is noted and written to the file.
LEMMA OpenedKeeps == LegacyInv /\ Opened => LegacyInv'
<1> SUFFICES ASSUME LegacyInv, Opened
             PROVE  LegacyInv'
    OBVIOUS
<1>1. sold = NothingSold /\ loop.plan \in Plans /\ loop.plan.hits = 0 /\ loop.plan.qty = Qty
  BY DEF LegacyInv, Awaits, Opened
<1>2. PICK p \in Plans : p = loop.plan /\ p.qty = Qty
  BY <1>1
<1>3. plan' = p /\ file' = p /\ loop' = Idle /\ highest' = 0 /\ level' = 0 /\ NoOrder
  BY <1>2 DEF Opened
<1>4. Eased /\ net' = net /\ sold' = sold
  BY <1>3, NoOrderEases DEF NoOrder
<1>5. Qty <= 2 * Qty /\ p.hits <= p.hits /\ Qty <= Qty
  BY SumsTyped DEF Plans
<1>6. Knows(plan', file', net', sold')
  BY <1>1, <1>2, <1>3, <1>4, <1>5, NothingBeyond DEF Knows, FileFits
<1>7. LegacyTyped'
  BY <1>2, <1>3, <1>4, IdleHarmless DEF LegacyTyped, Eased, PlanOrNone
<1> QED BY <1>3, <1>4, <1>6, <1>7, EasedSound, IdleHarmless DEF LegacyInv

\* The user opens a position where none is, or reduces or closes the one there is.
LEMMA ByHandKeeps == LegacyInv /\ ByHand => LegacyInv'
<1> SUFFICES ASSUME LegacyInv, NEW n \in -Qty..Qty, TradesByHand(n)
             PROVE  LegacyInv'
    BY DEF ByHand
<1>1. UNCHANGED <<level, loop, plan, highest, file>>
  BY DEF TradesByHand
<1>2. net \in Int /\ n \in Int /\ Qty \in Nat /\ Size(n) <= Qty /\ Size(n) <= 2 * Qty
     
  BY SumsTyped DEF LegacyInv, LegacyTyped, Sound, Size
<1>3. net' = n /\ IF n = 0 THEN sold' = NothingSold
                  ELSE sold' = sold
  BY <1>2 DEF TradesByHand, Holds
<1>4. CASE n = 0 \/ (n # 0 /\ net # 0)
  <2>1. Eased
    <3>1. CASE n = 0
      BY <1>3, <3>1 DEF Eased
    <3>2. CASE n # 0 /\ net # 0
      <4>1. SideOf(n) = SideOf(net) /\ Size(n) < Size(net)
        BY <3>2 DEF TradesByHand
      <4>2. Size(n) <= Size(net)
        BY <1>2, <4>1, SizeTyped
      <4> QED BY <1>2, <1>3, <3>2, <4>1, <4>2 DEF Eased
    <3> QED BY <1>4, <3>1, <3>2
  <2>2. loop \in Loops /\ Carries(loop, plan) /\ level' \in Int /\ highest' \in Int
    BY <1>1 DEF LegacyInv, LegacyTyped
  <2> QED BY <1>1, <2>1, <2>2, EasedAwaits, LoopFrame
<1>5. CASE n # 0 /\ net = 0
  <2>1. net' = n /\ sold' = NothingSold
    BY <1>3, <1>5 DEF LegacyInv, Sound
  <2>2. Sound(net', sold')
    BY <1>2, <2>1, NothingBeyond DEF Sound
  <2>3. Awaits(loop', net', sold')
    BY <1>1, <1>2, <2>1 DEF LegacyInv, Awaits
  <2>4. Knows(plan', file', net', sold')
    BY <1>1, <2>1, NothingBeyond DEF LegacyInv, Knows, FileFits
  <2>5. LegacyTyped' /\ Carries(loop', plan')
    BY <1>1, <1>2, <2>1 DEF LegacyInv, LegacyTyped
  <2> QED BY <2>2, <2>3, <2>4, <2>5 DEF LegacyInv
<1> QED BY <1>4, <1>5

\* A start takes up the position its file was written for, and only with every sale known.
LEMMA StartKeeps == LegacyInv /\ Start => LegacyInv'
<1> SUFFICES ASSUME LegacyInv, Start
             PROVE  LegacyInv'
    OBVIOUS
<1>1. loop' = loop /\ Eased /\ net' = net /\ sold' = sold /\ Restore
  BY NoOrderEases DEF Start, NoOrder
<1>2. loop \in Loops /\ Carries(loop, plan) /\ level \in Int /\ highest \in Int /\ net \in Int
  BY DEF LegacyInv, LegacyTyped
<1>3. CASE UNCHANGED <<plan, highest, level, file>>
  BY <1>1, <1>2, <1>3, EasedAwaits, LoopFrame
<1>4. plan \notin Plans => loop.at \notin WithPlan
  BY <1>2 DEF Carries
<1>5. CASE ~HasPosition /\ file' = NoPlan /\ UNCHANGED <<plan, highest, level>>
  <2>1. plan = NoPlan /\ NoPlan \notin Plans
    BY <1>5, PlansAreReal DEF HasPosition
  <2>2. LegacyTyped'
    BY <1>1, <1>2, <1>5 DEF LegacyInv, LegacyTyped, PlanOrNone
  <2>3. Knows(plan', file', net', sold')
    BY <1>5, <2>1, NoneKnows
  <2>4. Awaits(loop', net', sold') /\ Carries(loop', plan')
    BY <1>1, <1>2, <1>5, EasedAwaits
  <2> QED BY <1>1, <2>2, <2>3, <2>4, EasedSound DEF LegacyInv
<1>6. CASE /\ ~HasPosition /\ file # NoPlan /\ Matches(net)
           /\ plan' = [file EXCEPT !.qty = Size(net)] /\ file' = plan'
           /\ highest' = 0 /\ level' = 0
  <2>1. file \in Plans /\ file.qty \in Nat /\ FileFits(file, net, sold)
    <3>1. file \in Plans
      BY <1>6 DEF LegacyInv, LegacyTyped, PlanOrNone
    <3> QED BY <3>1 DEF LegacyInv, Knows, Plans
  <2>2. Size(net) \in Nat /\ Size(net) <= 2 * Qty /\ Qty \in Nat
    BY <1>2, SizeTyped, SumsTyped DEF LegacyInv, Sound
  <2>3. SideOf(net) = file.dir /\ ~(10 * Size(net) < 9 * file.qty)
    <3>1. \A x, y \in Nat : 10 * Size(x - y) <= y => ~(10 * x < 9 * y)
      BY DEF Size
    <3> QED BY <1>6, <2>1, <2>2, <3>1 DEF Matches
  <2>4. ~Beyond(sold, file)
    BY <2>1, <2>3 DEF FileFits
  <2>5. PICK p : p = [file EXCEPT !.qty = Size(net)]
    OBVIOUS
  <2>6. p \in Plans /\ p.hits = file.hits /\ p.qty = Size(net) /\ p.hits \in Int
    BY <2>1, <2>2, <2>5 DEF Plans
  <2>7. ~Beyond(sold, p)
    BY <2>4, <2>6 DEF Beyond
  <2>8. p.hits <= p.hits /\ p.qty <= p.qty /\ p.qty <= 2 * Qty
    BY <2>2, <2>6
  <2>9. Knows(plan', file', net', sold')
    BY <1>1, <1>6, <2>5, <2>6, <2>7, <2>8 DEF Knows, FileFits
  <2>10. LegacyTyped'
    BY <1>1, <1>2, <1>6, <2>5, <2>6 DEF LegacyTyped, PlanOrNone
  <2>11. Awaits(loop', net', sold') /\ Carries(loop', plan')
    <3>1. plan \notin Plans
      BY <1>6, PlansAreReal DEF HasPosition
    <3>2. loop'.at \notin WithPlan
      BY <1>1, <1>4, <3>1
    <3> QED BY <1>1, <3>2, EasedAwaits DEF Carries, WithPlan
  <2> QED BY <1>1, <2>9, <2>10, <2>11, EasedSound DEF LegacyInv
<1> QED BY <1>1, <1>3, <1>5, <1>6, Zenon DEF Restore

-----------------------------------------------------------------------------
(* The theorems about the bot *)

\* The bot begins without a position, a plan or a file.
LEMMA LegacyInit == Init => LegacyInv
<1> SUFFICES ASSUME Init
             PROVE  LegacyInv
    OBVIOUS
<1>1. net = 0 /\ level = 0 /\ loop = Idle /\ plan = NoPlan /\ highest = 0
      /\ file = NoPlan /\ sold = NothingSold
  BY DEF Init
<1>2. LegacyTyped
  BY <1>1, IdleHarmless DEF LegacyTyped, PlanOrNone
<1>3. Size(0) = 0 /\ 0 <= 2 * Qty
  BY SizeTyped, SumsTyped
<1> QED BY <1>1, <1>2, <1>3, IdleHarmless, NoneKnows, NothingBeyond DEF LegacyInv, Sound

\* Every step keeps the invariant, when a reading before an entry is never taken for "no
\* position" because it timed out.
LEMMA LegacyNext ==
    ASSUME Coarse, ~Timeouts, LegacyInv, [Next]_vars
    PROVE  LegacyInv'
<1>1. CASE BeginStep \/ NotSeen \/ Manage \/ Sold
  BY <1>1, BeginKeeps, NotSeenKeeps, ManageKeeps, SoldKeeps
<1>2. CASE \/ ReadPosition("position", "manage", TRUE)
           \/ ReadPosition("external", "decide", Timeouts)
  BY <1>2, ReadKeeps
<1>3. CASE \E step \in {"closed", "swapped", "reversed"} : Closed(step)
  BY <1>3, ClosedKeeps
<1>4. CASE SeeForeign \/ Decide \/ Opened
  BY <1>4, ForeignKeeps, DecideKeeps, OpenedKeeps
<1>5. CASE (\E to \in Levels : PriceMoves(to)) \/ BarEnds \/ Stop
  BY <1>5, OutsideKeeps
<1>6. CASE ByHand \/ Start \/ Crash
  BY <1>6, ByHandKeeps, StartKeeps, CrashKeeps
<1>7. CASE UNCHANGED vars
  <2>1. Eased
    BY <1>7, NoOrderEases DEF vars, NoOrder
  <2>2. loop \in Loops /\ Carries(loop, plan) /\ level \in Int /\ highest \in Int
    BY DEF LegacyInv, LegacyTyped
  <2>3. UNCHANGED <<plan, file, level, highest, loop>>
    BY <1>7 DEF vars
  <2> QED BY <2>1, <2>2, <2>3, EasedAwaits, LoopFrame
<1> QED BY <1>1, <1>2, <1>3, <1>4, <1>5, <1>6, <1>7, Zenon DEF Next, LoopStep

\* No target of a position of the bot is sold twice, whatever answers are lost, where the
\* bot is stopped or crashes, and whatever the user does: a file that has missed a sale
\* does not match the position that is left.
THEOREM SoldOnceHolds ==
    ASSUME Coarse, ~Timeouts
    PROVE  Spec => []SoldOnce
<1>1. LegacyInv => SoldOnce
  BY DEF LegacyInv, Sound, SoldOnce
<1>2. LegacyInv /\ [Next]_vars => LegacyInv'
  BY LegacyNext
<1> QED BY <1>1, <1>2, LegacyInit, PTL DEF Spec


-----------------------------------------------------------------------------
(* One entry, for any targets *)

EntryInv ==
    /\ DOMAIN loop = {"at", "price", "seen", "plan"}
    /\ entries \in 0..1
    /\ net = 0 => entries = 0
    /\ loop.at = "decide" /\ loop.seen = 0 => entries = 0

\* Nothing but an entry order is carried out.
NoEntry == NoOrder \/ \E n, target : Holds(n, 0, target)

\* A step without an entry, after which the loop is not about to decide on an entry
\* unless it was or has just read the position.
LEMMA NoEntryKeeps ==
    ASSUME EntryInv, NoEntry, DOMAIN loop' = {"at", "price", "seen", "plan"},
           \/ loop' = loop
           \/ loop'.at # "decide"
           \/ loop'.seen = net /\ NoOrder
    PROVE  EntryInv'
<1>1. entries' \in {0, entries} /\ (net' = 0 => entries' = 0)
  <2>1. CASE NoOrder
    BY <2>1 DEF NoOrder, EntryInv
  <2>2. ASSUME NEW n, NEW target, Holds(n, 0, target)
        PROVE  entries' \in {0, entries} /\ (net' = 0 => entries' = 0)
    <3>1. entries + 0 = entries
      BY DEF EntryInv
    <3> QED BY <2>2, <3>1 DEF Holds
  <2> QED BY <2>1, <2>2 DEF NoEntry
<1>2. CASE loop' = loop \/ loop'.at # "decide"
  BY <1>1, <1>2 DEF EntryInv
<1>3. CASE loop'.seen = net /\ NoOrder
  BY <1>1, <1>3 DEF EntryInv, NoOrder
<1> QED BY <1>2, <1>3

\* Where the loop may go on after a step without an entry.
LEMMA LoopKept ==
    ASSUME EntryInv
    PROVE  /\ DOMAIN Idle = {"at", "price", "seen", "plan"} /\ Idle.at = "idle"
           /\ \A step : DOMAIN At(step) = {"at", "price", "seen", "plan"} /\ At(step).at = step
  BY DEF EntryInv, Idle, At

\* A step that carries a close out, or nothing, and goes on elsewhere than to an entry.
LEMMA CloseIsNoEntry ==
    ASSUME EntryInv, NEW d, NEW qty, NEW target, NEW then,
           SendClose(d, qty, target, then),
           then \in {Idle, At("sold"), At("closed"), At("swapped"), At("reversed")}
    PROVE  EntryInv'
<1>1. NoEntry /\ loop' \in {then, Idle}
  BY Zenon DEF SendClose, NoEntry
<1> QED BY <1>1, LoopKept, NoEntryKeeps

\* The check of a plan enters nothing.
LEMMA CheckIsNoEntry ==
    ASSUME EntryInv, NEW p, Check(p)
    PROVE  EntryInv'
<1>1. \/ loop' = Idle /\ NoOrder
      \/ \E then \in {At("closed"), At("swapped"), At("reversed")} : SendClose(p.dir, p.qty, 0, then)
  BY Zenon DEF Check, LookForStronger
<1>2. CASE loop' = Idle /\ NoOrder
  BY <1>2, LoopKept, NoEntryKeeps DEF NoEntry
<1>3. ASSUME NEW then \in {At("closed"), At("swapped"), At("reversed")},
             SendClose(p.dir, p.qty, 0, then)
      PROVE  EntryInv'
  BY <1>3, CloseIsNoEntry
<1> QED BY <1>1, <1>2, <1>3

\* The bot enters only where it has read that there is no position, and no entry of its
\* own has come to pass since.
LEMMA EntryNext ==
    ASSUME ~Timeouts, EntryInv, [Next]_vars
    PROVE  EntryInv'
<1>1. CASE BeginStep
  <2>1. DOMAIN loop' = {"at", "price", "seen", "plan"} /\ loop'.at # "decide"
    BY <1>1 DEF BeginStep, Idle
  <2> QED BY <1>1, <2>1, NoEntryKeeps DEF BeginStep, NoEntry
<1>2. CASE \/ ReadPosition("position", "manage", TRUE)
           \/ ReadPosition("external", "decide", Timeouts)
  <2>1. NoOrder
    BY <1>2 DEF ReadPosition
  <2>2. loop' \in {Idle, At("manage"), [loop EXCEPT !.at = "manage", !.seen = net],
                   [loop EXCEPT !.at = "decide", !.seen = net]}
    BY <1>2 DEF ReadPosition
  <2>3. DOMAIN loop' = {"at", "price", "seen", "plan"} /\ (loop'.at = "decide" => loop'.seen = net)
    BY <2>2, LoopKept DEF EntryInv
  <2> QED BY <2>1, <2>3, NoEntryKeeps DEF NoEntry
<1>3. CASE Manage
  <2>1. \E p, target : SendClose(p.dir, Share(p), target, At("sold")) \/ Check(p)
    BY <1>3, Zenon DEF Manage
  <2> QED BY <2>1, CloseIsNoEntry, CheckIsNoEntry
<1>4. CASE Sold
  <2>1. (loop' = Idle /\ NoOrder) \/ \E p : Check(p)
    BY <1>4, Zenon DEF Sold
  <2> QED BY <2>1, CheckIsNoEntry, LoopKept, NoEntryKeeps DEF NoEntry
<1>5. CASE SeeForeign
  <2>1. (loop' = Idle /\ NoOrder) \/ \E d, q : SendClose(d, q, 0, Idle)
    BY <1>5, Zenon DEF SeeForeign
  <2> QED BY <2>1, CloseIsNoEntry, LoopKept, NoEntryKeeps DEF NoEntry
<1>6. CASE \/ NotSeen \/ Opened \/ Stop \/ Crash
           \/ \E step \in {"closed", "swapped", "reversed"} : Closed(step)
  <2>1. loop' = Idle /\ NoOrder
    BY <1>6, Zenon DEF NotSeen, Opened, Stop, Crash, Closed
  <2> QED BY <2>1, LoopKept, NoEntryKeeps DEF NoEntry
<1>7. CASE Decide
  <2>1. entries = 0
    BY <1>7 DEF EntryInv, Decide, FindsForeign
  <2>2. \/ loop' = Idle /\ NoOrder
        \/ \E p : SendEntry(p)
    BY <1>7, Zenon DEF Decide
  <2>3. ASSUME NEW p, SendEntry(p)
        PROVE  EntryInv'
    <3>1. loop' \in {Idle, [Idle EXCEPT !.at = "opened", !.plan = p]}
      BY <2>3, Zenon DEF SendEntry
    <3>2. DOMAIN loop' = {"at", "price", "seen", "plan"} /\ loop'.at # "decide"
      <4>1. CASE loop' = Idle
        BY <4>1 DEF Idle
      <4>2. CASE loop' = [Idle EXCEPT !.at = "opened", !.plan = p]
        BY <4>2 DEF Idle
      <4> QED BY <3>1, <4>1, <4>2
    <3>3. NoOrder \/ \E n : Holds(n, 1, 0)
      BY <2>3, Zenon DEF SendEntry
    <3>4. entries' \in 0..1 /\ (net' = 0 => entries' = 0)
      BY <2>1, <3>3 DEF EntryInv, NoOrder, Holds
    <3> QED BY <3>2, <3>4 DEF EntryInv
  <2> QED BY <2>2, <2>3, LoopKept, NoEntryKeeps DEF NoEntry
<1>8. CASE ByHand \/ Start \/ BarEnds \/ (\E to \in Levels : PriceMoves(to)) \/ UNCHANGED vars
  <2>1. loop' = loop /\ NoEntry
    BY <1>8, Zenon DEF ByHand, TradesByHand, Start, BarEnds, PriceMoves, vars, NoEntry, NoOrder
  <2> QED BY <2>1, NoEntryKeeps DEF EntryInv
<1> QED BY <1>1, <1>2, <1>3, <1>4, <1>5, <1>6, <1>7, <1>8, Zenon DEF Next, LoopStep

\* The bot never puts a second entry on top of its own position, whether it has lost the
\* answer of the first, was stopped while it was on its way or has crashed, as long as a
\* reading that times out is not taken for "no position".
THEOREM OneEntryHolds ==
    ASSUME ~Timeouts
    PROVE  Spec => []OneEntry
<1>1. Init => EntryInv
  BY DEF Init, EntryInv, Idle
<1>2. EntryInv /\ [Next]_vars => EntryInv'
  BY EntryNext
<1>3. EntryInv => OneEntry
  BY DEF EntryInv, OneEntry
<1> QED BY <1>1, <1>2, <1>3, PTL DEF Spec

-----------------------------------------------------------------------------
(* The backtest: its stop *)

Trades == [dir : Sides, entry : Int, since : Int, sl : Int, hits : Nat, highest : Int]
Bars == [o : Int, h : Int, l : Int, c : Int]

\* A trade with at most p levels behind it, entered at the minute m or before: its stop is
\* a level or more below the best of them.
Follows(t, p, m) ==
    /\ t.sl <= p - 1 /\ t.hits <= p /\ t.highest <= p
    /\ t.hits < NTp /\ t.since <= m

\* The smaller of two numbers is one of them.
LEMMA MinOfTwo ==
    ASSUME NEW a \in Int, NEW b \in Int
    PROVE  Min({a, b}) \in {a, b}
<1>1. \E x \in {a, b} : \A y \in {a, b} : x =< y
  <2>1. CASE a <= b
    BY <2>1
  <2>2. CASE ~(a <= b)
    BY <2>2
  <2> QED BY <2>1, <2>2
<1> QED BY <1>1, Zenon DEF Min

\* What the stop trails to is below what has been reached, in every mode.
LEMMA TrailsBelow ==
    ASSUME NEW m, NEW sl \in Int, NEW hits \in Int, NEW high \in Int, NEW p \in Nat,
           sl <= p - 1, hits <= p, high <= p
    PROVE  TrailedStop(m, sl, hits, high) <= p - 1
<1>1. NewStop(m, sl, hits, high) \in Int
  BY DEF NewStop
<1>2. TriggerTarget \in Int /\ TriggerTarget >= 1
  BY LadderAssumption, LadderTyped
<1>3. NewStop(m, sl, hits, high) <= p - 1
  <2>1. hits >= TriggerTarget => 0 <= p - 1
    BY <1>2
  <2>2. hits - 1 <= p - 1 /\ hits - 2 <= p - 1 /\ high - 1 <= p - 1
    OBVIOUS
  <2> QED BY <2>1, <2>2 DEF NewStop
<1> QED BY <1>1, <1>3, MaxOfTwo DEF TrailedStop

\* Levels along a trade are numbers.
LEMMA AlongTyped ==
    ASSUME NEW t \in Trades, NEW x \in Bars
    PROVE  /\ Top(t, x) \in Int /\ Bottom(t, x) \in Int
           /\ Along(t, x.o) \in Int /\ Along(t, x.c) \in Int
  BY DEF Trades, Bars, Top, Bottom, Along

\* Trailing changes nothing but the stop, and keeps it below what has been reached.
LEMMA TrailedFollows ==
    ASSUME NEW t \in Trades, NEW high \in Int, NEW p \in Nat, NEW m,
           Follows(t, p, m), high <= p
    PROVE  /\ Trailed(t, high) \in Trades /\ Follows(Trailed(t, high), p, m)
           /\ Trailed(t, high).hits = t.hits /\ Trailed(t, high).dir = t.dir
           /\ Trailed(t, high).since = t.since /\ Trailed(t, high).highest = t.highest
           /\ Trailed(t, high).entry = t.entry
<1>1. t.sl \in Int /\ t.hits \in Int
  BY DEF Trades
<1>2. PICK sl \in Int : sl = TrailedStop(trailing, t.sl, t.hits, high) /\ sl <= p - 1
  BY <1>1, TrailedTyped, TrailsBelow DEF Follows
<1>3. Trailed(t, high) = [t EXCEPT !.sl = sl]
  BY <1>2 DEF Trailed
<1>4. Trailed(t, high) \in Trades /\ Trailed(t, high).sl = sl
      /\ Trailed(t, high).hits = t.hits /\ Trailed(t, high).dir = t.dir
      /\ Trailed(t, high).since = t.since /\ Trailed(t, high).highest = t.highest
      /\ Trailed(t, high).entry = t.entry
  BY <1>3 DEF Trades
<1> QED BY <1>2, <1>4 DEF Follows

\* The levels of an exit are numbers, and a target is sold only when the bar reached it.
LEMMA ExitsTyped ==
    ASSUME NEW t \in Trades, NEW x \in Bars, NEW e, e = Exits(t, x)
    PROVE  /\ e.reason \in {"SL", "BE", "TP", "TP4", "none"} /\ e.level \in Int
           /\ e.reason = "TP" => t.hits + 1 <= Top(t, x) /\ t.hits + 1 # NTp
<1>1. /\ t.sl \in Int /\ t.hits + 1 \in Int
      /\ Top(t, x) \in Int /\ Bottom(t, x) \in Int /\ Along(t, x.o) \in Int
  BY AlongTyped DEF Trades
<1>2. Min({Along(t, x.o), t.sl}) \in Int /\ Max({Along(t, x.o), t.hits + 1}) \in Int
  BY <1>1, MinOfTwo, MaxOfTwo
<1>3. \/ \E r \in {"SL", "BE"} : e = [reason |-> r, level |-> Min({Along(t, x.o), t.sl})]
      \/ /\ Top(t, x) >= t.hits + 1
         /\ e = [reason |-> IF t.hits + 1 = NTp THEN "TP4" ELSE "TP",
                 level |-> Max({Along(t, x.o), t.hits + 1})]
      \/ e = [reason |-> "none", level |-> 0]
  BY Zenon DEF Exits
<1>4. CASE \E r \in {"SL", "BE"} : e = [reason |-> r, level |-> Min({Along(t, x.o), t.sl})]
  BY <1>2, <1>4
<1>5. CASE /\ Top(t, x) >= t.hits + 1
           /\ e = [reason |-> IF t.hits + 1 = NTp THEN "TP4" ELSE "TP",
                   level |-> Max({Along(t, x.o), t.hits + 1})]
  BY <1>1, <1>2, <1>5
<1>6. CASE e = [reason |-> "none", level |-> 0]
  BY <1>6
<1> QED BY <1>3, <1>4, <1>5, <1>6

\* A trade that survives the bar is where it was or a target further, and follows the
\* best level with the bar's own.
LEMMA SurvivorFollows ==
    ASSUME NEW t \in Trades, NEW x \in Bars, NEW p \in Nat, NEW m, Follows(t, p, m),
           NEW reason \in {"TP", "none"},
           reason = "TP" => t.hits + 1 <= Top(t, x) /\ t.hits + 1 # NTp
    PROVE  /\ Survivor(t, x, reason) \in Trades
           /\ Survivor(t, x, reason).since = t.since
           /\ Max({p, Top(t, x)}) \in Nat
           /\ Follows(Survivor(t, x, reason), Max({p, Top(t, x)}), m)
<1> USE LadderTyped
<1>1. t.highest \in Int /\ t.hits \in Nat /\ t.sl \in Int /\ Top(t, x) \in Int
  BY AlongTyped DEF Trades
<1>2. PICK q \in Nat : q = Max({p, Top(t, x)}) /\ q >= p /\ q >= Top(t, x)
  BY <1>1, MaxOfTwo
<1>3. t.sl <= q - 1 /\ t.hits <= q /\ t.highest <= q /\ t.hits < NTp /\ t.since <= m
  BY <1>1, <1>2 DEF Follows
<1>4. CASE reason = "TP"
  <2>1. PICK u : u = [t EXCEPT !.hits = t.hits + 1]
    OBVIOUS
  <2>2. u \in Trades /\ u.hits = t.hits + 1 /\ u.sl = t.sl /\ u.highest = t.highest
        /\ u.since = t.since
    BY <1>1, <2>1 DEF Trades
  <2>3. Follows(u, q, m)
    BY <1>1, <1>2, <1>3, <1>4, <2>2 DEF Follows
  <2>4. Survivor(t, x, reason) = Trailed(u, t.highest)
    BY <1>4, <2>1 DEF Survivor, SoldPart
  <2>5. /\ Trailed(u, t.highest) \in Trades /\ Follows(Trailed(u, t.highest), q, m)
        /\ Trailed(u, t.highest).since = u.since
    BY <1>1, <1>3, <2>2, <2>3, TrailedFollows
  <2> QED BY <1>2, <2>2, <2>4, <2>5
<1>5. CASE reason = "none"
  <2>1. PICK h \in Int : h = Max({t.highest, Top(t, x)}) /\ h <= q
    BY <1>1, <1>2, <1>3, MaxOfTwo
  <2>2. Survivor(t, x, reason) = [t EXCEPT !.highest = h]
    BY <1>5, <2>1 DEF Survivor
  <2>3. PICK u : u = [t EXCEPT !.highest = h]
    OBVIOUS
  <2>4. u \in Trades /\ u.hits = t.hits /\ u.sl = t.sl /\ u.highest = h /\ u.since = t.since
    BY <2>3 DEF Trades
  <2>5. Follows(u, q, m)
    BY <1>3, <2>1, <2>4 DEF Follows
  <2> QED BY <1>2, <2>2, <2>3, <2>4, <2>5
<1> QED BY <1>4, <1>5

-----------------------------------------------------------------------------
(* The backtest: its account *)

Accounts == [lost : Int, stopped : BOOLEAN, pause : Nat, consec : Nat]
Rows == [row : Nat, at : Int]

\* Account r at minute m, with the row of stop losses l: what it counts is the row since
\* the last pause began, and while that has just begun it is at least as long as what is
\* left of it.
InRow(r, l, m) ==
    /\ \E k \in Nat : l.row = k * PauseAfter + r.consec
    /\ r.consec < PauseAfter
    /\ l.row > 0 /\ r.consec = 0 => r.pause >= PauseMinutes - (m - l.at)
    /\ l.at <= m

\* A row that is a multiple of the threshold has none left over.
LEMMA RowLeft == \A k, a, c \in Nat : a > 0 /\ c < a => (k * a + c) % a = c
  BY Z3

\* The settings of the pause are numbers.
LEMMA PauseTyped == PauseAfter \in Nat \ {0} /\ PauseMinutes \in Nat \ {0} /\ MaxLoss \in Nat
  BY EngineAssumption

\* A minute takes at most one off the pause.
LEMMA RestedRow ==
    ASSUME NEW r \in Accounts, NEW l \in Rows, NEW m \in Int, NEW n \in Int, n > m,
           InRow(r, l, m)
    PROVE  Rested(r) \in Accounts /\ InRow(Rested(r), l, n)
<1>1. r.pause \in Nat /\ r.pause - 1 \in Int /\ r.consec \in Nat
  BY DEF Accounts
<1>2. PICK p \in Nat : p = Max({0, r.pause - 1}) /\ p >= r.pause - 1
  BY <1>1, MaxOfTwo
<1>3. PICK s : s = [r EXCEPT !.pause = p]
  OBVIOUS
<1>4. Rested(r) = s
  BY <1>2, <1>3 DEF Rested
<1>5. s \in Accounts /\ s.pause = p /\ s.consec = r.consec
  BY <1>3 DEF Accounts
<1>6. l.at \in Int /\ l.row \in Nat
  BY DEF Rows
<1>7. InRow(s, l, n)
  <2>1. l.row > 0 /\ s.consec = 0 => s.pause >= PauseMinutes - (n - l.at)
    <3>1. \A a, b, c \in Int : a >= b - (m - c) /\ p >= a - 1 => p >= b - (n - c)
      BY <1>2
    <3>2. l.row > 0 /\ r.consec = 0 => r.pause >= PauseMinutes - (m - l.at)
      BY DEF InRow
    <3> QED BY <1>1, <1>2, <1>5, <1>6, <3>1, <3>2, PauseTyped
  <2>2. l.at <= n
    BY <1>6 DEF InRow
  <2> QED BY <1>5, <2>1, <2>2 DEF InRow
<1> QED BY <1>4, <1>5, <1>7

\* Booking money leaves the pause alone.
LEMMA LosesTyped ==
    ASSUME NEW r \in Accounts, NEW price \in Int, NEW qty \in Int
    PROVE  /\ Loses(r, price, qty) \in Accounts
           /\ Loses(r, price, qty).pause = r.pause /\ Loses(r, price, qty).consec = r.consec
<1>1. PICK q \in Int : q = r.lost - price * qty
  BY DEF Accounts
<1>2. Loses(r, price, qty) = [r EXCEPT !.lost = q]
  BY <1>1 DEF Loses
<1> QED BY <1>2 DEF Accounts

\* The look at the drawdown stops the account or leaves it as it is; one that is not
\* stopped has lost less than the limit.
LEMMA CheckedTyped ==
    ASSUME NEW r \in Accounts
    PROVE  /\ Checked(r) \in Accounts
           /\ Checked(r).pause = r.pause /\ Checked(r).consec = r.consec
           /\ ~Checked(r).stopped => Checked(r).lost < MaxLoss
<1>1. PICK b \in BOOLEAN : b = (r.stopped \/ r.lost >= MaxLoss)
  BY Zenon
<1>2. Checked(r) = [r EXCEPT !.stopped = b]
  BY <1>1, Zenon DEF Checked
<1>3. PICK s : s = [r EXCEPT !.stopped = b]
  OBVIOUS
<1>4. s.lost = r.lost /\ s.lost \in Int /\ s.pause = r.pause /\ s.consec = r.consec
  BY <1>3 DEF Accounts
<1>5. s \in Accounts /\ s.stopped = b
  BY <1>1, <1>3, Zenon DEF Accounts
<1>6. ~b => s.lost < MaxLoss
  <2>1. ~b => ~(r.lost >= MaxLoss)
    BY <1>1, Zenon
  <2> QED BY <1>4, <2>1, PauseTyped
<1> QED BY <1>2, <1>3, <1>4, <1>5, <1>6

\* The row of stop losses when a trade ends at minute m for this reason.
RowAfter(l, reason, m) ==
    CASE reason = "SL" -> [row |-> l.row + 1, at |-> m]
      [] reason \in {"TP", "TP4"} -> [row |-> 0, at |-> 0]
      [] OTHER -> l

\* What each reason makes of the row.
LEMMA RowAfterIs ==
    ASSUME NEW l, NEW m
    PROVE  /\ RowAfter(l, "SL", m) = [row |-> l.row + 1, at |-> m]
           /\ RowAfter(l, "TP", m) = [row |-> 0, at |-> 0]
           /\ RowAfter(l, "TP4", m) = [row |-> 0, at |-> 0]
           /\ \A reason : reason \notin {"SL", "TP", "TP4"} => RowAfter(l, reason, m) = l
  BY Zenon DEF RowAfter

\* What a close does to the row, it does to the account's count and pause.
LEMMA CountedRow ==
    ASSUME NEW r \in Accounts, NEW l \in Rows, NEW m \in Nat, InRow(r, l, m),
           NEW reason \in {"SL", "BE", "TP4", "REVERSE", "FORCE_END"}
    PROVE  /\ Counted(r, reason) \in Accounts
           /\ InRow(Counted(r, reason), RowAfter(l, reason, m), m)
<1> USE PauseTyped
<1>1. l.row \in Nat /\ l.at \in Int /\ r.consec \in Nat /\ r.pause \in Nat
  BY DEF Rows, Accounts
<1>2. PICK k \in Nat : l.row = k * PauseAfter + r.consec
  BY DEF InRow
<1>3. r.consec < PauseAfter
  BY DEF InRow
<1>4. CASE reason = "SL" /\ r.consec + 1 >= PauseAfter
  <2>1. PICK s : s = [r EXCEPT !.pause = PauseMinutes, !.consec = 0]
    OBVIOUS
  <2>2. Counted(r, reason) = s
    BY <1>1, <1>4, <2>1 DEF Counted
  <2>3. s \in Accounts /\ s.pause = PauseMinutes /\ s.consec = 0
    BY <2>1 DEF Accounts
  <2>4. PICK j \in Nat : j = k + 1 /\ l.row + 1 = j * PauseAfter + 0
    <3>1. r.consec + 1 = PauseAfter
      BY <1>1, <1>3, <1>4
    <3>2. k * PauseAfter + PauseAfter = (k + 1) * PauseAfter + 0
      BY Z3
    <3> QED BY <1>1, <1>2, <3>1, <3>2
  <2>5. PICK n : n = RowAfter(l, reason, m) /\ n.row = l.row + 1 /\ n.at = m
    BY <1>4, RowAfterIs
  <2>6. s.pause >= PauseMinutes - (m - n.at)
    BY <2>3, <2>5
  <2>7. InRow(s, n, m)
    <3>1. n.row = j * PauseAfter + s.consec
      BY <2>3, <2>4, <2>5
    <3>2. s.consec < PauseAfter /\ n.at <= m
      BY <2>3, <2>5
    <3> QED BY <2>6, <3>1, <3>2 DEF InRow
  <2> QED BY <2>2, <2>3, <2>5, <2>7
<1>5. CASE reason = "SL" /\ r.consec + 1 < PauseAfter
  <2>1. PICK s : s = [r EXCEPT !.consec = r.consec + 1]
    OBVIOUS
  <2>2. Counted(r, reason) = s
    BY <1>1, <1>5, <2>1 DEF Counted
  <2>3. s \in Accounts /\ s.consec = r.consec + 1 /\ s.consec # 0
    BY <1>1, <2>1 DEF Accounts
  <2>4. PICK n : n = RowAfter(l, reason, m) /\ n.row = l.row + 1 /\ n.at = m
    BY <1>5, RowAfterIs
  <2>5. n.row = k * PauseAfter + s.consec
    BY <1>1, <1>2, <2>3, <2>4
  <2> QED BY <1>5, <2>2, <2>3, <2>4, <2>5 DEF InRow
<1>6. CASE reason = "TP4"
  <2>1. PICK s : s = [r EXCEPT !.consec = 0]
    OBVIOUS
  <2>2. Counted(r, reason) = s /\ s \in Accounts /\ s.consec = 0
    BY <1>6, <2>1 DEF Counted, Accounts
  <2>3. PICK n : n = RowAfter(l, reason, m) /\ n.row = 0 /\ n.at = 0
    BY <1>6, RowAfterIs
  <2>4. n.row = 0 * PauseAfter + s.consec
    BY <2>2, <2>3
  <2> QED BY <2>2, <2>3, <2>4 DEF InRow
<1>7. CASE reason \notin {"SL", "TP4"}
  BY <1>7 DEF Counted, RowAfter
<1> QED BY <1>1, <1>4, <1>5, <1>6, <1>7

\* What is left of a trade, and what a target sells, are numbers.
LEMMA SharesTyped ==
    ASSUME NEW t \in Trades, t.hits < NTp
    PROVE  Remaining(t) \in Int /\ Allocations[t.hits + 1] \in Int
<1>1. t.hits \in 0..NTp /\ t.hits + 1 \in 1..NTp
  BY LadderTyped DEF Trades
<1> QED BY <1>1, SumsTyped, LadderTyped DEF Remaining

\* A close settles the account with the row.
LEMMA SettledRow ==
    ASSUME NEW r \in Accounts, NEW l \in Rows, NEW m \in Nat, InRow(r, l, m),
           NEW t \in Trades, t.hits < NTp, NEW at \in Int,
           NEW reason \in {"SL", "BE", "TP4", "REVERSE", "FORCE_END"}
    PROVE  /\ Settled(r, t, reason, at) \in Accounts
           /\ InRow(Settled(r, t, reason, at), RowAfter(l, reason, m), m)
<1>1. PICK s \in Accounts : s = Loses(r, at, Remaining(t)) /\ s.pause = r.pause /\ s.consec = r.consec
  BY SharesTyped, LosesTyped
<1>2. PICK u \in Accounts : u = Checked(s) /\ u.pause = s.pause /\ u.consec = s.consec
  BY CheckedTyped
<1>3. InRow(u, l, m)
  BY <1>1, <1>2 DEF InRow
<1>4. Settled(r, t, reason, at) = Counted(u, reason)
  BY <1>1, <1>2 DEF Settled
<1> QED BY <1>3, <1>4, CountedRow

\* A sale of a target ends the row.
LEMMA PartRow ==
    ASSUME NEW r \in Accounts, NEW l \in Rows, NEW m \in Nat,
           NEW t \in Trades, t.hits < NTp, NEW at \in Int
    PROVE  /\ PartSettled(r, t, at) \in Accounts
           /\ InRow(PartSettled(r, t, at), RowAfter(l, "TP", m), m)
<1>1. PICK s \in Accounts : s = Loses(r, at, Allocations[t.hits + 1])
  BY SharesTyped, LosesTyped
<1>2. PICK u : u = [s EXCEPT !.consec = 0]
  OBVIOUS
<1>3. PartSettled(r, t, at) = u /\ u \in Accounts /\ u.consec = 0
  BY <1>1, <1>2 DEF PartSettled, Accounts
<1>4. PICK n : n = RowAfter(l, "TP", m) /\ n.row = 0 /\ n.at = 0
  BY RowAfterIs
<1>5. n.row = 0 * PauseAfter + u.consec
  BY <1>3, <1>4, PauseTyped
<1> QED BY <1>3, <1>4, <1>5, PauseTyped DEF InRow

\* When no pause is left, none is due.
LEMMA NoPauseDue ==
    ASSUME NEW r \in Accounts, NEW l \in Rows, NEW m \in Int, InRow(r, l, m), r.pause = 0
    PROVE  ~(l.row > 0 /\ l.row % PauseAfter = 0 /\ m - l.at < PauseMinutes)
<1>1. l.row \in Nat /\ l.at \in Int /\ r.consec \in Nat
  BY DEF Rows, Accounts
<1>2. PICK k \in Nat : l.row = k * PauseAfter + r.consec
  BY DEF InRow
<1>3. l.row % PauseAfter = r.consec
  <2>1. PauseAfter > 0 /\ r.consec < PauseAfter /\ PauseAfter \in Nat
    BY PauseTyped DEF InRow
  <2>2. (k * PauseAfter + r.consec) % PauseAfter = r.consec
    BY <1>1, <2>1, RowLeft
  <2> QED BY <1>2, <2>2
<1>4. l.row > 0 /\ r.consec = 0 => 0 >= PauseMinutes - (m - l.at)
  BY DEF InRow
<1> QED BY <1>1, <1>3, <1>4, PauseTyped

-----------------------------------------------------------------------------
(* The backtest: its inductive invariant and its theorems *)

EngineInv ==
    /\ minute.at \in Nat /\ minute.close \in Int
    /\ past \in Nat /\ trade \in Trades \cup {NoTrade}
    /\ trade \in Trades => Follows(trade, past, minute.at)
    /\ risk \in Accounts /\ losses \in Rows
    /\ InRow(risk, losses, minute.at)
    /\ exit.reason \in {"SL", "BE"} =>
         exit.past \in Nat /\ exit.stop \in Int /\ exit.stop <= exit.past - 1

EngineSpec == EngineInit /\ [][EngineNext]_engine

\* A trade is not the absence of one.
LEMMA TradesAreReal == \A t \in Trades : t # NoTrade
  BY DEF Trades, NoTrade, Sides

\* A new trade has nothing behind it, and is of this minute.
LEMMA EnteredFollows ==
    ASSUME NEW d \in Sides, NEW price \in Int, NEW m \in Nat
    PROVE  /\ Entered(d, price, m) \in Trades /\ Entered(d, price, m).since = m
           /\ Follows(Entered(d, price, m), 0, m)
<1>1. PICK u : u = Entered(d, price, m) /\ u \in Trades
                /\ u.since = m /\ u.sl = -1 /\ u.hits = 0 /\ u.highest = 0
  <2>1. PICK v : v = [NoTrade EXCEPT !.dir = d]
    OBVIOUS
  <2>2. v \in Trades /\ v.sl = -1 /\ v.hits = 0 /\ v.highest = 0
    <3>1. v = [dir |-> d, entry |-> 0, since |-> 0, sl |-> -1, hits |-> 0, highest |-> 0]
      BY <2>1 DEF NoTrade
    <3> QED BY <3>1 DEF Trades
  <2>3. PICK u : u = [v EXCEPT !.entry = price, !.since = m]
    OBVIOUS
  <2>4. Entered(d, price, m) = u
    BY <2>1, <2>3 DEF Entered
  <2>5. v \in Trades /\ m \in Int
    BY <2>2
  <2>6. /\ u \in Trades /\ u.since = m
        /\ u.sl = v.sl /\ u.hits = v.hits /\ u.highest = v.highest
    BY <2>3, <2>5 DEF Trades
  <2> QED BY <2>2, <2>4, <2>6
<1>2. 0 < NTp /\ m <= m /\ -1 <= 0 - 1
  BY LadderTyped
<1> QED BY <1>1, <1>2 DEF Trades, Follows

\* What step() does with the trade t and the account r after the exits: it keeps the
\* trade, turns away from it, or enters the next when the account may.
LEMMA DecidesWell ==
    ASSUME NEW t \in Trades \cup {NoTrade}, t \in Trades => t.hits < NTp,
           NEW r \in Accounts, NEW l \in Rows, NEW m \in Nat, InRow(r, l, m),
           NEW x \in Bars, NEW d \in Sides \cup {"none"}, Decides(t, r, d, x, m)
    PROVE  /\ risk' \in Accounts /\ InRow(risk', l, m)
           /\ \/ trade' \in {t, NoTrade}
              \/ /\ t = NoTrade /\ d \in Sides /\ trade' = Entered(d, x.c, m)
                 /\ risk'.pause = 0 /\ risk'.lost < MaxLoss
<1>1. PICK s \in Accounts : /\ s = Checked(r) /\ s.pause = r.pause /\ s.consec = r.consec
                            /\ ~s.stopped => s.lost < MaxLoss
  BY CheckedTyped
<1>2. InRow(s, l, m)
  BY <1>1 DEF InRow
<1>3. CASE trade' = t /\ risk' \in {r, s}
  BY <1>2, <1>3
<1>4. CASE t # NoTrade /\ trade' = NoTrade /\ risk' = Settled(s, t, "REVERSE", Along(t, x.c))
  <2>1. t \in Trades /\ Along(t, x.c) \in Int
    BY <1>4, AlongTyped
  <2>2. /\ Settled(s, t, "REVERSE", Along(t, x.c)) \in Accounts
        /\ InRow(Settled(s, t, "REVERSE", Along(t, x.c)), RowAfter(l, "REVERSE", m), m)
    BY <1>2, <2>1, SettledRow
  <2>3. RowAfter(l, "REVERSE", m) = l
    BY RowAfterIs
  <2> QED BY <1>4, <2>2, <2>3
<1>5. CASE /\ t = NoTrade /\ risk' = s
           /\ trade' = IF d # "none" /\ MayEnter(s) THEN Entered(d, x.c, m) ELSE NoTrade
  <2>1. CASE d # "none" /\ MayEnter(s)
    BY <1>1, <1>2, <1>5, <2>1 DEF MayEnter
  <2>2. CASE ~(d # "none" /\ MayEnter(s))
    BY <1>2, <1>5, <2>2
  <2> QED BY <2>1, <2>2
<1> QED BY <1>1, <1>3, <1>4, <1>5, Zenon DEF Decides

\* What the exits of a bar make of a trade and of the account.
LEMMA ExitsWell ==
    ASSUME NEW t \in Trades, NEW p \in Nat, NEW n \in Nat, Follows(t, p, n),
           NEW r \in Accounts, NEW l \in Rows, NEW m \in Nat, InRow(r, l, m),
           NEW x \in Bars, NEW e, e = Exits(t, x)
    PROVE  /\ e.reason \in {"SL", "BE", "TP", "TP4", "none"}
           /\ Account(r, t, e) \in Accounts
           /\ InRow(Account(r, t, e), RowAfter(l, e.reason, m), m)
           /\ Max({p, Top(t, x)}) \in Nat
           /\ \/ Survivor(t, x, e.reason) = NoTrade
              \/ /\ Survivor(t, x, e.reason) \in Trades
                 /\ Survivor(t, x, e.reason).since = t.since
                 /\ Follows(Survivor(t, x, e.reason), Max({p, Top(t, x)}), n)
<1>1. /\ e.reason \in {"SL", "BE", "TP", "TP4", "none"} /\ e.level \in Int
      /\ e.reason = "TP" => t.hits + 1 <= Top(t, x) /\ t.hits + 1 # NTp
  BY ExitsTyped
<1>2. t.hits < NTp
  BY DEF Follows
<1>3. Max({p, Top(t, x)}) \in Nat
  BY AlongTyped, MaxOfTwo
<1>4. CASE e.reason = "TP"
  <2>1. Account(r, t, e) = PartSettled(r, t, e.level)
    BY <1>4 DEF Account
  <2>2. /\ Account(r, t, e) \in Accounts
        /\ InRow(Account(r, t, e), RowAfter(l, e.reason, m), m)
    BY <1>1, <1>2, <1>4, <2>1, PartRow
  <2> QED BY <1>1, <1>3, <1>4, <2>2, SurvivorFollows
<1>5. CASE e.reason = "none"
  <2>1. Account(r, t, e) = r /\ RowAfter(l, e.reason, m) = l
    BY <1>5, RowAfterIs DEF Account
  <2> QED BY <1>1, <1>3, <1>5, <2>1, SurvivorFollows
<1>6. CASE e.reason \in {"SL", "BE", "TP4"}
  <2>1. Account(r, t, e) = Settled(r, t, e.reason, e.level)
    BY <1>6 DEF Account
  <2>2. /\ Account(r, t, e) \in Accounts
        /\ InRow(Account(r, t, e), RowAfter(l, e.reason, m), m)
    BY <1>1, <1>2, <1>6, <2>1, SettledRow
  <2>3. Survivor(t, x, e.reason) = NoTrade
    BY <1>6 DEF Survivor
  <2> QED BY <1>1, <1>3, <2>2, <2>3
<1> QED BY <1>1, <1>4, <1>5, <1>6

\* A trade begins only when the account allows it.
Permitted ==
    LET enters == trade' # NoTrade /\ trade'.since # trade.since
        paused == /\ losses'.row > 0 /\ losses'.row % PauseAfter = 0
                  /\ minute'.at - losses'.at < PauseMinutes
    IN  enters => risk'.lost < MaxLoss /\ ~paused

\* A minute without a trade.
LEMMA FreeMinute ==
    ASSUME EngineInv, trade = NoTrade, NEW m \in Nat, m > minute.at,
           NEW x \in Bars, NEW d \in Sides \cup {"none"},
           minute' = [at |-> m, close |-> x.c],
           Decides(NoTrade, Rested(risk), d, x, m),
           past' = 0, UNCHANGED <<exit, losses>>
    PROVE  EngineInv' /\ Permitted
<1>1. risk \in Accounts /\ losses \in Rows /\ minute.at \in Int
      /\ InRow(risk, losses, minute.at)
  BY DEF EngineInv
<1>2. PICK r \in Accounts, l \in Rows : r = Rested(risk) /\ l = losses /\ InRow(r, l, m)
  BY <1>1, RestedRow
<1>3. NoTrade \notin Trades
  BY TradesAreReal
<1>4. /\ risk' \in Accounts /\ InRow(risk', l, m)
      /\ \/ trade' = NoTrade
         \/ /\ d \in Sides /\ trade' = Entered(d, x.c, m)
            /\ risk'.pause = 0 /\ risk'.lost < MaxLoss
  BY <1>2, <1>3, DecidesWell
<1>5. minute'.at = m /\ minute'.close = x.c /\ x.c \in Int
  BY DEF Bars
<1>6. CASE trade' = NoTrade
  BY <1>2, <1>3, <1>4, <1>5, <1>6 DEF EngineInv, Permitted
<1>7. CASE /\ d \in Sides /\ trade' = Entered(d, x.c, m)
           /\ risk'.pause = 0 /\ risk'.lost < MaxLoss
  <2>1. trade' \in Trades /\ Follows(trade', 0, m)
    BY <1>5, <1>7, EnteredFollows
  <2>2. PICK s \in Accounts : s = risk'
    BY <1>4
  <2>3. ~(l.row > 0 /\ l.row % PauseAfter = 0 /\ m - l.at < PauseMinutes)
    BY <1>4, <1>7, <2>2, NoPauseDue
  <2>4. EngineInv'
    BY <1>2, <1>4, <1>5, <2>1 DEF EngineInv
  <2> QED BY <1>2, <1>5, <1>7, <2>3, <2>4 DEF Permitted
<1> QED BY <1>4, <1>6, <1>7

\* A minute with a trade, t with its stop trailed.
LEMMA TradeMinute ==
    ASSUME EngineInv, trade \in Trades, NEW m \in Nat, m > minute.at,
           NEW x \in Bars, NEW d \in Sides \cup {"none"},
           NEW t, t = Trails3(trade, x), NEW e, e = Exits(t, x),
           minute' = [at |-> m, close |-> x.c],
           Decides(Survivor(t, x, e.reason), Account(Rested(risk), t, e), d, x, m),
           past' = IF trade'.since = trade.since THEN Max({past, Top(trade, x)}) ELSE 0,
           exit' = IF e.reason = "none" THEN exit
                   ELSE [reason |-> e.reason, stop |-> t.sl, past |-> past],
           losses' = RowAfter(losses, e.reason, m)
    PROVE  EngineInv' /\ Permitted
<1>1. risk \in Accounts /\ losses \in Rows /\ minute.at \in Nat /\ past \in Nat
      /\ InRow(risk, losses, minute.at)
  BY DEF EngineInv
<1>2. PICK r \in Accounts, l \in Rows : r = Rested(risk) /\ l = losses /\ InRow(r, l, m)
  BY <1>1, RestedRow
<1>3. PICK n \in Nat, p \in Nat, b \in Trades :
        n = minute.at /\ p = past /\ b = trade /\ Follows(b, p, n)
  BY <1>1 DEF EngineInv
<1>4. /\ t \in Trades /\ Follows(t, p, n) /\ t.dir = b.dir /\ t.since = b.since
      /\ t.entry = b.entry
  <2>1. b.highest \in Int /\ b.highest <= p
    BY <1>3 DEF Trades, Follows
  <2>2. t = Trailed(b, b.highest)
    BY <1>3 DEF Trails3
  <2> QED BY <1>3, <2>1, <2>2, TrailedFollows
<1>5. Top(t, x) = Top(b, x)
  BY <1>4 DEF Top, Along
<1>6. PICK s, a, w : /\ s = Survivor(t, x, e.reason) /\ a = Account(r, t, e)
                     /\ w = RowAfter(l, e.reason, m)
  OBVIOUS
<1>7. PICK q \in Nat : q = Max({p, Top(t, x)})
  BY <1>2, <1>4, ExitsWell
<1>8. /\ e.reason \in {"SL", "BE", "TP", "TP4", "none"}
      /\ a \in Accounts /\ InRow(a, w, m)
      /\ \/ s = NoTrade
         \/ s \in Trades /\ s.since = t.since /\ Follows(s, q, n)
  BY <1>2, <1>4, <1>6, <1>7, ExitsWell
<1>9. w \in Rows
  <2>1. l.row \in Nat
    BY DEF Rows
  <2>2. w \in {l, [row |-> l.row + 1, at |-> m], [row |-> 0, at |-> 0]}
    BY <1>6, <1>8, Zenon DEF RowAfter
  <2> QED BY <2>1, <2>2 DEF Rows
<1>10. NoTrade \notin Trades
  BY TradesAreReal
<1>11. /\ risk' \in Accounts /\ InRow(risk', w, m)
       /\ \/ trade' \in {s, NoTrade}
          \/ /\ s = NoTrade /\ d \in Sides /\ trade' = Entered(d, x.c, m)
             /\ risk'.pause = 0 /\ risk'.lost < MaxLoss
  <2>1. Decides(s, a, d, x, m)
    BY <1>2, <1>6
  <2>2. s \in Trades => s.hits < NTp
    BY <1>8, <1>10 DEF Follows
  <2> QED BY <1>8, <1>9, <2>1, <2>2, DecidesWell
<1>12. minute'.at = m /\ minute'.close = x.c /\ x.c \in Int /\ m \in Int
  BY DEF Bars
<1>13. past' \in Nat /\ (trade'.since = b.since => past' = q)
       /\ (trade'.since # b.since => past' = 0)
  BY <1>3, <1>5, <1>7
<1>14. exit'.reason \in {"SL", "BE"} =>
         exit'.past \in Nat /\ exit'.stop \in Int /\ exit'.stop <= exit'.past - 1
  <2>1. CASE e.reason = "none"
    BY <2>1 DEF EngineInv
  <2>2. CASE e.reason # "none"
    <3>1. t.sl \in Int /\ t.sl <= p - 1
      BY <1>4 DEF Trades, Follows
    <3> QED BY <1>3, <2>2, <3>1
  <2> QED BY <2>1, <2>2
<1>15. losses' = w
  BY <1>2, <1>6
<1>16. CASE trade' = s /\ s \in Trades
  <2>1. s.since = b.since /\ Follows(s, q, n) /\ past' = q
    BY <1>4, <1>8, <1>10, <1>13, <1>16
  <2>2. Follows(s, q, m)
    <3>1. s.since \in Int
      BY <1>16 DEF Trades
    <3> QED BY <1>3, <2>1, <3>1 DEF Follows
  <2>3. EngineInv'
    BY <1>9, <1>11, <1>12, <1>13, <1>14, <1>15, <1>16, <2>1, <2>2 DEF EngineInv
  <2>4. Permitted
    BY <1>3, <1>16, <2>1 DEF Permitted
  <2> QED BY <2>3, <2>4
<1>17. CASE trade' = NoTrade
  <2>1. EngineInv'
    BY <1>9, <1>10, <1>11, <1>12, <1>13, <1>14, <1>15, <1>17 DEF EngineInv
  <2> QED BY <1>17, <2>1 DEF Permitted
<1>18. CASE /\ d \in Sides /\ trade' = Entered(d, x.c, m)
            /\ risk'.pause = 0 /\ risk'.lost < MaxLoss
  <2>1. trade' \in Trades /\ Follows(trade', 0, m) /\ trade'.since = m
    BY <1>12, <1>18, EnteredFollows
  <2>2. past' = 0
    <3>1. b.since \in Int /\ b.since <= n
      BY <1>3 DEF Trades, Follows
    <3> QED BY <1>3, <1>13, <2>1, <3>1
  <2>3. EngineInv'
    BY <1>9, <1>11, <1>12, <1>14, <1>15, <2>1, <2>2 DEF EngineInv
  <2>4. PICK u \in Accounts : u = risk'
    BY <1>11
  <2>5. ~(w.row > 0 /\ w.row % PauseAfter = 0 /\ m - w.at < PauseMinutes)
    BY <1>9, <1>11, <1>12, <1>18, <2>4, NoPauseDue
  <2> QED BY <1>12, <1>15, <1>18, <2>3, <2>5 DEF Permitted
<1> QED BY <1>8, <1>11, <1>16, <1>17, <1>18

\* Every minute keeps the invariant, and enters only what the account allows.
LEMMA MinuteKeeps ==
    ASSUME EngineInv, NEW gap \in 0..MaxGap, StepMinute(gap)
    PROVE  EngineInv' /\ Permitted
<1>1. minute.at \in Nat /\ minute.close \in Int /\ Quotes \subseteq Int /\ gap \in Nat
  BY EngineAssumption DEF EngineInv
<1>2. PICK m \in Nat : m = minute.at + 1 + gap /\ m > minute.at
  BY <1>1
<1>3. Minutes(minute.close) \subseteq Bars
  BY <1>1 DEF Minutes, Bars
<1> DEFINE at == minute.at + 1 + gap
           r == Rested(risk)
           t(x) == Trails3(trade, x)
           out(x) == IF trade = NoTrade THEN [reason |-> "none", level |-> 0] ELSE Exits(t(x), x)
<1>4. PICK x \in Minutes(minute.close), d \in Sides \cup {"none"} :
        /\ ClosesBar(at) \/ d = "none"
        /\ minute' = [at |-> at, close |-> x.c]
        /\ Decides(IF trade = NoTrade THEN NoTrade ELSE Survivor(t(x), x, out(x).reason),
                   IF trade = NoTrade THEN r ELSE Account(r, t(x), out(x)), d, x, at)
        /\ past' = IF trade # NoTrade /\ trade'.since = trade.since
                   THEN Max({past, Top(trade, x)}) ELSE 0
        /\ exit' = IF out(x).reason = "none" THEN exit
                   ELSE [reason |-> out(x).reason, stop |-> t(x).sl, past |-> past]
        /\ losses' = CASE out(x).reason = "SL" -> [row |-> losses.row + 1, at |-> at]
                       [] out(x).reason \in {"TP", "TP4"} -> [row |-> 0, at |-> 0]
                       [] OTHER -> losses
  BY Zenon DEF StepMinute
<1>5. x \in Bars
  BY <1>3
<1>6. CASE trade = NoTrade
  <2>1. out(x).reason = "none" /\ at = m
    BY <1>2, <1>6
  <2>2. Decides(NoTrade, Rested(risk), d, x, m) /\ past' = 0 /\ UNCHANGED <<exit, losses>>
        /\ minute' = [at |-> m, close |-> x.c]
    <3> HIDE DEF out, at
    <3> QED BY <1>4, <1>6, <2>1
  <2> QED BY <1>2, <1>5, <1>6, <2>2, FreeMinute
<1>7. CASE trade # NoTrade
  <2>1. trade \in Trades
    BY <1>7 DEF EngineInv
  <2>2. PICK u, e : u = Trails3(trade, x) /\ e = Exits(u, x)
    OBVIOUS
  <2>3. out(x) = e /\ t(x) = u /\ at = m
    BY <1>2, <1>7, <2>2
  <2>4. /\ Decides(Survivor(u, x, e.reason), Account(Rested(risk), u, e), d, x, m)
        /\ past' = IF trade'.since = trade.since THEN Max({past, Top(trade, x)}) ELSE 0
        /\ exit' = IF e.reason = "none" THEN exit
                   ELSE [reason |-> e.reason, stop |-> u.sl, past |-> past]
        /\ minute' = [at |-> m, close |-> x.c]
    <3> HIDE DEF out, t, at
    <3> QED BY <1>4, <1>7, <2>3
  <2>5. losses' = RowAfter(losses, e.reason, m)
    <3> HIDE DEF out, t, at
    <3> QED BY <1>4, <2>3, Zenon DEF RowAfter
  <2> QED BY <1>2, <1>5, <2>1, <2>2, <2>4, <2>5, TradeMinute
<1> QED BY <1>6, <1>7

\* The end of the run closes what is open.
LEMMA EndKeeps ==
    ASSUME EngineInv, ForceCloseAtEnd
    PROVE  EngineInv' /\ Permitted
<1>1. PICK t \in Trades, r \in Accounts, l \in Rows, m \in Nat :
        /\ t = trade /\ r = risk /\ l = losses /\ m = minute.at /\ InRow(r, l, m)
        /\ t.hits < NTp
  BY DEF EngineInv, ForceCloseAtEnd, Follows
<1>2. PICK at \in Int : at = Along(t, minute.close)
  BY <1>1 DEF EngineInv, Along, Trades
<1>3. /\ Settled(r, t, "FORCE_END", at) \in Accounts
      /\ InRow(Settled(r, t, "FORCE_END", at), RowAfter(l, "FORCE_END", m), m)
  BY <1>1, SettledRow
<1>4. RowAfter(l, "FORCE_END", m) = l
  BY RowAfterIs
<1>5. risk' = Settled(r, t, "FORCE_END", at) /\ trade' = NoTrade
      /\ UNCHANGED <<minute, past, exit, losses>>
  BY <1>1, <1>2 DEF ForceCloseAtEnd
<1>6. NoTrade \notin Trades
  BY TradesAreReal
<1>7. EngineInv'
  BY <1>1, <1>3, <1>4, <1>5, <1>6 DEF EngineInv
<1> QED BY <1>5, <1>7 DEF Permitted

\* A run begins without a trade, a loss or a pause.
LEMMA EngineInitInv == EngineInit => EngineInv
<1> SUFFICES ASSUME EngineInit
             PROVE  EngineInv
    OBVIOUS
<1>1. minute.at \in Nat /\ minute.close \in Int /\ past \in Nat /\ trade = NoTrade
  BY EngineAssumption DEF EngineInit
<1>2. PICK l \in Rows : l = losses /\ l.row = 0 /\ l.at = 0
  BY DEF EngineInit, Rows
<1>3. PICK r \in Accounts : r = risk /\ r.consec = 0
  <2>1. FALSE \in BOOLEAN
    BY Zenon
  <2>2. 0 \in Int /\ 0 \in Nat
    OBVIOUS
  <2>3. risk = [lost |-> 0, stopped |-> FALSE, pause |-> 0, consec |-> 0]
    BY DEF EngineInit
  <2>4. risk \in Accounts
    BY <2>1, <2>2, <2>3, Zenon DEF Accounts
  <2> QED BY <2>3, <2>4
<1>4. minute.at = 0 /\ exit.reason = "none"
  BY DEF EngineInit, NoExit
<1>5. InRow(r, l, 0)
  <2>1. l.row = 0 * PauseAfter + r.consec
    BY <1>2, <1>3, PauseTyped
  <2> QED BY <1>2, <1>3, <2>1, PauseTyped DEF InRow
<1> QED BY <1>1, <1>2, <1>3, <1>4, <1>5, TradesAreReal DEF EngineInv

\* Every step of the backtest keeps its invariant.
LEMMA EngineNextInv == EngineInv /\ [EngineNext]_engine => EngineInv'
<1> SUFFICES ASSUME EngineInv, [EngineNext]_engine
             PROVE  EngineInv'
    OBVIOUS
<1>1. CASE EngineNext
  BY <1>1, MinuteKeeps, EndKeeps DEF EngineNext
<1>2. CASE UNCHANGED engine
  BY <1>2 DEF EngineInv, engine
<1> QED BY <1>1, <1>2

\* The backtest does not look ahead: the stop a trade ends at is its first one, or a level
\* or more below what earlier bars of the trade had reached, in every trailing mode and
\* for any prices.
THEOREM StopFromPastHolds == EngineSpec => []StopFromPast
<1>1. EngineInv => StopFromPast
  <2> SUFFICES ASSUME EngineInv, exit.reason \in {"SL", "BE"}
               PROVE  exit.stop <= Max({-1, exit.past - 1})
      BY DEF StopFromPast
  <2>1. PICK p \in Nat : p = exit.past /\ exit.stop <= p - 1
    BY DEF EngineInv
  <2>2. Max({-1, p - 1}) = p - 1
    <3>1. -1 \in Int /\ p - 1 \in Int /\ (-1 >= p - 1 => -1 = p - 1)
      OBVIOUS
    <3> QED BY <3>1, MaxOfTwo
  <2> QED BY <2>1, <2>2
<1> QED BY <1>1, EngineInitInv, EngineNextInv, PTL DEF EngineSpec

\* No trade of the backtest is entered once the losses have reached the limit, nor within
\* the pause after a row of stop losses, for any limits, prices and gaps between the bars.
THEOREM EntersWithinRiskHolds == EngineSpec => EntersWithinRisk
<1>1. EngineInv /\ [EngineNext]_engine => [Permitted]_engine
  <2>1. EngineInv /\ EngineNext => Permitted
    BY MinuteKeeps, EndKeeps DEF EngineNext
  <2> QED BY <2>1
<1>2. [][Permitted]_engine => EntersWithinRisk
  BY PTL DEF Permitted, EntersWithinRisk
<1> QED BY <1>1, <1>2, EngineInitInv, EngineNextInv, PTL DEF EngineSpec
=============================================================================
