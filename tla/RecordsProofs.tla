---------------------------- MODULE RecordsProofs ----------------------------
(***************************************************************************)
(* Theorems about what surrounds the trades of an account: the size of its *)
(* entries (Sizing), the records of a bot (Ledger), the cache of bars that *)
(* all bots share (Candles) and what a bot does when the exchange refuses  *)
(* its key (KeyGuard).                                                     *)
(***************************************************************************)
EXTENDS Ledger, Sizing, Candles, KeyGuard, FiniteSetTheorems, SequenceTheorems, TLAPS

-----------------------------------------------------------------------------
(* Arithmetic of sizes *)

\* Division rounds down.
LEMMA DivBounds ==
    ASSUME NEW a \in Nat, NEW b \in Nat \ {0}
    PROVE  /\ a \div b \in Nat
           /\ (a \div b) * b <= a
           /\ \A c \in Nat : a <= c * b => a \div b <= c
<1>1. a \div b \in Nat /\ (a \div b) * b <= a
  OBVIOUS
<1>2. ASSUME NEW c \in Nat, a <= c * b PROVE a \div b <= c
  <2> DEFINE q == a \div b
  <2>1. q \in Nat /\ q * b <= c * b
    BY <1>1, <1>2
  <2> HIDE DEF q
  <2>2. q <= c
    BY <2>1
  <2> QED BY <2>2 DEF q
<1> QED BY <1>1, <1>2

\* What margin_guard leaves over is enough for the margin of the quantity it allows.
LEMMA MarginFits ==
    ASSUME NEW q \in Nat, NEW free \in Nat,
           q <= (free * Leverage * 90) \div (100 * Price)
    PROVE  Margin(q) <= free
<1> DEFINE m == (free * Leverage * 90) \div (100 * Price)
<1>1. Leverage \in Nat \ {0} /\ Price \in Nat \ {0}
  BY SizingAssumption
<1>2. free * Leverage \in Nat /\ free * Leverage * 90 \in Nat /\ 100 * Price \in Nat \ {0}
  BY <1>1
<1>3. m \in Nat /\ m * (100 * Price) <= free * Leverage * 90
  BY <1>2, DivBounds, SMTT(30)
<1>4. q <= m
  OBVIOUS
<1> HIDE DEF m
<1>5. q * (100 * Price) <= m * (100 * Price)
  BY <1>1, <1>3, <1>4
<1>6. q * (100 * Price) = 100 * (q * Price) /\ q * Price \in Nat
  BY <1>1
<1>7. q * Price <= free * Leverage
  <2> DEFINE x == q * Price
             y == free * Leverage
  <2>1. 100 * x <= y * 90 /\ x \in Nat /\ y \in Nat
    BY <1>1, <1>2, <1>3, <1>5, <1>6
  <2> HIDE DEF x, y
  <2>2. x <= y
    BY <2>1
  <2> QED BY <2>2 DEF x, y
<1> QED BY <1>1, <1>6, <1>7, DivBounds DEF Margin

\* The widened stop is at some distance.
LEMMA WidenedTyped ==
    ASSUME NEW d \in Distances
    PROVE  Widened(d) \in Nat \ {0}
<1> DEFINE wide == (d * Widening) \div 100
           cap == (Price * 8) \div (10 * Leverage)
<1>1. d \in Nat \ {0} /\ Widening \in Nat /\ d * Widening >= 100 /\ d * Widening \in Nat
  BY SizingAssumption
<1>2. wide \in Nat /\ wide >= 1
  <2> DEFINE x == d * Widening
  <2>1. x \in Nat /\ x >= 100
    BY <1>1
  <2> HIDE DEF x
  <2>2. x \div 100 \in Nat /\ x \div 100 >= 1
    BY <2>1
  <2> QED BY <2>2 DEF x
<1>3. Price * 8 \in Nat /\ 10 * Leverage \in Nat \ {0}
  BY SizingAssumption
<1>4. cap \in Nat
  BY <1>3, DivBounds
<1> HIDE DEF wide, cap
<1>5. Widened(d) = IF wide > cap THEN Highest(d, cap) ELSE wide
  BY DEF Widened, wide, cap
<1> QED BY <1>1, <1>2, <1>4, <1>5 DEF Highest

\* Rounding takes something off.
LEMMA RoundedTyped ==
    ASSUME NEW q \in Nat
    PROVE  Rounded(q) \in Nat /\ Rounded(q) <= q
<1>1. MinQty \in Nat \ {0}
  BY SizingAssumption
<1>2. q % MinQty \in Nat /\ q % MinQty <= q
  BY <1>1
<1> QED BY <1>2 DEF Rounded

\* Both branches of _calc_qty give a quantity.
LEMMA PlanTyped ==
    ASSUME NEW e \in Nat, NEW percent \in Percents, NEW factor \in {DdFactor, 100},
           NEW votes \in Votes, NEW d \in Distances
    PROVE  Rounded(ByRisk(e, percent, factor, votes, d)) \in Nat
           /\ Rounded(ByShare(e, percent, votes)) \in Nat
<1>1. percent \in Nat /\ factor \in Nat /\ votes \in Nat /\ PositionMax \in Nat
      /\ Leverage \in Nat \ {0} /\ Price \in Nat \ {0}
  BY SizingAssumption
<1>2. SmartSize(votes) \in Nat
  BY <1>1 DEF SmartSize
<1>3. e * percent * factor * SmartSize(votes) \in Nat
  BY <1>1, <1>2
<1>4. 1000000 * Widened(d) \in Nat \ {0}
  BY WidenedTyped
<1>5. (e * percent * factor * SmartSize(votes)) \div (1000000 * Widened(d)) \in Nat
  BY <1>3, <1>4, DivBounds
<1>6. e * Leverage * PositionMax \in Nat /\ 100 * Price \in Nat \ {0}
      /\ 10000 * Price \in Nat \ {0}
  BY <1>1
<1>7. (e * Leverage * PositionMax) \div (100 * Price) \in Nat
  BY <1>6, DivBounds
<1>8. ByRisk(e, percent, factor, votes, d) \in Nat
  BY <1>5, <1>7 DEF ByRisk, Lowest
<1>9. Lowest(percent, PositionMax) \in Nat
  BY <1>1 DEF Lowest
<1>10. e * Lowest(percent, PositionMax) * SmartSize(votes) * Leverage \in Nat
  BY <1>1, <1>2, <1>9
<1>11. ByShare(e, percent, votes) \in Nat
  BY <1>6, <1>10, DivBounds DEF ByShare
<1> QED BY <1>8, <1>11, RoundedTyped

\* margin_guard allows a quantity whose margin is available.
LEMMA CappedFits ==
    ASSUME NEW q \in Nat, NEW free \in Nat \cup {Unknown}
    PROVE  /\ Capped(q, free) \in Nat
           /\ Capped(q, free) > 0 => free \in Nat /\ Margin(Capped(q, free)) <= free
<1>1. CASE free = Unknown \/ q = 0
  BY <1>1 DEF Capped
<1>2. CASE free # Unknown /\ q # 0
  <2> DEFINE most == (free * Leverage * 90) \div (100 * Price)
  <2>1. free \in Nat /\ Leverage \in Nat /\ 100 * Price \in Nat \ {0}
    BY <1>2, SizingAssumption
  <2>2. free * Leverage * 90 \in Nat
    BY <2>1
  <2>3. most \in Nat
    BY <2>1, <2>2, DivBounds
  <2>4. \A n \in Nat : n <= most => Margin(n) <= free
    BY <2>1, MarginFits
  <2> HIDE DEF most
  <2>5. Rounded(most) \in Nat /\ Rounded(most) <= most
    BY <2>3, RoundedTyped
  <2>6. Capped(q, free) = IF q <= most THEN q
                          ELSE IF Rounded(most) * 100 < q * MinRatio THEN 0 ELSE Rounded(most)
    BY <1>2 DEF Capped, most
  <2> QED BY <2>1, <2>3, <2>4, <2>5, <2>6
<1> QED BY <1>1, <1>2

\* The margin of a position is an amount of money.
LEMMA MarginTyped == ASSUME NEW q \in Nat PROVE Margin(q) \in Nat
<1>1. q * Price \in Nat /\ Leverage \in Nat \ {0}
  BY SizingAssumption
<1> QED BY <1>1, DivBounds DEF Margin

-----------------------------------------------------------------------------
(* The types of Sizing *)

SizingSpec == SizingInit /\ [][SizingNext]_funds

Positions == [qty : Nat, profit : Results \cup {0}]
Wallets == [money : Int, profits : Int, bound : Int]
Coroutines == [at : {"waits", "read", "sized"}, peak : Nat, equity : Nat,
               qty : Nat, factor : {DdFactor, 100}, free : Nat \cup {Unknown}]

\* The type invariant, part by part, in a state and in the next.
LEMMA SizingParts ==
    SizingTypeOK <=> /\ account \in [symbols : SUBSET Symbols, riskBased : BOOLEAN, unified : BOOLEAN]
                     /\ wallet \in Wallets /\ position \in [Symbols -> Positions]
                     /\ sizing \in [Symbols -> Coroutines]
                     /\ peakFile \in Nat /\ top \in Nat /\ signals \in 0..MaxEntries
                     /\ mishap \in BOOLEAN /\ changed \subseteq Symbols /\ refused \subseteq Symbols
<1>1. {peakFile, top} \subseteq Nat <=> peakFile \in Nat /\ top \in Nat
  OBVIOUS
<1> QED BY <1>1 DEF SizingTypeOK, Positions, Wallets, Coroutines


\* The type invariant of Sizing in the next state, part by part.
LEMMA SizingPartsNext ==
    ASSUME account' \in [symbols : SUBSET Symbols, riskBased : BOOLEAN, unified : BOOLEAN],
           wallet' \in Wallets, position' \in [Symbols -> Positions],
           sizing' \in [Symbols -> Coroutines], peakFile' \in Nat, top' \in Nat,
           signals' \in 0..MaxEntries, mishap' \in BOOLEAN, changed' \subseteq Symbols,
           refused' \subseteq Symbols
    PROVE  SizingTypeOK'
<1>1. {peakFile', top'} \subseteq Nat
  OBVIOUS
<1> QED BY <1>1 DEF SizingTypeOK, Positions, Wallets, Coroutines

\* A coroutine after each of the steps of an entry.
LEMMA CoroutineSteps ==
    ASSUME NEW c \in Coroutines
    PROVE  /\ \A e \in Nat : LET d == [c EXCEPT !.at = "read", !.equity = e]
                             IN d \in Coroutines /\ d.at = "read" /\ d.peak = c.peak
           /\ \A p \in Nat, q \in Nat, f \in {DdFactor, 100}, a \in Nat \cup {Unknown} :
                 LET d == [c EXCEPT !.at = "sized", !.peak = p, !.qty = q, !.factor = f, !.free = a]
                 IN /\ d \in Coroutines /\ d.at = "sized" /\ d.peak = p /\ d.factor = f
                    /\ d.free = a /\ d.equity = c.equity
           /\ LET d == Waits(c.peak) IN d \in Coroutines /\ d.at = "waits" /\ d.peak = c.peak
           /\ LET d == Waits(0) IN d \in Coroutines /\ d.at = "waits" /\ d.peak = 0
<1>1. ASSUME NEW e \in Nat
      PROVE  LET d == [c EXCEPT !.at = "read", !.equity = e]
             IN d \in Coroutines /\ d.at = "read" /\ d.peak = c.peak
  BY DEF Coroutines
<1>2. ASSUME NEW p \in Nat, NEW q \in Nat, NEW f \in {DdFactor, 100},
             NEW a \in Nat \cup {Unknown}
      PROVE  LET d == [c EXCEPT !.at = "sized", !.peak = p, !.qty = q, !.factor = f, !.free = a]
             IN /\ d \in Coroutines /\ d.at = "sized" /\ d.peak = p /\ d.factor = f
                /\ d.free = a /\ d.equity = c.equity
  BY DEF Coroutines
<1>3. ASSUME NEW p \in Nat
      PROVE  LET d == Waits(p) IN d \in Coroutines /\ d.at = "waits" /\ d.peak = p
  BY DEF Coroutines, Waits
<1>4. c.peak \in Nat
  BY DEF Coroutines
<1> QED BY <1>1, <1>2, <1>3, <1>4, Zenon

\* The coroutine of one symbol moves.
LEMMA OneMoves ==
    ASSUME SizingTypeOK, NEW s \in Symbols, NEW c \in Coroutines,
           sizing' = [sizing EXCEPT ![s] = c]
    PROVE  /\ sizing' \in [Symbols -> Coroutines]
           /\ sizing'[s] = c
           /\ \A t \in Symbols \ {s} : sizing'[t] = sizing[t]
<1>1. sizing \in [Symbols -> Coroutines]
  BY SizingParts
<1> QED BY <1>1

\* What is available is an amount.
LEMMA AvailableTyped == ASSUME SizingTypeOK PROVE Available \in Nat /\ Equity \in Int
<1>1. wallet \in Wallets
  BY SizingParts
<1> QED BY <1>1 DEF Available, Equity, Highest, Wallets

-----------------------------------------------------------------------------
(* The invariant of Sizing *)

\* A plan was made with what is available, unless the account has changed.
Current(s) ==
    sizing[s].at = "sized" /\ s \notin changed => sizing[s].free \in {Available, Unknown}

\* Only symbols that run have an entry under way, and it is not refused yet.
Going(s) == sizing[s].at # "waits" => s \notin refused /\ s \in account.symbols

\* The only bot of an account: its peak and the file's are the highest equity.
Peaked(s) ==
    account.symbols = {s} /\ account.riskBased /\ ~mishap
        => /\ peakFile = top /\ sizing[s].peak \in {0, top}
           /\ sizing[s].at = "sized" =>
                 sizing[s].factor = IF InDrawdown(sizing[s].equity, top) THEN DdFactor ELSE 100

FundsInv ==
    /\ SizingTypeOK
    /\ \A s \in Symbols : Current(s) /\ Going(s) /\ Peaked(s)
    /\ RefusedOnlyByRace

\* The invariant holds at first.
LEMMA FundsInitially == ASSUME SizingInit PROVE FundsInv
<1>1. SizingTypeOK
  <2>1. Flat \in Positions /\ Waits(0) \in Coroutines
    BY DEF Flat, Positions, Waits, Coroutines
  <2>2. [money |-> Deposit, profits |-> 0, bound |-> 0] \in Wallets /\ 0 \in 0..MaxEntries
    BY SizingAssumption DEF Wallets
  <2>3. account \in [symbols : SUBSET Symbols, riskBased : BOOLEAN, unified : BOOLEAN]
    BY Zenon DEF SizingInit
  <2> QED BY <2>1, <2>2, <2>3, SizingParts DEF SizingInit
<1>2. ASSUME NEW s \in Symbols PROVE sizing[s] = Waits(0)
  BY DEF SizingInit
<1>3. ASSUME NEW s \in Symbols PROVE sizing[s].at = "waits" /\ sizing[s].peak = 0
  BY <1>2 DEF Waits
<1>4. peakFile = 0 /\ top = 0 /\ refused = {}
  BY DEF SizingInit
<1> QED BY <1>1, <1>3, <1>4 DEF FundsInv, Current, Going, Peaked, RefusedOnlyByRace

\* A balance is read.
LEMMA SignalsKeep ==
    ASSUME FundsInv, NEW s \in Symbols, Signals(s)
    PROVE  FundsInv'
<1>1. SizingTypeOK /\ RefusedOnlyByRace /\ sizing[s] \in Coroutines /\ sizing[s].at = "waits"
      /\ s \in account.symbols
  BY SizingParts DEF FundsInv, Signals
<1>2. PICK e \in Nat : /\ sizing' = [sizing EXCEPT ![s].at = "read", ![s].equity = e]
                       /\ mishap' = mishap \/ mishap' = TRUE
  BY AvailableTyped, <1>1 DEF Signals, Fallback
<1> DEFINE c == [sizing[s] EXCEPT !.at = "read", !.equity = e]
<1>3. c \in Coroutines /\ c.at = "read" /\ c.peak = sizing[s].peak
  BY <1>1, <1>2 DEF Coroutines
<1>4. sizing' = [sizing EXCEPT ![s] = c]
  BY <1>1, <1>2, SizingParts
<1> HIDE DEF c
<1>5. /\ sizing' \in [Symbols -> Coroutines] /\ sizing'[s] = c
      /\ \A t \in Symbols \ {s} : sizing'[t] = sizing[t]
  BY <1>1, <1>3, <1>4, OneMoves
<1>6. /\ account' = account /\ wallet' = wallet /\ position' = position /\ peakFile' = peakFile
      /\ top' = top /\ changed' = changed /\ refused' = refused \ {s}
      /\ signals < MaxEntries /\ signals' = signals + 1
  BY DEF Signals
<1>7. signals' \in 0..MaxEntries /\ mishap' \in BOOLEAN
  <2>1. mishap \in BOOLEAN /\ signals \in 0..MaxEntries /\ MaxEntries \in Nat
    BY <1>1, SizingParts, SizingAssumption
  <2>2. signals' \in 0..MaxEntries
    BY <2>1, <1>6
  <2>3. mishap' \in BOOLEAN
    BY <2>1, <1>2, Zenon
  <2> QED BY <2>2, <2>3
<1>8. SizingTypeOK'
  <2>1. /\ account \in [symbols : SUBSET Symbols, riskBased : BOOLEAN, unified : BOOLEAN]
        /\ wallet \in Wallets /\ position \in [Symbols -> Positions] /\ peakFile \in Nat
        /\ top \in Nat /\ changed \subseteq Symbols /\ refused \subseteq Symbols
    BY <1>1, SizingParts
  <2> QED BY <2>1, <1>5, <1>6, <1>7, SizingPartsNext
<1>9. Available' = Available
  BY <1>6 DEF Available, Equity
<1>10. ASSUME NEW t \in Symbols PROVE Current(t)' /\ Going(t)' /\ Peaked(t)'
  <2>1. Current(t) /\ Going(t) /\ Peaked(t)
    BY DEF FundsInv
  <2>2. CASE t = s
    <3>1. Current(t)' /\ Going(t)'
      BY <2>2, <1>1, <1>3, <1>5, <1>6 DEF Current, Going
    <3>2. Peaked(t)'
      BY <2>1, <2>2, <1>2, <1>3, <1>5, <1>6 DEF Peaked
    <3> QED BY <3>1, <3>2
  <2>3. CASE t # s
    <3>1. Current(t)' /\ Going(t)'
      BY <2>1, <2>3, <1>5, <1>6, <1>9 DEF Current, Going
    <3>2. Peaked(t)'
      BY <2>3, <1>1, <1>6 DEF Peaked
    <3> QED BY <3>1, <3>2
  <2> QED BY <2>2, <2>3
<1> QED BY <1>1, <1>6, <1>8, <1>10 DEF FundsInv, RefusedOnlyByRace

\* A bot is replaced by a new object.
LEMMA RestartsKeep ==
    ASSUME FundsInv, NEW s \in Symbols, Restarts(s)
    PROVE  FundsInv'
<1>1. SizingTypeOK /\ RefusedOnlyByRace /\ sizing[s] \in Coroutines
  BY SizingParts DEF FundsInv
<1> DEFINE c == Waits(0)
<1>3. c \in Coroutines /\ c.at = "waits" /\ c.peak = 0
  BY <1>1, CoroutineSteps
<1>4. sizing' = [sizing EXCEPT ![s] = c]
  BY DEF Restarts
<1> HIDE DEF c
<1>5. /\ sizing' \in [Symbols -> Coroutines] /\ sizing'[s] = c
      /\ \A t \in Symbols \ {s} : sizing'[t] = sizing[t]
  BY <1>1, <1>3, <1>4, OneMoves
<1>6. /\ account' = account /\ wallet' = wallet /\ position' = position /\ peakFile' = peakFile
      /\ top' = top /\ changed' = changed /\ refused' = refused
      /\ signals' = signals /\ mishap' = mishap
  BY DEF Restarts
<1>8. SizingTypeOK'
  <2>1. /\ account \in [symbols : SUBSET Symbols, riskBased : BOOLEAN, unified : BOOLEAN]
        /\ wallet \in Wallets /\ position \in [Symbols -> Positions] /\ peakFile \in Nat
        /\ top \in Nat /\ changed \subseteq Symbols /\ refused \subseteq Symbols
        /\ signals \in 0..MaxEntries /\ mishap \in BOOLEAN
    BY <1>1, SizingParts
  <2> QED BY <2>1, <1>5, <1>6, SizingPartsNext
<1>9. Available' = Available
  BY <1>6 DEF Available, Equity
<1>10. ASSUME NEW t \in Symbols PROVE Current(t)' /\ Going(t)' /\ Peaked(t)'
  <2>1. Current(t) /\ Going(t) /\ Peaked(t)
    BY DEF FundsInv
  <2>2. CASE t = s
    <3>1. Current(t)' /\ Going(t)'
      BY <2>2, <1>1, <1>3, <1>5, <1>6 DEF Current, Going
    <3>2. Peaked(t)'
      BY <2>1, <2>2, <1>3, <1>5, <1>6 DEF Peaked
    <3> QED BY <3>1, <3>2
  <2>3. CASE t # s
    <3>1. Current(t)' /\ Going(t)'
      BY <2>1, <2>3, <1>5, <1>6, <1>9 DEF Current, Going
    <3>2. Peaked(t)'
      BY <2>1, <2>3, <1>5, <1>6 DEF Peaked
    <3> QED BY <3>1, <3>2
  <2> QED BY <2>2, <2>3
<1> QED BY <1>1, <1>6, <1>8, <1>10 DEF FundsInv, RefusedOnlyByRace

\* The account changes under the bots: a price moves or a position ends.
LEMMA AccountKeeps ==
    ASSUME FundsInv, NEW s \in Symbols,
           PositionEnds(s) \/ \E r \in Results : PriceMoves(s, r)
    PROVE  FundsInv'
<1>1. /\ account' = account /\ sizing' = sizing /\ peakFile' = peakFile /\ signals' = signals
      /\ top' = top /\ mishap' = mishap /\ refused' = refused /\ changed' = Symbols
  BY DEF PositionEnds, PriceMoves
<1>2. /\ account \in [symbols : SUBSET Symbols, riskBased : BOOLEAN, unified : BOOLEAN]
      /\ wallet \in Wallets /\ position \in [Symbols -> Positions]
      /\ sizing \in [Symbols -> Coroutines] /\ peakFile \in Nat
      /\ top \in Nat /\ changed \subseteq Symbols /\ refused \subseteq Symbols
      /\ signals \in 0..MaxEntries /\ mishap \in BOOLEAN
  BY SizingParts DEF FundsInv
<1>3. position[s] \in Positions /\ position[s].qty \in Nat /\ position[s].profit \in Int
  <2>1. Results \cup {0} \subseteq Int
    BY SizingAssumption
  <2>2. position[s] \in Positions
    BY <1>2
  <2>3. position[s].qty \in Nat /\ position[s].profit \in Results \cup {0}
    BY <2>2 DEF Positions
  <2> QED BY <2>1, <2>2, <2>3
<1>4. wallet' \in Wallets /\ position' \in [Symbols -> Positions]
  <2>1. CASE PositionEnds(s)
    <3>1. Margin(position[s].qty) \in Nat
      BY <1>3, MarginTyped
    <3>2. Flat \in Positions
      BY DEF Flat, Positions
    <3> QED BY <2>1, <3>1, <3>2, <1>2, <1>3 DEF PositionEnds, Wallets
  <2>2. ASSUME NEW r \in Results, PriceMoves(s, r)
        PROVE  wallet' \in Wallets /\ position' \in [Symbols -> Positions]
    <3>1. r \in Int
      BY SizingAssumption
    <3>2. wallet' \in Wallets
      BY <2>2, <3>1, <1>2, <1>3 DEF PriceMoves, Wallets
    <3>3. [position[s] EXCEPT !.profit = r] \in Positions
      BY <1>3 DEF Positions
    <3>4. position' = [position EXCEPT ![s] = [position[s] EXCEPT !.profit = r]]
      BY <2>2, <1>2 DEF PriceMoves
    <3> QED BY <3>2, <3>3, <3>4, <1>2
  <2> QED BY <2>1, <2>2
<1>5. SizingTypeOK'
  BY <1>1, <1>2, <1>4, SizingPartsNext
<1>6. ASSUME NEW t \in Symbols PROVE Current(t)' /\ Going(t)' /\ Peaked(t)'
  <2>1. Going(t) /\ Peaked(t)
    BY DEF FundsInv
  <2>2. Current(t)' /\ Going(t)'
    BY <2>1, <1>1 DEF Current, Going
  <2>3. Peaked(t)'
    BY <2>1, <1>1 DEF Peaked
  <2> QED BY <2>2, <2>3
<1> QED BY <1>1, <1>2, <1>5, <1>6 DEF FundsInv, RefusedOnlyByRace


\* A size is planned: the peak is brought up to date before it is compared.
LEMMA PlansKeep ==
    ASSUME FundsInv, NEW s \in Symbols, NEW percent \in Percents, NEW votes \in Votes,
           NEW distance \in Distances, Plans(s, percent, votes, distance)
    PROVE  FundsInv'
<1> DEFINE e == sizing[s].equity
           risky == account.riskBased
           peak == IF risky THEN Highest(PeakOf(s), e) ELSE sizing[s].peak
           factor == IF risky /\ InDrawdown(e, peak) THEN DdFactor ELSE 100
           qty == Rounded(IF risky THEN ByRisk(e, percent, factor, votes, distance)
                                   ELSE ByShare(e, percent, votes))
<1>1. /\ account \in [symbols : SUBSET Symbols, riskBased : BOOLEAN, unified : BOOLEAN]
      /\ wallet \in Wallets /\ position \in [Symbols -> Positions]
      /\ sizing \in [Symbols -> Coroutines] /\ peakFile \in Nat
      /\ top \in Nat /\ changed \subseteq Symbols /\ refused \subseteq Symbols
      /\ signals \in 0..MaxEntries /\ mishap \in BOOLEAN
  BY SizingParts DEF FundsInv
<1>2. /\ sizing[s] \in Coroutines /\ e \in Nat /\ sizing[s].peak \in Nat
      /\ sizing[s].at = "read" /\ s \in account.symbols /\ s \notin refused
  <2>1. sizing[s] \in Coroutines /\ sizing[s].at = "read"
    BY <1>1 DEF Plans
  <2>2. Going(s)
    BY DEF FundsInv
  <2> QED BY <2>1, <2>2 DEF Coroutines, Going
<1>3. PeakOf(s) \in Nat /\ peak \in Nat /\ factor \in {DdFactor, 100}
  <2>1. PeakOf(s) \in Nat
    BY <1>1, <1>2 DEF PeakOf
  <2>2. peak \in Nat
    BY <2>1, <1>2 DEF Highest
  <2> QED BY <2>1, <2>2
<1>4. qty \in Nat
  BY <1>2, <1>3, PlanTyped
<1>5. PICK free \in {Available, Unknown} :
         sizing' = [sizing EXCEPT ![s] = [@ EXCEPT !.at = "sized", !.peak = peak,
                                              !.qty = qty, !.factor = factor, !.free = free]]
  BY DEF Plans, ReadsAvailable
<1>6. /\ account' = account /\ wallet' = wallet /\ position' = position
      /\ signals' = signals /\ refused' = refused /\ changed' = changed \ {s}
      /\ top' = Highest(top, e)
  BY DEF Plans
<1>7. IF risky /\ e > PeakOf(s)
      THEN (peakFile' = e /\ mishap' = mishap) \/ (peakFile' = peakFile /\ mishap' = TRUE)
      ELSE peakFile' = peakFile /\ mishap' = mishap
  BY DEF Plans
<1> DEFINE d == [sizing[s] EXCEPT !.at = "sized", !.peak = peak, !.qty = qty,
                                   !.factor = factor, !.free = free]
<1>8. factor = IF risky /\ InDrawdown(e, peak) THEN DdFactor ELSE 100
  OBVIOUS
<1>9. peak = IF risky THEN Highest(PeakOf(s), e) ELSE sizing[s].peak
  OBVIOUS
<1>10. free \in Nat \cup {Unknown}
  BY <1>5, AvailableTyped DEF FundsInv
<1> HIDE DEF peak, factor, qty
<1>11. /\ d \in Coroutines /\ d.at = "sized" /\ d.peak = peak /\ d.factor = factor
       /\ d.free = free /\ d.equity = e
  BY <1>2, <1>3, <1>4, <1>10 DEF Coroutines
<1>12. sizing' = [sizing EXCEPT ![s] = d]
  BY <1>5
<1> HIDE DEF d
<1>13. /\ sizing' \in [Symbols -> Coroutines] /\ sizing'[s] = d
       /\ \A t \in Symbols \ {s} : sizing'[t] = sizing[t]
  BY <1>11, <1>12, OneMoves DEF FundsInv
<1> HIDE DEF e, risky
<1>14. peakFile' \in Nat /\ top' \in Nat
  BY <1>1, <1>2, <1>6, <1>7 DEF Highest, e
<1>15. mishap' \in BOOLEAN /\ (mishap => mishap')
  BY <1>1, <1>7, Zenon
<1>16. SizingTypeOK'
  <2>1. changed' \subseteq Symbols
    BY <1>1, <1>6
  <2> QED BY <2>1, <1>1, <1>6, <1>13, <1>14, <1>15, SizingPartsNext
<1>17. Available' = Available
  BY <1>6 DEF Available, Equity
<1>18. ASSUME NEW t \in Symbols PROVE Current(t)' /\ Going(t)' /\ Peaked(t)'
  <2>1. Current(t) /\ Going(t) /\ Peaked(t)
    BY DEF FundsInv
  <2>2. CASE t = s
    <3>1. Current(t)'
      BY <2>2, <1>5, <1>11, <1>13, <1>17 DEF Current, Unknown
    <3>2. Going(t)'
      BY <2>2, <1>2, <1>6, <1>13 DEF Going
    <3>3. ASSUME account.symbols = {s}, risky, ~mishap'
          PROVE  /\ peakFile' = top' /\ peak = top'
                 /\ factor = IF InDrawdown(e, top') THEN DdFactor ELSE 100
      <4>1. ~mishap /\ (e > PeakOf(s) => peakFile' = e) /\ (~(e > PeakOf(s)) => peakFile' = peakFile)
        BY <3>3, <1>7, <1>15
      <4>2. peakFile = top /\ sizing[s].peak \in {0, top}
        BY <2>1, <2>2, <3>3, <4>1 DEF Peaked, risky
      <4>3. PeakOf(s) = top
        BY <4>2 DEF PeakOf
      <4>4. peak = Highest(top, e) /\ top' = peak
        BY <3>3, <4>3, <1>6, <1>9
      <4>5. peakFile' = top'
        BY <4>1, <4>2, <4>3, <4>4, <1>1, <1>2 DEF Highest, e
      <4> QED BY <3>3, <4>4, <4>5, <1>8
    <3>4. Peaked(t)'
      <4> SUFFICES ASSUME account'.symbols = {t}, account'.riskBased, ~mishap'
                   PROVE  /\ peakFile' = top' /\ sizing'[t].peak \in {0, top'}
                          /\ sizing'[t].factor = IF InDrawdown(sizing'[t].equity, top')
                                                  THEN DdFactor ELSE 100
        BY DEF Peaked
      <4>1. account.symbols = {s} /\ risky
        BY <2>2, <1>6 DEF risky
      <4>2. sizing'[t].peak = peak /\ sizing'[t].factor = factor /\ sizing'[t].equity = e
        BY <2>2, <1>11, <1>13
      <4> QED BY <4>1, <4>2, <3>3
    <3> QED BY <3>1, <3>2, <3>4
  <2>3. CASE t # s
    <3>1. Current(t)' /\ Going(t)'
      BY <2>1, <2>3, <1>6, <1>13, <1>17 DEF Current, Going
    <3>2. Peaked(t)'
      BY <2>3, <1>2, <1>6 DEF Peaked
    <3> QED BY <3>1, <3>2
  <2> QED BY <2>2, <2>3
<1>19. refused \subseteq changed /\ s \notin refused
  BY <1>2 DEF FundsInv, RefusedOnlyByRace
<1> QED BY <1>6, <1>16, <1>18, <1>19 DEF FundsInv, RefusedOnlyByRace

\* An order whose margin was available when it was sized is refused only when the
\* account has changed since.
LEMMA OrdersKeep ==
    ASSUME FundsInv, NEW s \in Symbols, Orders(s)
    PROVE  FundsInv'
<1> DEFINE qty == Capped(sizing[s].qty, sizing[s].free)
           c == Waits(sizing[s].peak)
           goes == qty > 0 /\ Margin(qty) <= Available
<1>1. /\ account \in [symbols : SUBSET Symbols, riskBased : BOOLEAN, unified : BOOLEAN]
      /\ wallet \in Wallets /\ position \in [Symbols -> Positions]
      /\ sizing \in [Symbols -> Coroutines] /\ peakFile \in Nat
      /\ top \in Nat /\ changed \subseteq Symbols /\ refused \subseteq Symbols
      /\ signals \in 0..MaxEntries /\ mishap \in BOOLEAN
  BY SizingParts DEF FundsInv
<1>2. sizing[s] \in Coroutines /\ sizing[s].at = "sized"
  BY <1>1 DEF Orders
<1>3. sizing[s].qty \in Nat /\ sizing[s].free \in Nat \cup {Unknown}
  BY <1>2 DEF Coroutines
<1>4. qty \in Nat /\ (qty > 0 => sizing[s].free \in Nat /\ Margin(qty) <= sizing[s].free)
  BY <1>3, CappedFits
<1>5. c \in Coroutines /\ c.at = "waits" /\ c.peak = sizing[s].peak
  BY <1>2 DEF Coroutines, Waits
<1>6. sizing' = [sizing EXCEPT ![s] = c]
  BY <1>1 DEF Orders
<1>7. /\ account' = account /\ peakFile' = peakFile /\ signals' = signals
      /\ top' = top /\ mishap' = mishap
  BY DEF Orders
<1>8. CASE goes
  <2>1. /\ position' = [position EXCEPT ![s] = [qty |-> qty, profit |-> 0]]
        /\ wallet' = [wallet EXCEPT !.bound = @ + Margin(qty)]
        /\ changed' = Symbols /\ refused' = refused
    BY <1>8 DEF Orders
  <2> HIDE DEF qty, c
  <2>2. wallet' \in Wallets
    <3>1. Margin(qty) \in Nat
      BY <1>4, MarginTyped
    <3> QED BY <2>1, <3>1, <1>1 DEF Wallets
  <2>3. position' \in [Symbols -> Positions]
    <3>1. [qty |-> qty, profit |-> 0] \in Positions
      BY <1>4 DEF Positions
    <3> QED BY <2>1, <3>1, <1>1
  <2>4. /\ sizing' \in [Symbols -> Coroutines] /\ sizing'[s] = c
        /\ \A t \in Symbols \ {s} : sizing'[t] = sizing[t]
    BY <1>5, <1>6, OneMoves DEF FundsInv
  <2>5. SizingTypeOK'
    BY <1>1, <1>7, <2>1, <2>2, <2>3, <2>4, SizingPartsNext
  <2>6. ASSUME NEW t \in Symbols PROVE Current(t)' /\ Going(t)' /\ Peaked(t)'
    <3>1. Going(t) /\ Peaked(t)
      BY DEF FundsInv
    <3>2. Current(t)'
      BY <2>1 DEF Current
    <3>3. CASE t = s
      <4>1. Going(t)' /\ Peaked(t)'
        BY <3>1, <3>3, <1>5, <1>7, <2>4 DEF Going, Peaked
      <4> QED BY <3>2, <4>1
    <3>4. CASE t # s
      <4>1. Going(t)' /\ Peaked(t)'
        BY <3>1, <3>4, <1>7, <2>1, <2>4 DEF Going, Peaked
      <4> QED BY <3>2, <4>1
    <3> QED BY <3>3, <3>4
  <2> QED BY <1>1, <2>1, <2>5, <2>6 DEF FundsInv, RefusedOnlyByRace
<1>9. CASE ~goes
  <2>1. /\ position' = position /\ wallet' = wallet /\ changed' = changed
        /\ refused' = IF qty > 0 THEN refused \cup {s} ELSE refused
    BY <1>9 DEF Orders
  <2>2. qty > 0 => s \in changed
    <3> SUFFICES ASSUME qty > 0, s \notin changed PROVE FALSE
      OBVIOUS
    <3>1. Current(s)
      BY DEF FundsInv
    <3>2. sizing[s].free \in {Available, Unknown}
      BY <3>1, <1>2 DEF Current
    <3>3. sizing[s].free \in Nat /\ Margin(qty) <= sizing[s].free
      BY <1>4
    <3> HIDE DEF qty
    <3>4. sizing[s].free = Available
      BY <3>2, <3>3 DEF Unknown
    <3> QED BY <3>3, <3>4, <1>9
  <2> HIDE DEF qty, c, goes
  <2>3. refused' \subseteq changed /\ refused \subseteq refused' /\ refused' \subseteq refused \cup {s}
    BY <2>1, <2>2 DEF FundsInv, RefusedOnlyByRace
  <2>4. /\ sizing' \in [Symbols -> Coroutines] /\ sizing'[s] = c
        /\ \A t \in Symbols \ {s} : sizing'[t] = sizing[t]
    BY <1>5, <1>6, OneMoves DEF FundsInv
  <2>5. SizingTypeOK'
    <3>1. refused' \subseteq Symbols
      BY <2>3, <1>1
    <3> QED BY <1>1, <1>7, <2>1, <2>4, <3>1, SizingPartsNext
  <2>6. Available' = Available
    BY <1>7, <2>1 DEF Available, Equity
  <2>7. ASSUME NEW t \in Symbols PROVE Current(t)' /\ Going(t)' /\ Peaked(t)'
    <3>1. Current(t) /\ Going(t) /\ Peaked(t)
      BY DEF FundsInv
    <3>2. CASE t = s
      BY <3>1, <3>2, <1>5, <1>7, <2>4 DEF Current, Going, Peaked
    <3>3. CASE t # s
      <4>1. Current(t)' /\ Going(t)'
        BY <3>1, <3>3, <1>7, <2>1, <2>3, <2>4, <2>6 DEF Current, Going
      <4>2. Peaked(t)'
        BY <3>1, <3>3, <1>7, <2>4 DEF Peaked
      <4> QED BY <4>1, <4>2
    <3> QED BY <3>2, <3>3
  <2> QED BY <2>1, <2>3, <2>5, <2>7 DEF FundsInv, RefusedOnlyByRace
<1> QED BY <1>8, <1>9

\* The invariant holds in every state.
LEMMA FundsInvariant == SizingSpec => []FundsInv
<1>1. ASSUME FundsInv, [SizingNext]_funds PROVE FundsInv'
  <2>1. CASE SizingNext
    <3>1. PICK s \in Symbols :
             \/ Signals(s) \/ Orders(s) \/ Restarts(s) \/ PositionEnds(s)
             \/ \E p \in Percents, v \in Votes, d \in Distances : Plans(s, p, v, d)
             \/ \E r \in Results : PriceMoves(s, r)
      BY <2>1, Zenon DEF SizingNext
    <3> QED BY <1>1, <3>1, SignalsKeep, OrdersKeep, RestartsKeep, AccountKeeps, PlansKeep, Zenon
  <2>2. CASE UNCHANGED funds
    <3>1. /\ account' = account /\ wallet' = wallet /\ position' = position
          /\ sizing' = sizing /\ peakFile' = peakFile /\ signals' = signals
          /\ top' = top /\ mishap' = mishap /\ changed' = changed /\ refused' = refused
      BY <2>2, Zenon DEF funds
    <3> QED BY <1>1, <3>1 DEF FundsInv, SizingTypeOK, Current, Going, Peaked, Available,
                              Equity, RefusedOnlyByRace
  <2> QED BY <1>1, <2>1, <2>2
<1> QED BY <1>1, FundsInitially, PTL DEF SizingSpec

\* Balances, wallets and the peak file keep their kinds, whatever is signalled, sized,
\* ordered, refused and realized in whatever order.
THEOREM SizingTypeCorrect == SizingSpec => []SizingTypeOK
<1>1. FundsInv => SizingTypeOK
  BY DEF FundsInv
<1> QED BY <1>1, FundsInvariant, PTL

\* margin_guard: whatever the leverage, the scores and the number of symbols that trade
\* on one balance, the exchange refuses an order for want of margin only when the
\* account has changed since the bot read what was available.
THEOREM RefusedOnlyByRaceHolds == SizingSpec => []RefusedOnlyByRace
<1>1. FundsInv => RefusedOnlyByRace
  BY DEF FundsInv
<1> QED BY <1>1, FundsInvariant, PTL

\* _dd_throttle_scale: unless the throttle is configured to do nothing, the only bot of
\* an account throttles exactly the entries sized in a drawdown from the highest equity
\* it has ever sized an entry from, through any number of restarts.
THEOREM ThrottleSurvivesHolds ==
    ASSUME DdFactor # 100
    PROVE  SizingSpec => []ThrottleSurvives
<1>1. FundsInv => ThrottleSurvives
  <2> SUFFICES ASSUME FundsInv, NEW s \in Symbols, account.symbols = {s}, account.riskBased,
                      ~mishap, sizing[s].at = "sized"
               PROVE  sizing[s].factor = DdFactor <=> InDrawdown(sizing[s].equity, top)
    BY DEF ThrottleSurvives
  <2>1. sizing[s].factor = IF InDrawdown(sizing[s].equity, top) THEN DdFactor ELSE 100
    BY DEF FundsInv, Peaked
  <2> QED BY <2>1
<1> QED BY <1>1, FundsInvariant, PTL

-----------------------------------------------------------------------------
(* The invariant of Ledger *)

LedgerSpec == LedgerInit /\ [][LedgerNext]_records

Early == {"down", "reconcile", "booking"}
Places == Early \cup {"idle", "filled", "gone"}

\* An event of this kind and trade is among the ones that wait.
HasIn(q, kind, t) == \E i \in 1..Len(q) : q[i].kind = kind /\ q[i].trade = t
Queued(kind, t) == HasIn(queue, kind, t)

LedgerTypes ==
    /\ now \in Nat \ {0}
    /\ opened \in [Trades -> Nat] /\ shut \in [Trades -> Nat] /\ dir \in [Trades -> Directions]
    /\ entries \in [Trades -> Nat] /\ exits \in [Trades -> Nat]
    /\ of \in [Trades -> Trades \cup {Nothing}]
    /\ torn \in BOOLEAN
    /\ queue \in Seq(Events) /\ retry \in 0..Len(queue)
    /\ mem \in Trades \cup {Nothing, Stray} /\ pc \in Places
    /\ todo \in [orphans : SUBSET Trades, list : SUBSET Trades, used : SUBSET Nat]
    /\ faults \in Nat /\ crashes \in Nat

\* What the exchange does: one trade at a time, in the order of their numbers, with
\* opening times no closed position could be taken for.
Timed ==
    /\ \A t \in Trades : /\ opened[t] <= now /\ shut[t] <= now
                         /\ shut[t] > 0 => opened[t] > 0 /\ opened[t] <= shut[t]
    /\ \A u, v \in Trades : opened[u] > 0 /\ opened[v] = 0 => u < v
    /\ \A u, v \in Trades : opened[u] > 0 /\ opened[v] > 0 /\ u # v
                               => opened[u] - opened[v] \notin -Tol..Tol
    /\ \A u, v \in Held : u = v
    /\ \A h \in Held, u \in Trades : opened[u] <= opened[h]

\* A line without its event has no result; what is booked has happened.
Lines == \A t \in Trades : /\ exits[t] = 0 => of[t] = Nothing
                           /\ entries[t] > 0 => opened[t] > 0
                           /\ exits[t] > 0 => shut[t] > 0

\* An event waits once, has happened and is not in the file.
Happened(e) ==
    /\ e.kind = "entry" => opened[e.trade] > 0 /\ entries[e.trade] = 0
    /\ e.kind = "exit" => /\ shut[e.trade] > 0 /\ exits[e.trade] = 0
                          /\ e.of \in {e.trade, Nothing}
Once(q) == \A i, j \in 1..Len(q) : q[i].kind = q[j].kind /\ q[i].trade = q[j].trade => i = j
WaitsIn(q) == (\A i \in 1..Len(q) : Happened(q[i])) /\ Once(q)
QueueSound == WaitsIn(queue)

\* The bot's trade is not booked as exited and is what the exchange holds, if anything.
Known ==
    /\ mem \in Trades => /\ opened[mem] > 0 /\ exits[mem] = 0 /\ ~Queued("exit", mem)
                         /\ \A h \in Held : h = mem
                         /\ pc \in {"reconcile", "booking"} => mem \in Held
    /\ pc = "gone" => Held = {} /\ mem # Nothing
    /\ pc \in {"filled", "down"} => mem = Nothing

\* A filled order whose entry is not booked yet is the newest trade.
JustFilled(t) ==
    /\ opened[t] > 0 /\ \A v \in Trades : opened[v] > 0 => v <= t
    /\ entries[t] = 0 /\ exits[t] = 0 /\ ~Queued("entry", t) /\ ~Queued("exit", t)
    /\ \A h \in Held : h = t
Filled == pc = "filled" => \E t \in Trades : JustFilled(t)

\* A start: no event waits, no press is under way, and unless its read failed the bot
\* knows what the exchange holds, if the file does.
Startup ==
    /\ pc = "down" => faults = 0
    /\ pc \in Early => queue = <<>> /\ ~button
    /\ pc \in {"down", "reconcile"} /\ crashes = 0 => \A t \in Trades : entries[t] = 0
    /\ pc = "booking" => crashes > 0
    /\ pc \in {"reconcile", "booking"} /\ faults = 0 => \A h \in Held : Unclosed(h) => mem = h

\* A reconciliation: what it still looks at is not booked and can be found.
Reconciling ==
    pc = "booking" =>
        /\ todo.list \subseteq Closed
        /\ \A u \in todo.orphans : /\ entries[u] > 0 /\ exits[u] = 0 /\ opened[u] \notin todo.used
                                   /\ shut[u] > 0 => u \in todo.list
        /\ faults = 0 => \A u \in Trades : Unclosed(u) => u \in todo.orphans \/ u = mem

\* Events wait only after a failed write, and failed writes do not meet crashes or presses.
Clean == faults = 0 \/ crashes > 0 => queue = <<>> /\ torn = FALSE

\* While nothing has failed the file misses no exit but that of the bot's own trade and
\* of those it has forgotten.
Complete ==
    faults = 0 /\ pc \in {"idle", "filled", "gone"}
        => \A u \in Trades : Unclosed(u) => u = mem \/ u \in dropped

\* When the exit of an older trade is missing, the entry of the one that is held is in
\* the file, so that a start does not take the one for the other.
Foremost ==
    faults = 0 /\ pc # "filled" => \A u \in Trades, h \in Held : Unclosed(u) => Unclosed(h)

LedgerInv == LedgerTypes /\ Timed /\ Lines /\ QueueSound /\ Known /\ Filled /\ Startup
             /\ Reconciling /\ Clean /\ Complete /\ Foremost

-----------------------------------------------------------------------------
(* Events and queues *)

\* Trades are numbers, and none is Nothing or Stray.
LEMMA TradesAreNumbers == Trades \subseteq Nat \ {0} /\ Nothing \notin Trades /\ Stray \notin Trades
<1>1. Cardinality(Trades) \in Nat
  BY LedgerAssumption, FS_CardinalityType
<1>2. Trades = 1..Cardinality(Trades)
  BY LedgerAssumption
<1>3. Trades \subseteq Nat \ {0}
  BY <1>1, <1>2
<1> QED BY <1>3 DEF Nothing, Stray

\* The events of a trade.
LEMMA EventsTyped ==
    /\ \A e \in Events : /\ e.kind \in {"entry", "exit"} /\ e.trade \in Trades
                         /\ e.of \in Trades \cup {Nothing}
    /\ \A t \in Trades : Entry(t) \in Events /\ Entry(t).kind = "entry" /\ Entry(t).trade = t
    /\ \A t \in Trades, c \in Trades \cup {Nothing} :
          /\ Exit(t, c) \in Events /\ Exit(t, c).kind = "exit" /\ Exit(t, c).trade = t
          /\ Exit(t, c).of = c
<1>1. ASSUME NEW e \in Events
      PROVE  e.kind \in {"entry", "exit"} /\ e.trade \in Trades /\ e.of \in Trades \cup {Nothing}
  BY DEF Events
<1>2. ASSUME NEW t \in Trades
      PROVE  Entry(t) \in Events /\ Entry(t).kind = "entry" /\ Entry(t).trade = t
  BY DEF Events, Entry
<1>3. ASSUME NEW t \in Trades, NEW c \in Trades \cup {Nothing}
      PROVE  /\ Exit(t, c) \in Events /\ Exit(t, c).kind = "exit" /\ Exit(t, c).trade = t
             /\ Exit(t, c).of = c
  BY DEF Events, Exit
<1> QED BY <1>1, <1>2, <1>3, Zenon

\* The head of the queue is taken off.
LEMMA TailWaits ==
    ASSUME NEW q \in Seq(Events), WaitsIn(q), Len(q) > 0
    PROVE  /\ q[1] \in Events /\ Happened(q[1])
           /\ Tail(q) \in Seq(Events) /\ Len(Tail(q)) = Len(q) - 1
           /\ WaitsIn(Tail(q)) /\ ~HasIn(Tail(q), q[1].kind, q[1].trade)
           /\ \A k, t : HasIn(Tail(q), k, t) => HasIn(q, k, t)
<1> DEFINE r == Tail(q)
<1>1. q # <<>> /\ Len(q) \in Nat
  OBVIOUS
<1>2. r \in Seq(Events) /\ Len(r) = Len(q) - 1 /\ \A i \in 1..Len(r) : r[i] = q[i + 1]
  BY <1>1, HeadTailProperties
<1>3. q[1] \in Events /\ Happened(q[1])
  BY <1>1 DEF WaitsIn
<1> HIDE DEF r
<1>4. \A i \in 1..Len(r) : i + 1 \in 1..Len(q) /\ i + 1 # 1
  BY <1>1, <1>2
<1>5. WaitsIn(r)
  <2>1. \A i \in 1..Len(r) : Happened(r[i])
    BY <1>2, <1>4 DEF WaitsIn
  <2>2. Once(r)
    <3> SUFFICES ASSUME NEW i \in 1..Len(r), NEW j \in 1..Len(r),
                        r[i].kind = r[j].kind, r[i].trade = r[j].trade
                 PROVE  i = j
      BY DEF Once
    <3>1. i + 1 = j + 1
      BY <1>2, <1>4 DEF WaitsIn, Once
    <3> QED BY <3>1, <1>2
  <2> QED BY <2>1, <2>2 DEF WaitsIn
<1>6. ~HasIn(r, q[1].kind, q[1].trade)
  <2> SUFFICES ASSUME NEW i \in 1..Len(r), r[i].kind = q[1].kind, r[i].trade = q[1].trade
               PROVE  FALSE
    BY DEF HasIn
  <2>1. 1 \in 1..Len(q)
    BY <1>1
  <2> QED BY <2>1, <1>2, <1>4 DEF WaitsIn, Once
<1>7. \A k, t : HasIn(r, k, t) => HasIn(q, k, t)
  BY <1>2, <1>4, Zenon DEF HasIn
<1> QED BY <1>2, <1>3, <1>5, <1>6, <1>7 DEF r

\* An event that is not in the queue joins it.
LEMMA AppendWaits ==
    ASSUME NEW q \in Seq(Events), WaitsIn(q), NEW e \in Events, Happened(e),
           ~HasIn(q, e.kind, e.trade)
    PROVE  /\ Append(q, e) \in Seq(Events) /\ Len(Append(q, e)) = Len(q) + 1
           /\ WaitsIn(Append(q, e))
           /\ \A k, t : HasIn(Append(q, e), k, t) => HasIn(q, k, t) \/ (k = e.kind /\ t = e.trade)
<1> DEFINE r == Append(q, e)
<1>1. /\ r \in Seq(Events) /\ Len(r) = Len(q) + 1 /\ Len(q) \in Nat
      /\ \A i \in 1..Len(q) : r[i] = q[i]
      /\ r[Len(q) + 1] = e
  BY AppendProperties
<1> HIDE DEF r
<1>2. \A i \in 1..Len(r) : i \in 1..Len(q) \/ i = Len(q) + 1
  BY <1>1
<1>3. \A i \in 1..Len(r) : Happened(r[i])
  BY <1>1, <1>2 DEF WaitsIn
<1>4. Once(r)
  <2> SUFFICES ASSUME NEW i \in 1..Len(r), NEW j \in 1..Len(r),
                      r[i].kind = r[j].kind, r[i].trade = r[j].trade
               PROVE  i = j
    BY DEF Once
  <2>1. CASE i \in 1..Len(q) /\ j \in 1..Len(q)
    BY <2>1, <1>1 DEF WaitsIn, Once
  <2>2. CASE i \in 1..Len(q) /\ j = Len(q) + 1
    BY <2>2, <1>1 DEF HasIn
  <2>3. CASE i = Len(q) + 1 /\ j \in 1..Len(q)
    BY <2>3, <1>1 DEF HasIn
  <2> QED BY <2>1, <2>2, <2>3, <1>2
<1>5. ASSUME NEW k, NEW t, HasIn(r, k, t) PROVE HasIn(q, k, t) \/ (k = e.kind /\ t = e.trade)
  <2>1. PICK i \in 1..Len(r) : r[i].kind = k /\ r[i].trade = t
    BY <1>5 DEF HasIn
  <2>2. CASE i \in 1..Len(q)
    BY <2>1, <2>2, <1>1 DEF HasIn
  <2>3. CASE i = Len(q) + 1
    BY <2>1, <2>3, <1>1
  <2> QED BY <2>2, <2>3, <1>2
<1> QED BY <1>1, <1>3, <1>4, <1>5 DEF r, WaitsIn

-----------------------------------------------------------------------------
(* What writing an event does *)

\* The line is in the file, or it is not and something has failed.
Booked(e) ==
    /\ entries' = IF e.kind = "entry" THEN [entries EXCEPT ![e.trade] = @ + 1] ELSE entries
    /\ exits' = IF e.kind = "exit" THEN [exits EXCEPT ![e.trade] = @ + 1] ELSE exits
    /\ of' = IF e.kind = "exit" THEN [of EXCEPT ![e.trade] = e.of] ELSE of
    /\ torn' = FALSE /\ faults' = faults
Missed ==
    /\ entries' = entries /\ exits' = exits /\ of' = of /\ torn' \in BOOLEAN
    /\ faults' \in Nat \ {0} /\ crashes = 0

\* e is written, or joins the events q that wait besides.
Writes(e, q) ==
    \/ Booked(e) /\ queue' = q
    \/ Missed /\ queue' \in {q, Append(q, e)}

\* A write succeeds, or is lost in an unreadable line.
LEMMA WrittenCases ==
    ASSUME LedgerTypes, Clean, ~Mixed, NEW e \in Events, Written(e)
    PROVE  Booked(e) \/ Missed
<1>1. faults \in Nat /\ torn \in BOOLEAN /\ crashes \in Nat
  BY DEF LedgerTypes
<1>2. CASE AppendedTorn(e)
  <2>1. crashes = 0 /\ faults' = faults + 1
    BY <1>2 DEF AppendedTorn, Fault
  <2>2. /\ entries' = entries /\ exits' = exits /\ of' = of /\ torn' = FALSE
    BY <1>2 DEF AppendedTorn
  <2>3. faults' \in Nat \ {0}
    BY <1>1, <2>1
  <2>4. torn' \in BOOLEAN
    BY <2>2, Zenon
  <2> QED BY <2>1, <2>2, <2>3, <2>4, Zenon DEF Missed
<1>3. CASE Appended(e) /\ UNCHANGED faults /\ torn
  <2>1. faults # 0 /\ crashes = 0
    BY <1>1, <1>3 DEF Clean
  <2> QED BY <1>1, <1>3, <2>1 DEF Appended, Missed
<1>4. CASE Appended(e) /\ UNCHANGED faults /\ ~torn
  BY <1>4, Zenon DEF Appended, Booked
<1> QED BY <1>1, <1>2, <1>3, <1>4 DEF Written

\* A write fails.
LEMMA FailsCases ==
    ASSUME LedgerTypes, ~Mixed, AppendFails
    PROVE  Missed
<1>1. faults \in Nat /\ torn \in BOOLEAN
  BY DEF LedgerTypes
<1>2. crashes = 0 /\ faults' = faults + 1
  BY DEF AppendFails, Fault
<1>3. torn' \in {torn, "torn" \in FaultKinds} /\ entries' = entries /\ exits' = exits /\ of' = of
  BY DEF AppendFails
<1>4. ("torn" \in FaultKinds) \in BOOLEAN
  OBVIOUS
<1>5. torn' \in BOOLEAN
  BY <1>1, <1>3, <1>4, Zenon
<1>6. faults' \in Nat \ {0}
  BY <1>1, <1>2
<1> QED BY <1>2, <1>3, <1>5, <1>6, Zenon DEF Missed

\* Recording an event either writes it or appends it to the queue.
LEMMA RecordWrites ==
    ASSUME LedgerTypes, Clean, ~Mixed, NEW e \in Events, Record(e)
    PROVE  Writes(e, queue) /\ retry' \in 0..Len(queue')
<1>1. queue \in Seq(Events) /\ retry \in 0..Len(queue) /\ Len(queue) \in Nat
  BY DEF LedgerTypes
<1>2. CASE Written(e) /\ retry' = Len(queue) /\ UNCHANGED queue
  <2>1. Booked(e) \/ Missed
    BY <1>2, WrittenCases
  <2> QED BY <2>1, <1>1, <1>2 DEF Writes
<1>3. CASE AppendFails /\ queue' = Append(queue, e) /\ UNCHANGED retry
  <2>1. Missed
    BY <1>3, FailsCases
  <2>2. Len(queue') = Len(queue) + 1
    BY <1>1, <1>3
  <2> QED BY <2>1, <2>2, <1>1, <1>3 DEF Writes
<1> QED BY <1>2, <1>3 DEF Record

\* Flushing takes the queue's first event and treats it as a new one.
LEMMA FlushWrites ==
    ASSUME LedgerTypes, Clean, ~Mixed, QueueSound, FlushOne
    PROVE  /\ Len(queue) > 0 /\ queue[1] \in Events
           /\ Writes(queue[1], Tail(queue)) /\ retry' \in 0..Len(queue')
<1>1. /\ queue \in Seq(Events) /\ retry \in 0..Len(queue) /\ Len(queue) \in Nat
      /\ retry > 0 /\ retry' = retry - 1
  BY DEF LedgerTypes, FlushOne
<1>2. Len(queue) > 0
  BY <1>1
<1>3. /\ queue[1] \in Events /\ Tail(queue) \in Seq(Events)
      /\ Len(Tail(queue)) = Len(queue) - 1
  BY <1>1, <1>2, TailWaits DEF QueueSound
<1>4. CASE Written(queue[1]) /\ queue' = Tail(queue)
  <2>1. Booked(queue[1]) \/ Missed
    BY <1>3, <1>4, WrittenCases
  <2>2. retry' \in 0..Len(queue')
    BY <1>1, <1>3, <1>4
  <2> QED BY <2>1, <2>2, <1>2, <1>3, <1>4 DEF Writes
<1>5. CASE AppendFails /\ queue' = Append(Tail(queue), queue[1])
  <2>1. Missed
    BY <1>5, FailsCases
  <2>2. Len(queue') = Len(queue)
    BY <1>1, <1>3, <1>5
  <2>3. retry' \in 0..Len(queue')
    BY <1>1, <2>2
  <2> QED BY <2>1, <2>3, <1>2, <1>3, <1>5 DEF Writes
<1> QED BY <1>4, <1>5 DEF FlushOne

\* The file, after an event was written or joined the ones that wait.
LEMMA FileTyped ==
    ASSUME LedgerTypes, Lines, Timed, NEW e \in Events, Happened(e), world' = world,
           Booked(e) \/ Missed
    PROVE  /\ entries' \in [Trades -> Nat] /\ exits' \in [Trades -> Nat]
           /\ of' \in [Trades -> Trades \cup {Nothing}] /\ torn' \in BOOLEAN /\ faults' \in Nat
           /\ \A t \in Trades : /\ t # e.trade \/ e.kind # "entry" => entries'[t] = entries[t]
                                /\ t # e.trade \/ e.kind # "exit" => exits'[t] = exits[t]
           /\ faults' = 0 \/ crashes > 0
                 => /\ torn' = FALSE /\ faults' = faults
                    /\ e.kind = "entry" => entries'[e.trade] = 1
                    /\ e.kind = "exit" => exits'[e.trade] = 1
           /\ Lines'
           /\ [Book!Next]_(Book!book)
<1>1. /\ entries \in [Trades -> Nat] /\ exits \in [Trades -> Nat] /\ crashes \in Nat
      /\ of \in [Trades -> Trades \cup {Nothing}] /\ faults \in Nat
  BY DEF LedgerTypes
<1>2. e.kind \in {"entry", "exit"} /\ e.trade \in Trades /\ e.of \in Trades \cup {Nothing}
  BY EventsTyped
<1>3. opened' = opened /\ shut' = shut
  BY DEF world
<1>4. Fresh' = Fresh /\ Closed' = Closed
  BY <1>3 DEF Fresh, Closed
<1>5. CASE Missed
  <2>1. Lines'
    BY <1>3, <1>5 DEF Lines, Missed
  <2>2. UNCHANGED Book!book
    BY <1>4, <1>5 DEF Missed, Book!book
  <2> QED BY <2>1, <2>2, <1>1, <1>5 DEF Missed
<1>6. CASE Booked(e) /\ e.kind = "entry"
  <2>1. /\ entries' = [entries EXCEPT ![e.trade] = @ + 1] /\ exits' = exits /\ of' = of
        /\ torn' = FALSE /\ faults' = faults
    BY <1>6 DEF Booked
  <2>2. opened[e.trade] > 0 /\ entries[e.trade] = 0
    BY <1>6 DEF Happened
  <2>3. Lines'
    BY <2>1, <2>2, <1>1, <1>2, <1>3 DEF Lines
  <2>4. Book!BookEntry(e.trade)
    <3>1. e.trade \in Trades \ Fresh
      BY <2>2, <1>2 DEF Fresh
    <3>2. entries' = [entries EXCEPT ![e.trade] = 1]
      BY <2>1, <2>2
    <3> QED BY <3>1, <3>2, <2>1, <2>2, <1>4 DEF Book!BookEntry
  <2>5. [Book!Next]_(Book!book)
    BY <2>4, <1>2 DEF Book!Next
  <2>6. entries'[e.trade] = 1 /\ entries' \in [Trades -> Nat]
    BY <2>1, <2>2, <1>1, <1>2
  <2>7. \A t \in Trades : t # e.trade => entries'[t] = entries[t]
    BY <2>1, <1>1
  <2> QED BY <2>1, <2>3, <2>5, <2>6, <2>7, <1>1, <1>6
<1>7. CASE Booked(e) /\ e.kind = "exit"
  <2>1. /\ exits' = [exits EXCEPT ![e.trade] = @ + 1] /\ entries' = entries
        /\ of' = [of EXCEPT ![e.trade] = e.of] /\ torn' = FALSE /\ faults' = faults
    BY <1>7 DEF Booked
  <2>2. shut[e.trade] > 0 /\ exits[e.trade] = 0 /\ e.of \in {e.trade, Nothing}
    BY <1>7 DEF Happened
  <2>3. exits'[e.trade] = 1 /\ exits' \in [Trades -> Nat] /\ of' \in [Trades -> Trades \cup {Nothing}]
    BY <2>1, <2>2, <1>1, <1>2
  <2>4. \A t \in Trades : t # e.trade => exits'[t] = exits[t] /\ of'[t] = of[t]
    BY <2>1, <1>1
  <2>5. Lines'
    <3> SUFFICES ASSUME NEW t \in Trades
                 PROVE  /\ exits'[t] = 0 => of'[t] = Nothing
                        /\ entries'[t] > 0 => opened'[t] > 0
                        /\ exits'[t] > 0 => shut'[t] > 0
      BY Zenon DEF Lines
    <3>1. /\ exits[t] = 0 => of[t] = Nothing
          /\ entries[t] > 0 => opened[t] > 0
          /\ exits[t] > 0 => shut[t] > 0
      BY DEF Lines
    <3> QED BY <3>1, <2>1, <2>2, <2>3, <2>4, <1>3
  <2>6. Book!BookExit(e.trade)
    <3>1. e.trade \in Closed
      BY <2>2, <1>2 DEF Closed
    <3>2. exits' = [exits EXCEPT ![e.trade] = 1]
      BY <2>1, <2>2
    <3>3. of' = [of EXCEPT ![e.trade] = e.trade] \/ of' = of
      <4>1. of[e.trade] = Nothing
        BY <2>2, <1>2 DEF Lines
      <4>2. e.of = Nothing => of' = of
        BY <2>1, <4>1, <1>1, <1>2
      <4> QED BY <2>1, <2>2, <4>2
    <3> QED BY <3>1, <3>2, <3>3, <2>1, <2>2, <1>4 DEF Book!BookExit
  <2>7. [Book!Next]_(Book!book)
    BY <2>6, <1>2 DEF Book!Next
  <2> QED BY <2>1, <2>3, <2>4, <2>5, <2>7, <1>1, <1>7
<1> QED BY <1>2, <1>5, <1>6, <1>7

\* The queue, likewise.
LEMMA WritesKeep ==
    ASSUME LedgerTypes, Lines, Timed, NEW e \in Events, Happened(e), world' = world,
           NEW q \in Seq(Events), WaitsIn(q), ~HasIn(q, e.kind, e.trade), Writes(e, q)
    PROVE  /\ queue' \in Seq(Events)
           /\ \A k, t : Queued(k, t)' => HasIn(q, k, t) \/ (k = e.kind /\ t = e.trade)
           /\ faults' = 0 \/ crashes > 0 => queue' = q
           /\ QueueSound'
           /\ Booked(e) \/ Missed
<1>1. /\ entries \in [Trades -> Nat] /\ exits \in [Trades -> Nat] /\ crashes \in Nat
      /\ of \in [Trades -> Trades \cup {Nothing}] /\ faults \in Nat
  BY DEF LedgerTypes
<1>2. e.kind \in {"entry", "exit"} /\ e.trade \in Trades /\ e.of \in Trades \cup {Nothing}
  BY EventsTyped
<1>3. opened' = opened /\ shut' = shut
  BY DEF world
<1>4. /\ Append(q, e) \in Seq(Events) /\ WaitsIn(Append(q, e))
      /\ \A k, t : HasIn(Append(q, e), k, t) => HasIn(q, k, t) \/ (k = e.kind /\ t = e.trade)
  BY AppendWaits
<1>5. CASE Missed /\ queue' \in {q, Append(q, e)}
  <2>1. WaitsIn(queue')
    BY <1>4, <1>5
  <2>3. QueueSound'
    <3>1. ASSUME NEW i \in 1..Len(queue')
          PROVE  LET x == queue'[i] IN
                 /\ x.kind = "entry" => opened'[x.trade] > 0 /\ entries'[x.trade] = 0
                 /\ x.kind = "exit" => /\ shut'[x.trade] > 0 /\ exits'[x.trade] = 0
                                       /\ x.of \in {x.trade, Nothing}
      <4>1. Happened(queue'[i])
        BY <2>1 DEF WaitsIn
      <4> QED BY <4>1, <1>3, <1>5 DEF Missed, Happened
    <3>2. Once(queue')
      BY <2>1 DEF WaitsIn
    <3> QED BY <3>1, <3>2 DEF QueueSound, WaitsIn, Happened, Once
  <2>4. \A k, t : Queued(k, t)' => HasIn(queue', k, t)
    BY DEF Queued, HasIn
  <2>5. ~(faults' = 0 \/ crashes > 0)
    BY <1>5 DEF Missed
  <2>6. \A k, t : Queued(k, t)' => HasIn(q, k, t) \/ (k = e.kind /\ t = e.trade)
    BY <2>4, <1>4, <1>5, Zenon
  <2>7. queue' \in Seq(Events)
    BY <1>4, <1>5
  <2> QED BY <1>5, <2>3, <2>5, <2>6, <2>7
<1>6. CASE Booked(e) /\ queue' = q
  <2>1. \A k, t : Queued(k, t)' => HasIn(q, k, t)
    BY <1>6 DEF Queued, HasIn
  <2>2. QueueSound'
    <3>1. ASSUME NEW i \in 1..Len(q)
          PROVE  LET x == q[i] IN
                 /\ x.kind = "entry" => opened'[x.trade] > 0 /\ entries'[x.trade] = 0
                 /\ x.kind = "exit" => /\ shut'[x.trade] > 0 /\ exits'[x.trade] = 0
                                       /\ x.of \in {x.trade, Nothing}
      <4>1. Happened(q[i])
        BY DEF WaitsIn
      <4>2. q[i].trade # e.trade \/ q[i].kind # e.kind
        BY DEF HasIn
      <4>3. q[i] \in Events
        OBVIOUS
      <4>4. q[i].trade \in Trades
        BY <4>3, EventsTyped
      <4>5. /\ q[i].trade # e.trade \/ e.kind # "entry" => entries'[q[i].trade] = entries[q[i].trade]
            /\ q[i].trade # e.trade \/ e.kind # "exit" => exits'[q[i].trade] = exits[q[i].trade]
        BY <4>4, <1>6, FileTyped
      <4>6. q[i].kind = "entry" => opened'[q[i].trade] > 0 /\ entries'[q[i].trade] = 0
        BY <4>1, <4>2, <4>5, <1>3 DEF Happened
      <4>7. q[i].kind = "exit" => /\ shut'[q[i].trade] > 0 /\ exits'[q[i].trade] = 0
                                  /\ q[i].of \in {q[i].trade, Nothing}
        BY <4>1, <4>2, <4>5, <1>3 DEF Happened
      <4> QED BY <4>6, <4>7
    <3>2. Once(q)
      BY DEF WaitsIn
    <3> QED BY <1>6, <3>1, <3>2 DEF QueueSound, WaitsIn, Happened, Once
  <2> QED BY <1>6, <2>1, <2>2
<1> QED BY <1>5, <1>6 DEF Writes

\* An event is recorded: what stays true whatever the bot does besides.
LEMMA RecordKeeps ==
    ASSUME LedgerInv, ~Mixed, NEW e \in Events, Happened(e), ~Queued(e.kind, e.trade),
           Record(e), world' = world, crashes' = crashes
    PROVE  /\ queue' \in Seq(Events) /\ retry' \in 0..Len(queue')
           /\ entries' \in [Trades -> Nat] /\ exits' \in [Trades -> Nat]
           /\ of' \in [Trades -> Trades \cup {Nothing}] /\ torn' \in BOOLEAN /\ faults' \in Nat
           /\ \A t \in Trades : /\ t # e.trade \/ e.kind # "entry" => entries'[t] = entries[t]
                                /\ t # e.trade \/ e.kind # "exit" => exits'[t] = exits[t]
           /\ faults' = 0 \/ crashes > 0
                 => /\ faults' = faults
                    /\ e.kind = "entry" => entries'[e.trade] = 1
                    /\ e.kind = "exit" => exits'[e.trade] = 1
           /\ \A k, t : Queued(k, t)' => Queued(k, t) \/ (k = e.kind /\ t = e.trade)
           /\ Lines' /\ QueueSound' /\ Clean'
           /\ [Book!Next]_(Book!book)
<1>1. LedgerTypes /\ Lines /\ Timed /\ Clean /\ QueueSound /\ queue \in Seq(Events)
  BY DEF LedgerInv, LedgerTypes
<1>2. Writes(e, queue) /\ retry' \in 0..Len(queue')
  BY <1>1, RecordWrites
<1>3. WaitsIn(queue) /\ ~HasIn(queue, e.kind, e.trade)
  BY <1>1 DEF QueueSound, Queued
<1>4. /\ queue' \in Seq(Events)
      /\ \A k, t : Queued(k, t)' => HasIn(queue, k, t) \/ (k = e.kind /\ t = e.trade)
      /\ faults' = 0 \/ crashes > 0 => queue' = queue
      /\ QueueSound'
      /\ Booked(e) \/ Missed
  BY <1>1, <1>2, <1>3, WritesKeep
<1>5. /\ entries' \in [Trades -> Nat] /\ exits' \in [Trades -> Nat]
      /\ of' \in [Trades -> Trades \cup {Nothing}] /\ torn' \in BOOLEAN /\ faults' \in Nat
      /\ \A t \in Trades : /\ t # e.trade \/ e.kind # "entry" => entries'[t] = entries[t]
                           /\ t # e.trade \/ e.kind # "exit" => exits'[t] = exits[t]
      /\ faults' = 0 \/ crashes > 0
            => /\ torn' = FALSE /\ faults' = faults
               /\ e.kind = "entry" => entries'[e.trade] = 1
               /\ e.kind = "exit" => exits'[e.trade] = 1
      /\ Lines'
      /\ [Book!Next]_(Book!book)
  BY <1>1, <1>4, FileTyped
<1>6. Clean'
  BY <1>1, <1>4, <1>5 DEF Clean
<1> QED BY <1>2, <1>4, <1>5, <1>6 DEF Queued

-----------------------------------------------------------------------------
(* Each action keeps the invariant and maps to a step of the book *)

\* What the proof of the refinement supposes: failures and crashes are apart (~Mixed), a
\* start is not disturbed and entries are further apart than the tolerance of the match.
Setting == ~Mixed /\ QuietStart /\ Gap > Tol

Kept == LedgerInv' /\ [Book!Next]_(Book!book)

\* The file, the queue and the exchange stay as they are.
LEMMA QuietBooks ==
    ASSUME LedgerInv, opened' = opened, shut' = shut, file' = file, queue' = queue
    PROVE  /\ Lines' /\ QueueSound' /\ [Book!Next]_(Book!book)
           /\ Held' = Held /\ Closed' = Closed
           /\ \A t \in Trades : Unclosed(t)' <=> Unclosed(t)
           /\ \A k, t : Queued(k, t)' <=> Queued(k, t)
<1>1. entries' = entries /\ exits' = exits /\ of' = of /\ torn' = torn
  BY DEF file
<1>2. Lines'
  BY <1>1 DEF LedgerInv, Lines
<1>3. QueueSound'
  BY <1>1 DEF LedgerInv, QueueSound, WaitsIn, Once, Happened
<1>4. Held' = Held /\ Closed' = Closed /\ Fresh' = Fresh
  BY DEF Held, Closed, Fresh
<1>5. UNCHANGED Book!book
  BY <1>1, <1>4 DEF Book!book
<1>6. \A t \in Trades : Unclosed(t)' <=> Unclosed(t)
  BY <1>1 DEF Unclosed
<1>7. \A k, t : Queued(k, t)' <=> Queued(k, t)
  BY DEF Queued, HasIn
<1> QED BY <1>2, <1>3, <1>4, <1>5, <1>6, <1>7

\* Time passes, or nothing happens.
LEMMA TickKeeps ==
    ASSUME LedgerInv, Tick \/ UNCHANGED records
    PROVE  Kept
<1>1. /\ opened' = opened /\ shut' = shut /\ dir' = dir /\ file' = file /\ queue' = queue
      /\ retry' = retry /\ mem' = mem /\ pc' = pc /\ todo' = todo /\ faults' = faults
      /\ crashes' = crashes /\ button' = button /\ dropped' = dropped
  BY DEF Tick, records, world, file, bot, hands
<1>2. entries' = entries /\ exits' = exits /\ of' = of /\ torn' = torn
  BY <1>1 DEF file
<1>3. now \in Nat \ {0} /\ now' \in Nat \ {0} /\ now' >= now
  <2>1. now \in Nat \ {0}
    BY DEF LedgerInv, LedgerTypes
  <2>2. now' = now + 1 \/ now' = now
    BY DEF Tick, records, world
  <2> QED BY <2>1, <2>2
<1>4. LedgerTypes'
  BY <1>1, <1>2, <1>3 DEF LedgerInv, LedgerTypes
<1>5. /\ Lines' /\ QueueSound' /\ [Book!Next]_(Book!book)
      /\ Held' = Held /\ Closed' = Closed
      /\ \A t \in Trades : Unclosed(t)' <=> Unclosed(t)
      /\ \A k, t : Queued(k, t)' <=> Queued(k, t)
  BY <1>1, QuietBooks
<1>6. Timed'
  <2>1. \A t \in Trades : opened[t] \in Nat /\ shut[t] \in Nat
    BY DEF LedgerInv, LedgerTypes
  <2>2. \A t \in Trades : /\ opened'[t] <= now' /\ shut'[t] <= now'
                          /\ shut'[t] > 0 => opened'[t] > 0 /\ opened'[t] <= shut'[t]
    BY <1>1, <1>3, <2>1 DEF LedgerInv, Timed
  <2> QED BY <1>1, <1>5, <2>2 DEF LedgerInv, Timed
<1>7. Known'
  BY <1>1, <1>2, <1>5 DEF LedgerInv, Known
<1>8. Filled'
  BY <1>1, <1>2, <1>5 DEF LedgerInv, Filled, JustFilled
<1>9. Startup'
  BY <1>1, <1>2, <1>5 DEF LedgerInv, Startup, Unclosed
<1>10. Reconciling'
  BY <1>1, <1>2, <1>5 DEF LedgerInv, Reconciling
<1>11. Clean' /\ Complete' /\ Foremost'
  <2>1. Clean'
    BY <1>1, <1>2 DEF LedgerInv, Clean
  <2>2. Complete'
    BY <1>1, <1>5 DEF LedgerInv, Complete
  <2>3. Foremost'
    BY <1>1, <1>5 DEF LedgerInv, Foremost, Held
  <2> QED BY <2>1, <2>2, <2>3
<1> QED BY <1>4, <1>5, <1>6, <1>7, <1>8, <1>9, <1>10, <1>11 DEF Kept, LedgerInv

\* The trade that is held ends: at the exchange, by the bot's order or by the button's.
Ending(t) ==
    /\ t \in Held /\ shut' = [shut EXCEPT ![t] = now]
    /\ pc \notin {"reconcile", "booking"}
    /\ pc' = pc \/ (pc = "idle" /\ pc' = "gone" /\ mem # Nothing)
    /\ crashes' = crashes \/ (crashes' = crashes + 1 /\ faults = 0 /\ pc \notin Early)
    /\ button' = button \/ pc \notin Early
    /\ UNCHANGED <<now, opened, dir, file, queue, retry, mem, todo, dropped, faults>>

\* However the trade ends, the invariant holds and the book closes it.
LEMMA TradeEnds ==
    ASSUME LedgerInv, NEW t \in Trades, Ending(t)
    PROVE  Kept
<1>1. /\ now' = now /\ opened' = opened /\ dir' = dir /\ entries' = entries /\ exits' = exits
      /\ of' = of /\ torn' = torn /\ queue' = queue /\ retry' = retry /\ mem' = mem
      /\ todo' = todo /\ faults' = faults /\ dropped' = dropped
      /\ shut' = [shut EXCEPT ![t] = now] /\ t \in Held /\ pc \notin {"reconcile", "booking"}
      /\ pc' = pc \/ (pc = "idle" /\ pc' = "gone" /\ mem # Nothing)
      /\ crashes' = crashes \/ (crashes' = crashes + 1 /\ faults = 0 /\ pc \notin Early)
      /\ button' = button \/ pc \notin Early
  BY DEF Ending, file
<1>2. /\ now \in Nat \ {0} /\ shut \in [Trades -> Nat] /\ opened \in [Trades -> Nat]
      /\ shut[t] = 0 /\ opened[t] > 0 /\ opened[t] <= now
  BY <1>1 DEF LedgerInv, LedgerTypes, Held, Timed
<1>3. shut' \in [Trades -> Nat] /\ shut'[t] = now /\ \A u \in Trades : u # t => shut'[u] = shut[u]
  BY <1>1, <1>2
<1>4. LedgerTypes'
  <2>1. pc' \in Places /\ crashes' \in Nat
    BY <1>1 DEF LedgerInv, LedgerTypes, Places
  <2> QED BY <1>1, <1>3, <2>1 DEF LedgerInv, LedgerTypes
<1>5. Held' = {} /\ Closed' = Closed \cup {t}
  <2>1. Held = {t}
    BY <1>1 DEF LedgerInv, Timed
  <2> QED BY <1>1, <1>2, <1>3, <2>1 DEF Held, Closed
<1>6. Timed'
  <2>1. ASSUME NEW u \in Trades
        PROVE  /\ opened'[u] <= now' /\ shut'[u] <= now'
               /\ shut'[u] > 0 => opened'[u] > 0 /\ opened'[u] <= shut'[u]
    <3>1. CASE u = t
      BY <3>1, <1>1, <1>2, <1>3
    <3>2. CASE u # t
      BY <3>2, <1>1, <1>2, <1>3 DEF LedgerInv, Timed
    <3> QED BY <3>1, <3>2
  <2>2. /\ \A u, v \in Held' : u = v
        /\ \A h \in Held', u \in Trades : opened'[u] <= opened'[h]
    BY <1>5
  <2>3. /\ \A u, v \in Trades : opened'[u] > 0 /\ opened'[v] = 0 => u < v
        /\ \A u, v \in Trades : opened'[u] > 0 /\ opened'[v] > 0 /\ u # v
                                   => opened'[u] - opened'[v] \notin -Tol..Tol
    BY <1>1 DEF LedgerInv, Timed
  <2> QED BY <2>1, <2>2, <2>3 DEF Timed
<1>7. Lines'
  <2>1. \A u \in Trades : shut[u] > 0 => shut'[u] > 0
    BY <1>2, <1>3
  <2> QED BY <1>1, <2>1 DEF LedgerInv, Lines
<1>8. QueueSound'
  <2> SUFFICES ASSUME NEW i \in 1..Len(queue)
               PROVE  Happened(queue[i])'
    BY <1>1 DEF LedgerInv, QueueSound, WaitsIn, Once, Happened
  <2>1. Happened(queue[i]) /\ queue[i] \in Events
    BY DEF LedgerInv, LedgerTypes, QueueSound, WaitsIn
  <2>2. queue[i].trade \in Trades
    BY <2>1, EventsTyped
  <2>3. \A u \in Trades : shut[u] > 0 => shut'[u] > 0
    BY <1>2, <1>3
  <2> QED BY <1>1, <2>1, <2>2, <2>3 DEF Happened
<1>9. \A k, u : Queued(k, u)' <=> Queued(k, u)
  BY <1>1 DEF Queued, HasIn
<1>10. Known'
  BY <1>1, <1>5, <1>9 DEF LedgerInv, Known
<1>11. Filled'
  BY <1>1, <1>5, <1>9 DEF LedgerInv, Filled, JustFilled
<1>12. Startup' /\ Reconciling' /\ Clean' /\ Complete' /\ Foremost'
  <2>1. Startup' /\ Reconciling'
    BY <1>1, <1>5 DEF LedgerInv, Startup, Reconciling, Early
  <2>2. Clean'
    BY <1>1 DEF LedgerInv, Clean
  <2>3. Complete' /\ Foremost'
    BY <1>1, <1>5 DEF LedgerInv, Complete, Foremost, Unclosed
  <2> QED BY <2>1, <2>2, <2>3
<1>13. [Book!Next]_(Book!book)
  <2>1. Fresh' = Fresh
    BY <1>1 DEF Fresh
  <2>2. t \in (Trades \ Fresh) \ Closed
    BY <1>1, <1>2 DEF Held, Fresh, Closed
  <2>3. Book!Close(t)
    BY <1>1, <1>5, <2>1, <2>2 DEF Book!Close
  <2> QED BY <2>3 DEF Book!Next
<1> QED BY <1>4, <1>6, <1>7, <1>8, <1>10, <1>11, <1>12, <1>13 DEF Kept, LedgerInv

\* The stop, the user or the bot's own order closes the trade.
LEMMA ClosesKeeps ==
    ASSUME LedgerInv, Setting, NEW t \in Trades, ExchangeCloses(t) \/ OwnClose(t)
    PROVE  Kept
<1>1. Ending(t)
  BY DEF ExchangeCloses, OwnClose, At, Ending, Starting, Setting, bot, hands
<1> QED BY <1>1, TradeEnds

\* The user presses close; nothing may be held any more.
LEMMA PressKeeps ==
    ASSUME LedgerInv, Setting, PressClose
    PROVE  Kept
<1>1. /\ now' = now /\ opened' = opened /\ dir' = dir /\ file' = file /\ entries' = entries
      /\ exits' = exits /\ of' = of /\ torn' = torn /\ queue' = queue /\ retry' = retry
      /\ mem' = mem /\ pc' = pc /\ todo' = todo /\ faults' = faults /\ dropped' = dropped
      /\ faults = 0 /\ crashes' = crashes + 1 /\ mem # Nothing
      /\ pc \notin {"reconcile", "booking"}
  BY DEF PressClose, Setting, Starting, bot, file
<1>2. pc \notin Early
  BY <1>1 DEF LedgerInv, Known, Early
<1>3. shut \in [Trades -> Nat] /\ crashes \in Nat
  BY DEF LedgerInv, LedgerTypes
<1>4. ASSUME NEW h \in Held PROVE Kept
  <2>1. h \in Trades /\ \A t \in Held : t = h
    BY DEF LedgerInv, Timed, Held
  <2>2. shut' = [shut EXCEPT ![h] = now]
    BY <1>3, <2>1 DEF PressClose
  <2>3. Ending(h)
    BY <1>1, <1>2, <2>2 DEF Ending
  <2> QED BY <2>1, <2>3, TradeEnds
<1>5. CASE Held = {}
  <2>1. shut' = shut
    BY <1>3, <1>5 DEF PressClose
  <2>2. /\ Lines' /\ QueueSound' /\ [Book!Next]_(Book!book) /\ Held' = Held
        /\ \A t \in Trades : Unclosed(t)' <=> Unclosed(t)
        /\ \A k, t : Queued(k, t)' <=> Queued(k, t)
    BY <1>1, <2>1, QuietBooks
  <2>3. LedgerTypes' /\ Timed'
    BY <1>1, <1>3, <2>1, <2>2 DEF LedgerInv, LedgerTypes, Timed
  <2>4. Known'
    BY <1>1, <2>2 DEF LedgerInv, Known
  <2>5. Filled'
    BY <1>1, <2>1, <2>2 DEF LedgerInv, Filled, JustFilled
  <2>6. Startup' /\ Reconciling'
    BY <1>1, <1>2 DEF Startup, Reconciling, Early
  <2>7. Clean' /\ Complete' /\ Foremost'
    <3>1. Clean'
      BY <1>1 DEF LedgerInv, Clean
    <3>2. Complete'
      BY <1>1, <2>2 DEF LedgerInv, Complete
    <3>3. Foremost'
      BY <1>1, <1>5, <2>2 DEF Foremost
    <3> QED BY <3>1, <3>2, <3>3
  <2> QED BY <2>2, <2>3, <2>4, <2>5, <2>6, <2>7 DEF Kept, LedgerInv
<1> QED BY <1>4, <1>5

\* The close button's handler forgets what the bot holds in memory.
LEMMA ClearsKeeps ==
    ASSUME LedgerInv, ButtonClears
    PROVE  Kept
<1>1. /\ now' = now /\ opened' = opened /\ shut' = shut /\ dir' = dir /\ file' = file
      /\ queue' = queue /\ retry' = retry /\ pc' = pc /\ todo' = todo /\ faults' = faults
      /\ crashes' = crashes /\ button
      /\ \/ mem' = mem /\ dropped' = dropped
         \/ pc # "gone" /\ mem' = Nothing /\ dropped' = dropped \cup ({mem} \cap Trades)
  BY DEF ButtonClears, world
<1>2. entries' = entries /\ exits' = exits /\ of' = of /\ torn' = torn
  BY <1>1 DEF file
<1>3. /\ Lines' /\ QueueSound' /\ [Book!Next]_(Book!book) /\ Held' = Held
      /\ \A t \in Trades : Unclosed(t)' <=> Unclosed(t)
      /\ \A k, t : Queued(k, t)' <=> Queued(k, t)
  BY <1>1, QuietBooks
<1>4. LedgerTypes' /\ Timed'
  BY <1>1, <1>2, <1>3 DEF LedgerInv, LedgerTypes, Timed
<1>5. Known'
  <2>1. CASE mem' = mem
    BY <2>1, <1>1, <1>2, <1>3 DEF LedgerInv, Known
  <2>2. CASE pc # "gone" /\ mem' = Nothing
    BY <2>2, <1>1, TradesAreNumbers DEF Known
  <2> QED BY <1>1, <2>1, <2>2
<1>6. Filled'
  BY <1>1, <1>2, <1>3 DEF LedgerInv, Filled, JustFilled
<1>7. pc \notin Early
  BY <1>1 DEF LedgerInv, Startup
<1>8. Startup' /\ Reconciling'
  BY <1>1, <1>7 DEF Startup, Reconciling, Early
<1>9. Clean' /\ Complete' /\ Foremost'
  <2>1. \A u \in Trades : u = mem \/ u \in dropped => u = mem' \/ u \in dropped'
    BY <1>1
  <2>2. Clean'
    BY <1>1, <1>2 DEF LedgerInv, Clean
  <2>3. Complete'
    BY <1>1, <1>3, <2>1 DEF LedgerInv, Complete
  <2>4. Foremost'
    BY <1>1, <1>3 DEF LedgerInv, Foremost, Held
  <2> QED BY <2>2, <2>3, <2>4
<1> QED BY <1>3, <1>4, <1>5, <1>6, <1>8, <1>9 DEF Kept, LedgerInv

\* An order is filled: the newest trade, far from all others.
LEMMA FillKeeps ==
    ASSUME LedgerInv, Setting, NEW t \in Trades, NEW d \in Directions, Fill(t, d)
    PROVE  Kept
<1>1. /\ now' = now /\ shut' = shut /\ entries' = entries /\ exits' = exits
      /\ of' = of /\ torn' = torn /\ queue' = queue /\ retry' = retry /\ mem' = mem
      /\ todo' = todo /\ faults' = faults /\ crashes' = crashes /\ dropped' = dropped
      /\ opened' = [opened EXCEPT ![t] = now] /\ dir' = [dir EXCEPT ![t] = d]
      /\ pc = "idle" /\ pc' = "filled" /\ mem = Nothing /\ Held = {}
      /\ opened[t] = 0 /\ \A u \in Trades : opened[u] = 0 => t <= u
      /\ \A u \in Trades : opened[u] # 0 => now >= opened[u] + Gap
  BY DEF Fill, At, file, Fresh, hands
<1>2. /\ now \in Nat \ {0} /\ shut \in [Trades -> Nat] /\ opened \in [Trades -> Nat]
      /\ dir \in [Trades -> Directions] /\ entries \in [Trades -> Nat] /\ exits \in [Trades -> Nat]
  BY DEF LedgerInv, LedgerTypes
<1>3. /\ opened' \in [Trades -> Nat] /\ opened'[t] = now /\ dir' \in [Trades -> Directions]
      /\ \A u \in Trades : u # t => opened'[u] = opened[u]
  BY <1>1, <1>2
<1>4. LedgerTypes'
  <2>1. pc' \in Places
    BY <1>1 DEF Places
  <2> QED BY <1>1, <1>3, <2>1 DEF LedgerInv, LedgerTypes
<1>5. shut[t] = 0 /\ entries[t] = 0 /\ exits[t] = 0
  BY <1>1, <1>2 DEF LedgerInv, Timed, Lines
<1>6. Held' = {t}
  BY <1>1, <1>2, <1>3, <1>5 DEF Held
<1>7. \A u \in Trades : opened[u] > 0 => opened'[u] > 0
  BY <1>1, <1>3
<1>8. Timed'
  <2>1. ASSUME NEW u \in Trades
        PROVE  /\ opened'[u] <= now' /\ shut'[u] <= now'
               /\ shut'[u] > 0 => opened'[u] > 0 /\ opened'[u] <= shut'[u]
    <3>1. CASE u = t
      BY <3>1, <1>1, <1>2, <1>3, <1>5
    <3>2. CASE u # t
      BY <3>2, <1>1, <1>3 DEF LedgerInv, Timed
    <3> QED BY <3>1, <3>2
  <2>2. ASSUME NEW u \in Trades, NEW v \in Trades, opened'[u] > 0, opened'[v] = 0 PROVE u < v
    <3>1. v # t /\ opened[v] = 0 /\ u \in Nat /\ v \in Nat /\ t \in Nat
      BY <2>2, <1>2, <1>3, TradesAreNumbers
    <3>2. CASE u = t
      BY <3>1, <3>2, <1>1
    <3>3. CASE u # t
      BY <2>2, <3>1, <3>3, <1>3 DEF LedgerInv, Timed
    <3> QED BY <3>2, <3>3
  <2>3. ASSUME NEW u \in Trades, opened'[u] > 0, u # t
        PROVE  opened'[u] - opened'[t] \notin -Tol..Tol /\ opened'[t] - opened'[u] \notin -Tol..Tol
    <3>1. opened[u] \in Nat \ {0} /\ now >= opened[u] + Gap /\ opened'[u] = opened[u]
      BY <2>3, <1>1, <1>2, <1>3
    <3>2. Tol \in Nat /\ Gap \in Nat /\ Gap > Tol
      BY LedgerAssumption DEF Setting
    <3> QED BY <3>1, <3>2, <1>2, <1>3
  <2>4. ASSUME NEW u \in Trades, NEW v \in Trades, opened'[u] > 0, opened'[v] > 0, u # v
        PROVE  opened'[u] - opened'[v] \notin -Tol..Tol
    <3>1. CASE u = t
      BY <2>3, <2>4, <3>1
    <3>2. CASE v = t
      BY <2>3, <2>4, <3>2
    <3>3. CASE u # t /\ v # t
      BY <2>4, <3>3, <1>3 DEF LedgerInv, Timed
    <3> QED BY <3>1, <3>2, <3>3
  <2>5. \A u, v \in Held' : u = v
    BY <1>6
  <2>6. \A h \in Held', u \in Trades : opened'[u] <= opened'[h]
    BY <1>1, <1>3, <1>6, <2>1
  <2> QED BY <2>1, <2>2, <2>4, <2>5, <2>6 DEF Timed
<1>9. Lines'
  BY <1>1, <1>7 DEF LedgerInv, Lines
<1>10. QueueSound'
  <2> SUFFICES ASSUME NEW i \in 1..Len(queue)
               PROVE  Happened(queue[i])'
    BY <1>1 DEF LedgerInv, QueueSound, WaitsIn, Once, Happened
  <2>1. Happened(queue[i]) /\ queue[i] \in Events
    BY DEF LedgerInv, LedgerTypes, QueueSound, WaitsIn
  <2>2. queue[i].trade \in Trades
    BY <2>1, EventsTyped
  <2> QED BY <1>1, <2>1, <2>2, <1>7 DEF Happened
<1>11. Known'
  <2>1. mem' \notin Trades
    BY <1>1, TradesAreNumbers
  <2> QED BY <2>1, <1>1 DEF Known
<1>12. Filled'
  <2>1. ASSUME NEW v \in Trades, opened'[v] > 0 PROVE v <= t
    <3>1. CASE v = t
      BY <3>1, TradesAreNumbers
    <3>2. CASE v # t
      <4>1. v < t
        BY <2>1, <3>2, <1>1, <1>3 DEF LedgerInv, Timed
      <4> QED BY <4>1, TradesAreNumbers
    <3> QED BY <3>1, <3>2
  <2>2. ~Queued("entry", t)' /\ ~Queued("exit", t)'
    <3> SUFFICES ASSUME NEW i \in 1..Len(queue), queue[i].kind \in {"entry", "exit"}, queue[i].trade = t
                 PROVE  FALSE
      BY <1>1 DEF Queued, HasIn
    <3>1. Happened(queue[i])
      BY DEF LedgerInv, QueueSound, WaitsIn
    <3> QED BY <3>1, <1>1, <1>5 DEF Happened
  <2>3. JustFilled(t)'
    BY <2>1, <2>2, <1>1, <1>2, <1>3, <1>5, <1>6 DEF JustFilled
  <2> QED BY <2>3 DEF Filled
<1>13. Startup' /\ Reconciling'
  BY <1>1 DEF Startup, Early, Reconciling
<1>14. Clean' /\ Complete' /\ Foremost'
  BY <1>1 DEF LedgerInv, Clean, Complete, Foremost, Unclosed
<1>15. [Book!Next]_(Book!book)
  <2>1. Trades \ Fresh = Closed
    <3>1. ASSUME NEW u \in Trades PROVE opened[u] # 0 <=> shut[u] > 0
      <4>1. shut[u] > 0 => opened[u] > 0
        BY DEF LedgerInv, Timed
      <4>2. u \notin Held
        BY <1>1
      <4> QED BY <4>1, <4>2, <1>2 DEF Held
    <3> QED BY <3>1 DEF Fresh, Closed
  <2>2. (Trades \ Fresh)' = (Trades \ Fresh) \cup {t}
    BY <1>1, <1>2, <1>3 DEF Fresh
  <2>3. t \notin Trades \ Fresh /\ Closed' = Closed
    BY <1>1 DEF Fresh, Closed
  <2>4. Book!Open(t)
    BY <1>1, <2>1, <2>2, <2>3 DEF Book!Open
  <2> QED BY <2>4 DEF Book!Next
<1> QED BY <1>4, <1>8, <1>9, <1>10, <1>11, <1>12, <1>13, <1>14, <1>15 DEF Kept, LedgerInv

\* The entry of the filled order is booked.
LEMMA BookEntryKeeps ==
    ASSUME LedgerInv, Setting, BookEntry
    PROVE  Kept
<1>1. /\ now' = now /\ opened' = opened /\ shut' = shut /\ dir' = dir /\ todo' = todo
      /\ crashes' = crashes /\ pc = "filled" /\ pc' = "idle" /\ world' = world
      /\ dropped' = dropped
  BY DEF BookEntry, At, world, hands
<1>2. PICK n \in Trades : JustFilled(n)
  BY <1>1 DEF LedgerInv, Filled
<1>3. /\ opened \in [Trades -> Nat] /\ entries \in [Trades -> Nat] /\ exits \in [Trades -> Nat]
      /\ faults \in Nat
  BY DEF LedgerInv, LedgerTypes
<1>4. Record(Entry(n)) /\ mem' = n
  <2> DEFINE t == CHOOSE u \in Trades \ Fresh : \A v \in Trades \ Fresh : v <= u
  <2>1. n \in Trades \ Fresh /\ \A v \in Trades \ Fresh : v <= n
    BY <1>2, <1>3 DEF JustFilled, Fresh
  <2>2. t \in Trades \ Fresh /\ \A v \in Trades \ Fresh : v <= t
    BY <2>1
  <2>3. Record(Entry(t)) /\ mem' = t
    BY DEF BookEntry
  <2> HIDE DEF t
  <2>4. t = n
    BY <2>1, <2>2, TradesAreNumbers
  <2> QED BY <2>3, <2>4
<1>5. /\ Entry(n) \in Events /\ Entry(n).kind = "entry" /\ Entry(n).trade = n
  BY EventsTyped
<1>6. Happened(Entry(n)) /\ ~Queued(Entry(n).kind, Entry(n).trade)
  BY <1>2, <1>5 DEF JustFilled, Happened
<1> DEFINE e == Entry(n)
<1>7. /\ queue' \in Seq(Events) /\ retry' \in 0..Len(queue')
      /\ entries' \in [Trades -> Nat] /\ exits' \in [Trades -> Nat]
      /\ of' \in [Trades -> Trades \cup {Nothing}] /\ torn' \in BOOLEAN /\ faults' \in Nat
      /\ \A t \in Trades : /\ t # e.trade \/ e.kind # "entry" => entries'[t] = entries[t]
                           /\ t # e.trade \/ e.kind # "exit" => exits'[t] = exits[t]
      /\ faults' = 0 \/ crashes > 0
            => faults' = faults /\ (e.kind = "entry" => entries'[e.trade] = 1)
      /\ \A k, t : Queued(k, t)' => Queued(k, t) \/ (k = e.kind /\ t = e.trade)
      /\ Lines' /\ QueueSound' /\ Clean'
      /\ [Book!Next]_(Book!book)
  BY <1>1, <1>4, <1>5, <1>6, RecordKeeps DEF Setting
<1>8. /\ \A t \in Trades : t # n => entries'[t] = entries[t]
      /\ \A t \in Trades : exits'[t] = exits[t]
      /\ \A t : Queued("exit", t)' => Queued("exit", t)
      /\ faults' = 0 => faults = 0 /\ entries'[n] = 1
  BY <1>5, <1>7
<1> HIDE DEF e
<1>9. LedgerTypes'
  <2>1. pc' \in Places /\ mem' \in Trades \cup {Nothing, Stray}
    BY <1>1, <1>4 DEF Places
  <2> QED BY <1>1, <1>7, <2>1 DEF LedgerInv, LedgerTypes
<1>10. Timed' /\ Held' = Held
  BY <1>1 DEF LedgerInv, Timed, Held
<1>11. Known'
  <2>1. opened'[n] > 0 /\ exits'[n] = 0 /\ ~Queued("exit", n)' /\ \A h \in Held' : h = n
    BY <1>1, <1>2, <1>8, <1>10 DEF JustFilled
  <2> QED BY <2>1, <1>1, <1>4 DEF Known
<1>12. Filled' /\ Startup' /\ Reconciling'
  BY <1>1 DEF Filled, Startup, Early, Reconciling
<1>13. Complete'
  <2> SUFFICES ASSUME faults' = 0, NEW u \in Trades, Unclosed(u)', u # n PROVE u \in dropped'
    BY <1>4 DEF Complete
  <2>1. faults = 0 /\ Unclosed(u)
    BY <1>7, <1>8 DEF Unclosed
  <2>2. mem = Nothing
    BY <1>1 DEF LedgerInv, Known
  <2> QED BY <2>1, <2>2, <1>1, TradesAreNumbers DEF LedgerInv, Complete
<1>14. Foremost'
  <2>1. faults' = 0 => Unclosed(n)'
    BY <1>2, <1>8 DEF Unclosed, JustFilled
  <2>2. \A h \in Held' : h = n
    BY <1>2, <1>10 DEF JustFilled
  <2> QED BY <2>1, <2>2 DEF Foremost
<1> QED BY <1>7, <1>9, <1>10, <1>11, <1>12, <1>13, <1>14 DEF Kept, LedgerInv

\* A sync finds no position.
LEMMA SyncGoneKeeps ==
    ASSUME LedgerInv, SyncGone
    PROVE  Kept
<1>1. /\ now' = now /\ opened' = opened /\ shut' = shut /\ dir' = dir /\ file' = file
      /\ queue' = queue /\ retry' = retry /\ mem' = mem /\ todo' = todo /\ faults' = faults
      /\ crashes' = crashes /\ pc = "idle" /\ pc' = "gone" /\ mem # Nothing /\ Held = {}
      /\ dropped' = dropped
  BY DEF SyncGone, At, world, hands
<1>2. entries' = entries /\ exits' = exits /\ of' = of /\ torn' = torn
  BY <1>1 DEF file
<1>3. /\ Lines' /\ QueueSound' /\ [Book!Next]_(Book!book) /\ Held' = Held
      /\ \A t \in Trades : Unclosed(t)' <=> Unclosed(t)
      /\ \A k, t : Queued(k, t)' <=> Queued(k, t)
  BY <1>1, QuietBooks
<1>4. LedgerTypes'
  <2>1. pc' \in Places
    BY <1>1 DEF Places
  <2> QED BY <1>1, <1>2, <2>1 DEF LedgerInv, LedgerTypes
<1>5. Timed'
  BY <1>1, <1>3 DEF LedgerInv, Timed
<1>6. Known'
  BY <1>1, <1>2, <1>3 DEF LedgerInv, Known
<1>7. Filled' /\ Startup' /\ Reconciling'
  BY <1>1 DEF Filled, Startup, Early, Reconciling
<1>8. Clean' /\ Complete' /\ Foremost'
  BY <1>1, <1>2, <1>3 DEF LedgerInv, Clean, Complete, Foremost
<1> QED BY <1>3, <1>4, <1>5, <1>6, <1>7, <1>8 DEF Kept, LedgerInv

\* Opening times are apart: only a trade's own close is taken for it.
LEMMA CandidatesOwn ==
    ASSUME LedgerInv, NEW t \in Trades, opened[t] > 0, NEW list \in SUBSET Closed, NEW used
    PROVE  /\ Candidates(t, list, used) \subseteq {t}
           /\ t \in list /\ opened[t] \notin used => Candidates(t, list, used) = {t}
           /\ Candidates(t, list, used) # {} => First(Candidates(t, list, used)) = t /\ t \in list
<1> DEFINE cs == Candidates(t, list, used)
<1>1. opened \in [Trades -> Nat] /\ list \subseteq Trades /\ Tol \in Nat
  BY LedgerAssumption DEF LedgerInv, LedgerTypes, Closed
<1>2. ASSUME NEW c \in cs PROVE c = t /\ t \in list
  <2>1. c \in list /\ c \in Trades /\ opened[c] - opened[t] \in -Tol..Tol
    BY <1>1 DEF Candidates
  <2>2. opened[c] > 0
    BY <2>1 DEF LedgerInv, Timed, Closed
  <2>3. c = t
    BY <2>1, <2>2 DEF LedgerInv, Timed
  <2> QED BY <2>1, <2>3
<1>3. ASSUME t \in list, opened[t] \notin used PROVE t \in cs
  <2>1. opened[t] - opened[t] \in -Tol..Tol
    BY <1>1
  <2> QED BY <1>3, <2>1 DEF Candidates
<1>4. ASSUME cs # {} PROVE First(cs) = t
  <2>1. cs = {t}
    BY <1>2, <1>4
  <2>2. shut[t] <= shut[t]
    BY DEF LedgerInv, LedgerTypes
  <2> HIDE DEF cs
  <2>3. \E c \in cs : \A d \in cs : shut[d] <= shut[c]
    BY <2>1, <2>2
  <2> QED BY <2>1, <2>3 DEF First
<1> HIDE DEF cs
<1> QED BY <1>2, <1>3, <1>4 DEF cs

\* The close of the bot's trade is booked.
LEMMA SyncBooksKeeps ==
    ASSUME LedgerInv, Setting, SyncBooks
    PROVE  Kept
<1>1. /\ now' = now /\ opened' = opened /\ shut' = shut /\ dir' = dir /\ todo' = todo
      /\ crashes' = crashes /\ pc = "gone" /\ pc' = "idle" /\ mem' = Nothing /\ world' = world
      /\ dropped' = dropped
  BY DEF SyncBooks, At, world, hands
<1>2. /\ opened \in [Trades -> Nat] /\ shut \in [Trades -> Nat]
      /\ entries \in [Trades -> Nat] /\ exits \in [Trades -> Nat]
      /\ faults \in Nat /\ mem \in Trades \cup {Nothing, Stray} /\ mem # Nothing /\ Held = {}
  BY <1>1 DEF LedgerInv, LedgerTypes, Known
<1>3. Timed' /\ Held' = Held
  BY <1>1 DEF LedgerInv, Timed, Held
<1>4. Known'
  <2>1. mem' \notin Trades
    BY <1>1, TradesAreNumbers
  <2> QED BY <2>1, <1>1 DEF Known
<1>5. Filled' /\ Startup' /\ Reconciling'
  BY <1>1 DEF Filled, Startup, Early, Reconciling
<1>6. pc' \in Places /\ mem' \in Trades \cup {Nothing, Stray} /\ Foremost'
  BY <1>1, <1>2, <1>3 DEF Places, Foremost
<1>7. CASE mem = Stray
  <2>1. file' = file /\ queue' = queue /\ retry' = retry /\ faults' = faults
    BY <1>7 DEF SyncBooks
  <2>2. entries' = entries /\ exits' = exits /\ of' = of /\ torn' = torn
    BY <2>1 DEF file
  <2>3. /\ Lines' /\ QueueSound' /\ [Book!Next]_(Book!book)
        /\ \A t \in Trades : Unclosed(t)' <=> Unclosed(t)
    BY <1>1, <2>1, QuietBooks
  <2>4. LedgerTypes'
    BY <1>1, <1>6, <2>1, <2>2 DEF LedgerInv, LedgerTypes
  <2>5. Clean'
    BY <1>1, <2>1, <2>2 DEF LedgerInv, Clean
  <2>6. Complete'
    BY <1>1, <1>7, <2>1, <2>3, TradesAreNumbers DEF LedgerInv, Complete
  <2> QED BY <1>3, <1>4, <1>5, <1>6, <2>3, <2>4, <2>5, <2>6 DEF Kept, LedgerInv
<1>8. CASE mem \in Trades
  <2>1. PICK c \in RecentCloseOf(mem) : Record(Exit(mem, c))
    BY <1>8, TradesAreNumbers DEF SyncBooks
  <2>2. opened[mem] > 0 /\ exits[mem] = 0 /\ ~Queued("exit", mem)
    BY <1>8 DEF LedgerInv, Known
  <2>3. shut[mem] > 0
    BY <1>2, <1>8, <2>2 DEF Held
  <2>4. c \in {mem, Nothing}
    <3>1. ClosedSince(opened[mem]) \in SUBSET Closed
      BY DEF ClosedSince
    <3>2. /\ Candidates(mem, ClosedSince(opened[mem]), {}) # {}
             => First(Candidates(mem, ClosedSince(opened[mem]), {})) = mem
      BY <1>8, <2>2, <3>1, CandidatesOwn
    <3> QED BY <2>1, <3>2 DEF RecentCloseOf
  <2> DEFINE e == Exit(mem, c)
  <2>5. /\ e \in Events /\ e.kind = "exit" /\ e.trade = mem /\ e.of = c
    BY <1>8, <2>4, EventsTyped
  <2> HIDE DEF e
  <2>6. Happened(e) /\ ~Queued(e.kind, e.trade)
    BY <2>2, <2>3, <2>4, <2>5 DEF Happened
  <2>7. /\ queue' \in Seq(Events) /\ retry' \in 0..Len(queue')
        /\ entries' \in [Trades -> Nat] /\ exits' \in [Trades -> Nat]
        /\ of' \in [Trades -> Trades \cup {Nothing}] /\ torn' \in BOOLEAN /\ faults' \in Nat
        /\ \A t \in Trades : /\ t # e.trade \/ e.kind # "entry" => entries'[t] = entries[t]
                             /\ t # e.trade \/ e.kind # "exit" => exits'[t] = exits[t]
        /\ faults' = 0 \/ crashes > 0
              => faults' = faults /\ (e.kind = "exit" => exits'[e.trade] = 1)
        /\ Lines' /\ QueueSound' /\ Clean'
        /\ [Book!Next]_(Book!book)
    BY <1>1, <2>1, <2>5, <2>6, RecordKeeps DEF Setting, e
  <2>8. LedgerTypes'
    BY <1>1, <1>6, <2>7 DEF LedgerInv, LedgerTypes
  <2>9. Complete'
    <3> SUFFICES ASSUME faults' = 0, NEW u \in Trades, Unclosed(u)' PROVE u \in dropped'
      BY DEF Complete
    <3>1. faults = 0 /\ exits'[mem] = 1 /\ entries'[u] = entries[u]
      BY <2>5, <2>7
    <3>2. u # mem /\ exits'[u] = 0 /\ entries'[u] > 0
      BY <3>1 DEF Unclosed
    <3>3. Unclosed(u)
      BY <2>5, <2>7, <3>1, <3>2 DEF Unclosed
    <3> QED BY <1>1, <3>1, <3>2, <3>3 DEF LedgerInv, Complete
  <2> QED BY <1>3, <1>4, <1>5, <1>6, <2>7, <2>8, <2>9 DEF Kept, LedgerInv
<1> QED BY <1>2, <1>7, <1>8

\* An event that waits is tried again; it fails to the end of the queue.
LEMMA FlushKeeps ==
    ASSUME LedgerInv, Setting, FlushOne
    PROVE  Kept
<1>1. /\ now' = now /\ opened' = opened /\ shut' = shut /\ dir' = dir /\ todo' = todo
      /\ mem' = mem /\ pc' = pc /\ crashes' = crashes /\ world' = world /\ button' = button
  BY DEF FlushOne, world, hands
<1>2. LedgerTypes /\ Lines /\ Timed /\ Clean /\ QueueSound /\ queue \in Seq(Events)
  BY DEF LedgerInv, LedgerTypes
<1> DEFINE e == queue[1]
           q == Tail(queue)
<1>3. Len(queue) > 0 /\ e \in Events /\ Writes(e, q) /\ retry' \in 0..Len(queue')
  BY <1>2, FlushWrites DEF Setting
<1>4. /\ Happened(e) /\ q \in Seq(Events) /\ WaitsIn(q) /\ ~HasIn(q, e.kind, e.trade)
      /\ \A k, t : HasIn(q, k, t) => Queued(k, t)
  BY <1>2, <1>3, TailWaits DEF QueueSound, Queued
<1>5. Queued(e.kind, e.trade) /\ queue # <<>>
  <2>1. Len(queue) \in Nat
    BY <1>2
  <2>2. 1 \in 1..Len(queue) /\ queue # <<>>
    BY <1>3, <2>1
  <2> QED BY <2>2 DEF Queued, HasIn
<1> HIDE DEF e, q
<1>6. /\ queue' \in Seq(Events)
      /\ \A k, t : Queued(k, t)' => HasIn(q, k, t) \/ (k = e.kind /\ t = e.trade)
      /\ QueueSound'
      /\ Booked(e) \/ Missed
  BY <1>1, <1>2, <1>3, <1>4, WritesKeep
<1>7. /\ entries' \in [Trades -> Nat] /\ exits' \in [Trades -> Nat]
      /\ of' \in [Trades -> Trades \cup {Nothing}] /\ torn' \in BOOLEAN /\ faults' \in Nat
      /\ \A t \in Trades : /\ t # e.trade \/ e.kind # "entry" => entries'[t] = entries[t]
                           /\ t # e.trade \/ e.kind # "exit" => exits'[t] = exits[t]
      /\ faults' = 0 \/ crashes > 0 => faults' = faults
      /\ Lines'
      /\ [Book!Next]_(Book!book)
  BY <1>1, <1>2, <1>3, <1>4, <1>6, FileTyped
<1>8. faults # 0 /\ ~(crashes > 0) /\ faults' # 0
  BY <1>2, <1>5, <1>7 DEF Clean
<1>9. \A k, t : Queued(k, t)' => Queued(k, t)
  BY <1>4, <1>5, <1>6, Zenon
<1>10. /\ \A t \in Trades : ~Queued("exit", t) => exits'[t] = exits[t]
       /\ \A t \in Trades : ~Queued("entry", t) => entries'[t] = entries[t]
  BY <1>5, <1>7, Zenon
<1>11. pc \notin Early
  BY <1>5 DEF LedgerInv, Startup
<1>12. LedgerTypes'
  BY <1>1, <1>2, <1>3, <1>6, <1>7 DEF LedgerTypes
<1>13. Timed' /\ Held' = Held
  BY <1>1 DEF LedgerInv, Timed, Held
<1>14. Known'
  <2>1. Known
    BY DEF LedgerInv
  <2>2. ASSUME NEW m \in Trades, m = mem PROVE exits'[m] = 0 /\ ~Queued("exit", m)'
    BY <2>1, <2>2, <1>9, <1>10 DEF Known
  <2> QED BY <2>1, <2>2, <1>1, <1>13 DEF Known
<1>15. Filled'
  <2> SUFFICES ASSUME NEW t \in Trades, JustFilled(t) PROVE JustFilled(t)'
    BY <1>1 DEF LedgerInv, Filled
  <2>1. entries'[t] = 0 /\ exits'[t] = 0 /\ ~Queued("entry", t)' /\ ~Queued("exit", t)'
    BY <1>9, <1>10 DEF JustFilled
  <2> QED BY <2>1, <1>1, <1>13 DEF JustFilled
<1>16. Startup' /\ Reconciling'
  BY <1>1, <1>11 DEF Startup, Early, Reconciling
<1>17. Clean' /\ Complete' /\ Foremost'
  BY <1>1, <1>8 DEF Clean, Complete, Foremost
<1> QED BY <1>6, <1>7, <1>12, <1>13, <1>14, <1>15, <1>16, <1>17 DEF Kept, LedgerInv

\* The bot dies or is stopped.
LEMMA CrashKeeps ==
    ASSUME LedgerInv, Setting, Crash
    PROVE  Kept
<1>1. /\ now' = now /\ opened' = opened /\ shut' = shut /\ dir' = dir /\ file' = file
      /\ entries' = entries /\ exits' = exits /\ of' = of /\ torn' = torn
      /\ faults' = faults /\ faults = 0 /\ crashes' = crashes + 1
      /\ pc' = "down" /\ mem' = Nothing /\ queue' = <<>> /\ retry' = 0 /\ todo' = NoTodo
      /\ button' = FALSE /\ (pc = "filled" => dropped = {})
  BY DEF Crash, world, file, Setting
<1>2. crashes \in Nat /\ pc \in Places /\ queue = <<>> /\ torn = FALSE
  BY <1>1 DEF LedgerInv, LedgerTypes, Clean
<1>3. /\ Lines' /\ QueueSound' /\ [Book!Next]_(Book!book) /\ Held' = Held
      /\ \A t \in Trades : Unclosed(t)' <=> Unclosed(t)
  BY <1>1, <1>2, QuietBooks
<1>4. LedgerTypes'
  <2>1. todo' \in [orphans : SUBSET Trades, list : SUBSET Trades, used : SUBSET Nat]
    BY <1>1 DEF NoTodo
  <2>2. pc' \in Places /\ mem' \in Trades \cup {Nothing, Stray} /\ queue' \in Seq(Events)
        /\ retry' \in 0..Len(queue') /\ crashes' \in Nat
    BY <1>1, <1>2 DEF Places, Early
  <2> QED BY <1>1, <2>1, <2>2 DEF LedgerInv, LedgerTypes
<1>5. Timed'
  BY <1>1, <1>3 DEF LedgerInv, Timed
<1>6. Known'
  <2>1. mem' \notin Trades
    BY <1>1, TradesAreNumbers
  <2> QED BY <2>1, <1>1 DEF Known
<1>7. Startup'
  BY <1>1, <1>2 DEF Startup
<1>8. Foremost'
  <2> SUFFICES ASSUME NEW u \in Trades, NEW h \in Held, Unclosed(u) PROVE Unclosed(h)
    BY <1>3 DEF Foremost, Held
  <2>1. CASE pc = "filled"
    <3>1. mem = Nothing /\ dropped = {}
      BY <1>1, <2>1 DEF LedgerInv, Known
    <3> QED BY <1>1, <2>1, <3>1, TradesAreNumbers DEF LedgerInv, Complete
  <2> QED BY <1>1, <2>1 DEF LedgerInv, Foremost
<1>9. Filled' /\ Reconciling' /\ Clean' /\ Complete'
  BY <1>1, <1>2 DEF Filled, Reconciling, Clean, Complete
<1> QED BY <1>3, <1>4, <1>5, <1>6, <1>7, <1>8, <1>9 DEF Kept, LedgerInv

\* A start takes the trade that is held, when its entry is in the file.
LEMMA RecoversHeld ==
    ASSUME LedgerInv, pc = "down", Recovers, NEW h \in Held
    PROVE  mem' \in {h, Stray} /\ (mem' = h <=> Unclosed(h))
<1>1. h \in Trades /\ opened[h] > 0 /\ \A t \in Held : t = h
  BY DEF LedgerInv, LedgerTypes, Timed, Held
<1> DEFINE own == {u \in Trades : Unclosed(u) /\ dir[u] = dir[h]}
           last == {u \in own : \A v \in own : opened[v] <= opened[u]}
<1>2. mem' \in last \cup (IF h \in last THEN {} ELSE {Stray})
  BY <1>1 DEF Recovers
<1>3. \A u \in own : opened[u] \in Nat \ {0} /\ opened[u] <= opened[h] /\ Unclosed(h) /\ u \in Trades
  <2>1. faults = 0
    BY DEF LedgerInv, Startup
  <2> QED BY <2>1 DEF LedgerInv, LedgerTypes, Timed, Lines, Unclosed, Foremost
<1>4. opened[h] \in Nat
  BY <1>1 DEF LedgerInv, LedgerTypes
<1>5. Unclosed(h) => h \in last
  BY <1>1, <1>3, <1>4
<1>6. ASSUME NEW u \in last PROVE u = h /\ Unclosed(h)
  <2>1. Unclosed(h) /\ opened[u] <= opened[h] /\ opened[u] \in Nat \ {0} /\ u \in Trades
    BY <1>3
  <2>2. opened[h] <= opened[u]
    BY <1>1, <2>1
  <2>3. opened[u] - opened[h] = 0 /\ Tol \in Nat
    BY <1>4, <2>1, <2>2, LedgerAssumption
  <2>4. opened[u] - opened[h] \in -Tol..Tol
    BY <2>3
  <2> QED BY <1>1, <2>1, <2>4 DEF LedgerInv, Timed
<1>7. Stray # h
  BY <1>1, TradesAreNumbers
<1> HIDE DEF last
<1> QED BY <1>2, <1>5, <1>6, <1>7

\* A start, with the position it has read or without one.
LEMMA StartKeeps ==
    ASSUME LedgerInv, Start
    PROVE  Kept
<1>1. /\ now' = now /\ opened' = opened /\ shut' = shut /\ dir' = dir /\ file' = file
      /\ entries' = entries /\ exits' = exits /\ of' = of /\ torn' = torn
      /\ queue' = queue /\ retry' = retry /\ todo' = todo /\ button' = button
      /\ crashes' = crashes /\ pc = "down" /\ pc' = "reconcile"
      /\ \/ Recovers /\ faults' = faults
         \/ faults' = faults + 1 /\ mem' = Nothing
  BY DEF Start, Fault, world, file
<1>2. faults = 0 /\ queue = <<>> /\ ~button /\ faults' \in Nat
  BY <1>1 DEF LedgerInv, Startup, Early
<1>3. /\ Lines' /\ QueueSound' /\ [Book!Next]_(Book!book) /\ Held' = Held
      /\ \A t \in Trades : Unclosed(t)' <=> Unclosed(t)
      /\ \A k, t : ~Queued(k, t)'
  <2>1. \A k, t : ~Queued(k, t)'
    BY <1>1, <1>2 DEF Queued, HasIn
  <2> QED BY <2>1, <1>1, QuietBooks
<1>4. /\ mem' \in Held \cup {Nothing, Stray}
      /\ mem' \in Held => Unclosed(mem')
      /\ faults' = 0 => \A h \in Held : Unclosed(h) => mem' = h
  <2>1. CASE mem' = Nothing /\ (faults' = 0 => Held = {})
    BY <2>1, TradesAreNumbers DEF Held
  <2>2. CASE Recovers /\ Held = {}
    BY <2>1, <2>2 DEF Recovers
  <2>3. ASSUME Recovers, NEW h \in Held
        PROVE  /\ mem' \in {h, Stray} /\ (mem' = h <=> Unclosed(h))
               /\ \A t \in Held : t = h
               /\ Stray \notin Held
    BY <1>1, <2>3, RecoversHeld, TradesAreNumbers DEF LedgerInv, Timed, Held
  <2>4. CASE Recovers /\ Held # {}
    BY <2>3, <2>4
  <2> QED BY <1>1, <1>2, <2>1, <2>2, <2>4
<1>5. mem' \in Trades => mem' \in Held /\ Unclosed(mem')
  BY <1>4, TradesAreNumbers
<1>6. LedgerTypes'
  <2>1. pc' \in Places /\ mem' \in Trades \cup {Nothing, Stray}
    BY <1>1, <1>4 DEF Places, Early, Held
  <2> QED BY <1>1, <1>2, <2>1 DEF LedgerInv, LedgerTypes
<1>7. Timed' /\ Clean'
  BY <1>1, <1>2, <1>3 DEF LedgerInv, Timed, Clean
<1>8. Known'
  <2>1. ASSUME NEW m \in Trades, m = mem'
        PROVE  opened[m] > 0 /\ exits[m] = 0 /\ m \in Held /\ \A h \in Held : h = m
    BY <1>5, <2>1 DEF LedgerInv, Timed, Held, Unclosed
  <2> QED BY <2>1, <1>1, <1>3 DEF Known
<1>9. Startup'
  BY <1>1, <1>2, <1>3, <1>4 DEF LedgerInv, Startup, Held
<1>10. Foremost'
  BY <1>1, <1>2, <1>3 DEF LedgerInv, Foremost, Held
<1>11. Filled' /\ Reconciling' /\ Complete'
  BY <1>1 DEF Filled, Reconciling, Complete
<1> QED BY <1>3, <1>6, <1>7, <1>8, <1>9, <1>10, <1>11 DEF Kept, LedgerInv

\* The closed list is read, or cannot be.
LEMMA ReconcileKeeps ==
    ASSUME LedgerInv, Reconcile
    PROVE  Kept
<1> DEFINE orphans == {t \in Trades : Unclosed(t)}
<1>1. /\ now' = now /\ opened' = opened /\ shut' = shut /\ dir' = dir /\ file' = file
      /\ entries' = entries /\ exits' = exits /\ of' = of /\ torn' = torn
      /\ queue' = queue /\ retry' = retry /\ mem' = mem /\ crashes' = crashes
      /\ pc = "reconcile" /\ button' = button
  BY DEF Reconcile, At, world, file, hands
<1>2. /\ faults \in Nat /\ queue = <<>> /\ ~button /\ opened \in [Trades -> Nat] /\ shut \in [Trades -> Nat]
      /\ entries \in [Trades -> Nat] /\ crashes \in Nat
  BY <1>1 DEF LedgerInv, LedgerTypes, Startup, Early
<1>3. /\ Lines' /\ QueueSound' /\ [Book!Next]_(Book!book) /\ Held' = Held /\ Closed' = Closed
      /\ \A t \in Trades : Unclosed(t)' <=> Unclosed(t)
      /\ \A k, t : Queued(k, t)' <=> Queued(k, t)
  BY <1>1, QuietBooks
<1>4. Timed'
  BY <1>1, <1>3 DEF LedgerInv, Timed
<1>5. ASSUME pc' = "idle", faults' \in Nat, todo' = todo, faults' = 0 => faults = 0 /\ orphans = {}
      PROVE  Kept
  <2>1. LedgerTypes'
    <3>1. pc' \in Places
      BY <1>5 DEF Places
    <3> QED BY <1>1, <1>5, <3>1 DEF LedgerInv, LedgerTypes
  <2>2. Known'
    BY <1>1, <1>3, <1>5 DEF LedgerInv, Known
  <2>3. Filled' /\ Startup' /\ Reconciling'
    BY <1>5 DEF Filled, Startup, Early, Reconciling
  <2>4. Clean'
    BY <1>1, <1>2, <1>5 DEF LedgerInv, Clean
  <2>5. Complete' /\ Foremost'
    BY <1>3, <1>5 DEF Complete, Foremost, Held
  <2> QED BY <1>3, <1>4, <2>1, <2>2, <2>3, <2>4, <2>5 DEF Kept, LedgerInv
<1>6. CASE orphans = {}
  <2>1. pc' = "idle" /\ todo' = todo /\ faults' = faults
    BY <1>6 DEF Reconcile
  <2> HIDE DEF orphans
  <2> QED BY <2>1, <1>2, <1>5, <1>6
<1>7. CASE orphans # {} /\ Fault("fetch") /\ pc' = "idle" /\ todo' = todo
  <2>1. faults' = faults + 1
    BY <1>7 DEF Fault
  <2> HIDE DEF orphans
  <2> QED BY <2>1, <1>2, <1>5, <1>7
<1>8. ASSUME NEW t \in orphans, \A u \in orphans : opened[t] <= opened[u],
             todo' = [orphans |-> orphans, list |-> ClosedSince(opened[t]), used |-> {}],
             pc' = "booking", faults' = faults
      PROVE  Kept
  <2>1. todo'.orphans = orphans /\ todo'.list = ClosedSince(opened[t]) /\ todo'.used = {}
    BY <1>8
  <2>2. LedgerTypes'
    <3>1. todo' \in [orphans : SUBSET Trades, list : SUBSET Trades, used : SUBSET Nat]
      BY <1>8 DEF ClosedSince, Closed
    <3>2. pc' \in Places
      BY <1>8 DEF Places, Early
    <3> QED BY <1>1, <1>8, <3>1, <3>2 DEF LedgerInv, LedgerTypes
  <2>3. Known'
    BY <1>1, <1>3, <1>8 DEF LedgerInv, Known
  <2>4. Startup'
    <3>1. crashes > 0
      <4>1. entries[t] # 0
        BY <1>2 DEF Unclosed
      <4> QED BY <4>1, <1>1, <1>2 DEF LedgerInv, Startup
    <3>2. faults' = 0 => \A h \in Held' : Unclosed(h)' => mem' = h
      BY <1>1, <1>3, <1>8 DEF LedgerInv, Startup, Held
    <3> QED BY <3>1, <3>2, <1>1, <1>2, <1>8 DEF Startup
  <2>5. Reconciling'
    <3>1. todo'.list \subseteq Closed'
      BY <2>1, <1>3 DEF ClosedSince
    <3>2. ASSUME NEW u \in todo'.orphans
          PROVE  /\ entries'[u] > 0 /\ exits'[u] = 0 /\ opened'[u] \notin todo'.used
                 /\ shut'[u] > 0 => u \in todo'.list
      <4>1. u \in Trades /\ Unclosed(u) /\ opened[t] <= opened[u] /\ t \in Trades
        BY <2>1, <1>8
      <4>2. shut[u] > 0 => shut[u] >= opened[t]
        <5>1. shut[u] > 0 => opened[u] <= shut[u]
          BY <4>1 DEF LedgerInv, Timed
        <5>2. opened[u] \in Nat /\ shut[u] \in Nat /\ opened[t] \in Nat
          BY <4>1, <1>2
        <5> QED BY <4>1, <5>1, <5>2
      <4> QED BY <4>1, <4>2, <1>1, <2>1 DEF Unclosed, ClosedSince, Closed
    <3>3. ASSUME NEW u \in Trades, Unclosed(u)' PROVE u \in todo'.orphans
      BY <2>1, <3>3, <1>3
    <3> QED BY <3>1, <3>2, <3>3 DEF Reconciling
  <2>6. Filled' /\ Complete' /\ Clean' /\ Foremost'
    BY <1>1, <1>3, <1>8 DEF LedgerInv, Filled, Complete, Clean, Foremost, Held
  <2> QED BY <1>3, <1>4, <2>2, <2>3, <2>4, <2>5, <2>6 DEF Kept, LedgerInv
<1>9. CASE orphans # {} /\ ~(Fault("fetch") /\ pc' = "idle" /\ todo' = todo)
  <2>1. \E t \in orphans :
           /\ \A u \in orphans : opened[t] <= opened[u]
           /\ todo' = [orphans |-> orphans, list |-> ClosedSince(opened[t]), used |-> {}]
           /\ pc' = "booking" /\ faults' = faults
    BY <1>9 DEF Reconcile
  <2> HIDE DEF orphans
  <2> QED BY <2>1, <1>8
<1> QED BY <1>6, <1>7, <1>9

\* The next orphan is booked with its own close, if the list shows it.
LEMMA ReconcileBooksKeeps ==
    ASSUME LedgerInv, Setting, ReconcileBooks
    PROVE  Kept
<1>1. /\ now' = now /\ opened' = opened /\ shut' = shut /\ dir' = dir
      /\ mem' = mem /\ crashes' = crashes /\ pc = "booking" /\ world' = world
      /\ button' = button
  BY DEF ReconcileBooks, At, world, hands
<1>2. /\ faults \in Nat /\ queue = <<>> /\ ~button /\ crashes > 0 /\ crashes \in Nat /\ opened \in [Trades -> Nat]
      /\ shut \in [Trades -> Nat]
      /\ todo \in [orphans : SUBSET Trades, list : SUBSET Trades, used : SUBSET Nat]
  BY <1>1 DEF LedgerInv, LedgerTypes, Startup, Early
<1>3. /\ todo.list \subseteq Closed
      /\ \A u \in todo.orphans : /\ entries[u] > 0 /\ exits[u] = 0 /\ opened[u] \notin todo.used
                                 /\ shut[u] > 0 => u \in todo.list
      /\ faults = 0 => \A u \in Trades : Unclosed(u) => u \in todo.orphans \/ u = mem
  BY <1>1 DEF LedgerInv, Reconciling
<1>4. Timed' /\ Held' = Held /\ Closed' = Closed
  BY <1>1 DEF LedgerInv, Timed, Held, Closed
<1>5. CASE todo.orphans = {}
  <2>1. pc' = "idle" /\ todo' = NoTodo /\ file' = file /\ queue' = queue /\ retry' = retry
        /\ faults' = faults
    BY <1>5 DEF ReconcileBooks
  <2>2. entries' = entries /\ exits' = exits /\ of' = of /\ torn' = torn
    BY <2>1 DEF file
  <2>3. /\ Lines' /\ QueueSound' /\ [Book!Next]_(Book!book)
        /\ \A t \in Trades : Unclosed(t)' <=> Unclosed(t)
        /\ \A k, t : Queued(k, t)' <=> Queued(k, t)
    BY <1>1, <2>1, QuietBooks
  <2>4. LedgerTypes'
    <3>1. todo' \in [orphans : SUBSET Trades, list : SUBSET Trades, used : SUBSET Nat]
      BY <2>1 DEF NoTodo
    <3>2. pc' \in Places
      BY <2>1 DEF Places
    <3> QED BY <1>1, <2>1, <2>2, <3>1, <3>2 DEF LedgerInv, LedgerTypes
  <2>5. Known'
    BY <1>1, <1>4, <2>1, <2>2, <2>3 DEF LedgerInv, Known
  <2>6. Filled' /\ Startup' /\ Reconciling'
    BY <2>1 DEF Filled, Startup, Early, Reconciling
  <2>7. Clean'
    BY <1>1, <2>1, <2>2 DEF LedgerInv, Clean
  <2>8. Complete' /\ Foremost'
    BY <1>1, <1>3, <1>4, <1>5, <2>1, <2>3 DEF LedgerInv, Complete, Foremost, Held
  <2> QED BY <1>4, <2>3, <2>4, <2>5, <2>6, <2>7, <2>8 DEF Kept, LedgerInv
<1>6. ASSUME NEW t \in todo.orphans, pc' = pc, \A u \in todo.orphans : t <= u,
             IF Candidates(t, todo.list, todo.used) = {}
             THEN /\ todo' = [todo EXCEPT !.orphans = @ \ {t}]
                  /\ UNCHANGED <<file, queue, retry, lost, faults>>
             ELSE /\ Record(Exit(t, First(Candidates(t, todo.list, todo.used))))
                  /\ todo' = [[todo EXCEPT !.orphans = @ \ {t}] EXCEPT
                                 !.used = @ \cup {opened[First(Candidates(t, todo.list, todo.used))]}]
      PROVE  Kept
  <2> DEFINE found == Candidates(t, todo.list, todo.used)
  <2>1. /\ t \in Trades /\ entries[t] > 0 /\ exits[t] = 0 /\ opened[t] \notin todo.used
        /\ shut[t] > 0 => t \in todo.list
    BY <1>2, <1>3
  <2>2. opened[t] > 0
    BY <2>1 DEF LedgerInv, Lines
  <2>3. /\ t \in todo.list => found = {t}
        /\ found # {} => First(found) = t /\ t \in todo.list
    BY <1>3, <2>1, <2>2, CandidatesOwn
  <2> HIDE DEF found
  <2>4. Filled' /\ Complete'
    BY <1>1, <1>6 DEF Filled, Complete
  <2>5. pc' \in Places /\ mem' \in Trades \cup {Nothing, Stray}
    BY <1>1, <1>6 DEF LedgerInv, LedgerTypes
  <2>6. CASE found = {}
    <3>1. /\ todo' = [todo EXCEPT !.orphans = @ \ {t}]
          /\ file' = file /\ queue' = queue /\ retry' = retry /\ faults' = faults
      BY <1>6, <2>6 DEF found
    <3>2. entries' = entries /\ exits' = exits /\ of' = of /\ torn' = torn
      BY <3>1 DEF file
    <3>3. /\ Lines' /\ QueueSound' /\ [Book!Next]_(Book!book)
          /\ \A u \in Trades : Unclosed(u)' <=> Unclosed(u)
          /\ \A k, u : Queued(k, u)' <=> Queued(k, u)
      BY <1>1, <3>1, QuietBooks
    <3>4. /\ todo'.orphans = todo.orphans \ {t} /\ todo'.list = todo.list /\ todo'.used = todo.used
          /\ todo' \in [orphans : SUBSET Trades, list : SUBSET Trades, used : SUBSET Nat]
      BY <1>2, <3>1
    <3>5. LedgerTypes'
      BY <1>1, <2>5, <3>1, <3>2, <3>4 DEF LedgerInv, LedgerTypes
    <3>6. Known'
      BY <1>1, <1>4, <1>6, <3>1, <3>2, <3>3 DEF LedgerInv, Known
    <3>7. Startup' /\ Foremost'
      BY <1>1, <1>2, <1>4, <1>6, <3>1, <3>2 DEF LedgerInv, Startup, Foremost, Unclosed
    <3>8. Clean'
      BY <1>1, <3>1, <3>2 DEF LedgerInv, Clean
    <3>9. faults = 0 => t = mem
      <4>1. t \in Held
        BY <1>2, <2>1, <2>2, <2>3, <2>6 DEF Held
      <4>2. Unclosed(t)
        BY <2>1 DEF Unclosed
      <4> QED BY <4>1, <4>2, <1>1 DEF LedgerInv, Startup
    <3>10. Reconciling'
      BY <1>1, <1>3, <1>4, <3>1, <3>2, <3>3, <3>4, <3>9 DEF Reconciling
    <3> QED BY <1>4, <2>4, <3>3, <3>5, <3>6, <3>7, <3>8, <3>10 DEF Kept, LedgerInv
  <2>7. CASE found # {}
    <3> DEFINE e == Exit(t, t)
    <3>1. Record(e) /\ todo' = [[todo EXCEPT !.orphans = @ \ {t}] EXCEPT !.used = @ \cup {opened[t]}]
      BY <1>6, <2>3, <2>7 DEF found
    <3>2. /\ todo'.orphans = todo.orphans \ {t} /\ todo'.list = todo.list
          /\ todo'.used = todo.used \cup {opened[t]}
          /\ todo' \in [orphans : SUBSET Trades, list : SUBSET Trades, used : SUBSET Nat]
      <4> DEFINE Todos == [orphans : SUBSET Trades, list : SUBSET Trades, used : SUBSET Nat]
                 rest == [todo EXCEPT !.orphans = @ \ {t}]
      <4>1. /\ rest \in Todos /\ rest.orphans = todo.orphans \ {t} /\ rest.list = todo.list
            /\ rest.used = todo.used
        BY <1>2
      <4>2. todo' = [rest EXCEPT !.used = @ \cup {opened[t]}] /\ opened[t] \in Nat
        BY <1>2, <2>1, <3>1
      <4> HIDE DEF rest
      <4> QED BY <4>1, <4>2
    <3>3. /\ e \in Events /\ e.kind = "exit" /\ e.trade = t /\ e.of = t
      BY <2>1, EventsTyped
    <3> HIDE DEF e
    <3>4. shut[t] > 0 /\ t \notin Held
      BY <1>3, <2>3, <2>7 DEF Closed, Held
    <3>5. queue = <<>>
      BY <1>2
    <3>6. Happened(e) /\ ~Queued(e.kind, e.trade)
      BY <2>1, <3>3, <3>4, <3>5 DEF Happened, Queued, HasIn
    <3>7. /\ queue' \in Seq(Events) /\ retry' \in 0..Len(queue')
          /\ entries' \in [Trades -> Nat] /\ exits' \in [Trades -> Nat]
          /\ of' \in [Trades -> Trades \cup {Nothing}] /\ torn' \in BOOLEAN /\ faults' \in Nat
          /\ \A u \in Trades : /\ u # e.trade \/ e.kind # "entry" => entries'[u] = entries[u]
                               /\ u # e.trade \/ e.kind # "exit" => exits'[u] = exits[u]
          /\ faults' = faults /\ (e.kind = "exit" => exits'[e.trade] = 1)
          /\ \A k, u : Queued(k, u)' => Queued(k, u) \/ (k = e.kind /\ u = e.trade)
          /\ Lines' /\ QueueSound' /\ Clean'
          /\ [Book!Next]_(Book!book)
      BY <1>1, <1>2, <3>1, <3>6, <3>3, RecordKeeps DEF Setting
    <3>8. /\ faults' = faults /\ exits'[t] = 1
          /\ \A u \in Trades : entries'[u] = entries[u] /\ (u # t => exits'[u] = exits[u])
      BY <1>2, <3>3, <3>7
    <3>9. ASSUME NEW u \in Trades, Unclosed(u)' PROVE u # t /\ Unclosed(u)
      BY <3>8, <3>9 DEF Unclosed
    <3>10. LedgerTypes'
      BY <1>1, <2>5, <3>2, <3>7 DEF LedgerInv, LedgerTypes
    <3>11. Known'
      <4>1. ASSUME NEW m \in Trades, m = mem
            PROVE  /\ opened'[m] > 0 /\ exits'[m] = 0 /\ ~Queued("exit", m)'
                   /\ \A h \in Held' : h = m
                   /\ m \in Held'
        <5>1. /\ opened[m] > 0 /\ exits[m] = 0 /\ ~Queued("exit", m) /\ m \in Held
              /\ \A h \in Held : h = m
          BY <4>1, <1>1 DEF LedgerInv, Known
        <5>2. m # t
          BY <5>1, <3>4
        <5>3. ~Queued("exit", m)'
          BY <5>1, <5>2, <3>3, <3>7
        <5> QED BY <5>1, <5>2, <5>3, <3>8, <1>1, <1>4
      <4> QED BY <4>1, <1>1, <1>6 DEF Known
    <3>12. queue' = <<>>
      BY <1>1, <1>2, <3>7 DEF Clean
    <3>13. Startup'
      <4>1. ASSUME NEW h \in Held', Unclosed(h)', faults = 0 PROVE mem' = h
        <5>1. h \in Held /\ h \in Trades
          BY <1>4 DEF Held
        <5>2. Unclosed(h)
          BY <5>1, <4>1, <3>9
        <5> QED BY <5>1, <5>2, <4>1, <1>1 DEF LedgerInv, Startup
      <4> QED BY <4>1, <1>1, <1>2, <1>6, <3>8, <3>12 DEF Startup
    <3>14. Foremost'
      <4> SUFFICES ASSUME faults = 0, NEW u \in Trades, NEW h \in Held, Unclosed(u)'
                   PROVE  Unclosed(h)'
        BY <1>4, <3>8 DEF Foremost
      <4>1. Unclosed(h) /\ h # t /\ h \in Trades
        BY <1>1, <3>4, <3>9 DEF LedgerInv, Foremost, Held
      <4> QED BY <4>1, <3>8 DEF Unclosed
    <3>15. Reconciling'
      <4>1. ASSUME NEW u \in todo'.orphans
            PROVE  /\ entries'[u] > 0 /\ exits'[u] = 0 /\ opened'[u] \notin todo'.used
                   /\ shut'[u] > 0 => u \in todo'.list
        <5>1. u \in todo.orphans /\ u # t /\ u \in Trades
          BY <1>2, <3>2
        <5>2. /\ entries[u] > 0 /\ exits[u] = 0 /\ opened[u] \notin todo.used
              /\ shut[u] > 0 => u \in todo.list
          BY <1>3, <5>1
        <5>3. opened[u] # opened[t]
          <6>1. opened[u] > 0
            BY <5>1, <5>2 DEF LedgerInv, Lines
          <6>2. opened[u] - opened[t] \notin -Tol..Tol
            BY <5>1, <6>1, <2>1, <2>2 DEF LedgerInv, Timed
          <6>3. Tol \in Nat /\ opened[t] \in Nat
            BY <1>2, <2>1, LedgerAssumption
          <6> QED BY <6>2, <6>3
        <5> QED BY <5>1, <5>2, <5>3, <1>1, <3>2, <3>8
      <4>2. ASSUME NEW u \in Trades, Unclosed(u)', faults = 0
            PROVE  u \in todo'.orphans \/ u = mem'
        <5>1. u # t /\ (u \in todo.orphans \/ u = mem)
          BY <4>2, <1>3, <3>9
        <5> QED BY <5>1, <1>1, <3>2
      <4> QED BY <4>1, <4>2, <1>3, <1>4, <3>2, <3>8 DEF Reconciling
    <3> QED BY <1>4, <2>4, <3>7, <3>10, <3>11, <3>13, <3>14, <3>15 DEF Kept, LedgerInv
  <2> QED BY <2>6, <2>7
<1>7. CASE todo.orphans # {}
  <2>1. PICK t \in todo.orphans :
             /\ pc' = pc /\ \A u \in todo.orphans : t <= u
             /\ IF Candidates(t, todo.list, todo.used) = {}
                THEN /\ todo' = [todo EXCEPT !.orphans = @ \ {t}]
                     /\ UNCHANGED <<file, queue, retry, lost, faults>>
                ELSE /\ Record(Exit(t, First(Candidates(t, todo.list, todo.used))))
                     /\ todo' = [[todo EXCEPT !.orphans = @ \ {t}] EXCEPT
                                    !.used = @ \cup {opened[First(Candidates(t, todo.list, todo.used))]}]
    BY <1>7, Zenon DEF ReconcileBooks
  <2> QED BY <2>1, <1>6
<1> QED BY <1>5, <1>7

\* At first the file is empty and the bot is down.
LEMMA LedgerInitially == ASSUME LedgerInit PROVE LedgerInv /\ Book!Init
<1>1. /\ now = 1 /\ opened = [t \in Trades |-> 0] /\ shut = [t \in Trades |-> 0]
      /\ dir = [t \in Trades |-> "long"] /\ entries = [t \in Trades |-> 0]
      /\ exits = [t \in Trades |-> 0] /\ of = [t \in Trades |-> Nothing] /\ torn = FALSE
      /\ queue = <<>> /\ retry = 0 /\ mem = Nothing /\ pc = "down" /\ todo = NoTodo
      /\ button = FALSE /\ faults = 0 /\ crashes = 0
  BY DEF LedgerInit
<1>2. Held = {} /\ Closed = {} /\ Trades \ Fresh = {}
  BY <1>1 DEF Held, Closed, Fresh
<1>3. LedgerTypes
  <2>1. todo \in [orphans : SUBSET Trades, list : SUBSET Trades, used : SUBSET Nat]
    BY <1>1 DEF NoTodo
  <2>2. /\ dir \in [Trades -> Directions] /\ pc \in Places /\ queue \in Seq(Events)
        /\ retry \in 0..Len(queue)
    BY <1>1 DEF Directions, Places, Early
  <2>3. torn \in BOOLEAN
    BY <1>1, Zenon
  <2> QED BY <1>1, <2>1, <2>2, <2>3 DEF LedgerTypes
<1>4. Timed /\ Lines
  BY <1>1, <1>2 DEF Timed, Lines
<1>5. QueueSound
  BY <1>1 DEF QueueSound, WaitsIn, Once
<1>6. Known
  BY <1>1, TradesAreNumbers DEF Known
<1>7. Filled /\ Startup /\ Reconciling /\ Clean /\ Complete /\ Foremost
  BY <1>1, <1>2 DEF Filled, Startup, Reconciling, Clean, Complete, Foremost
<1>8. Book!Init
  BY <1>1, <1>2 DEF Book!Init
<1> QED BY <1>3, <1>4, <1>5, <1>6, <1>7, <1>8 DEF LedgerInv

\* Every step keeps the invariant and is a step of the book or changes nothing of it.
LEMMA LedgerSteps == ASSUME LedgerInv, Setting, [LedgerNext]_records PROVE Kept
<1>1. CASE Exchange
  <2>1. CASE Tick
    BY <2>1, TickKeeps
  <2>2. CASE \E t \in Trades : ExchangeCloses(t)
    BY <2>2, ClosesKeeps
  <2>3. CASE \E t \in Trades, d \in Directions : Fill(t, d)
    BY <2>3, FillKeeps
  <2> QED BY <1>1, <2>1, <2>2, <2>3 DEF Exchange
<1>2. CASE BotRuns
  BY <1>2, BookEntryKeeps, SyncGoneKeeps, SyncBooksKeeps, FlushKeeps, StartKeeps,
     ReconcileKeeps, ReconcileBooksKeeps DEF BotRuns
<1>3. CASE Crash
  BY <1>3, CrashKeeps
<1>4. CASE Hands \/ OwnCloses
  BY <1>4, PressKeeps, ClearsKeeps, ClosesKeeps DEF Hands, OwnCloses
<1>5. CASE UNCHANGED records
  BY <1>5, TickKeeps
<1> QED BY <1>1, <1>2, <1>3, <1>4, <1>5 DEF LedgerNext

\* The records keep the promise of TradeBook: through any number of failed writes,
\* retries, torn lines, lost reads, starts that do not see the position, crashes, presses
\* of the close button and reconciliations every entry and every exit is booked at most
\* once, never before it happened, and an exit with its own result or an estimate.  ~Mixed
\* keeps failed writes away from crashes and presses, and a crash between a fill and its
\* record away from an exit the button left unbooked.  Each part of Setting is needed:
\* without it TLC finds an exit that is booked twice or with the result of another trade.
THEOREM KeepsBookHolds ==
    ASSUME ~Mixed, QuietStart, Gap > Tol
    PROVE  LedgerSpec => KeepsBook
<1>1. Setting
  BY DEF Setting
<1>2. LedgerInit => LedgerInv /\ Book!Init
  BY LedgerInitially
<1>3. LedgerInv /\ [LedgerNext]_records => LedgerInv' /\ [Book!Next]_(Book!book)
  BY <1>1, LedgerSteps DEF Kept
<1>4. LedgerSpec => Book!Init /\ [][Book!Next]_(Book!book)
  BY <1>2, <1>3, PTL DEF LedgerSpec
<1> QED BY <1>4 DEF KeepsBook, Book!Spec

\* "The ENTRY of the position that is open now is not in closed-pnl and is excluded by
\* itself": a trade that is booked as exited is one the exchange has closed.
THEOREM ExitIsRealHolds ==
    ASSUME ~Mixed, QuietStart, Gap > Tol
    PROVE  LedgerSpec => []ExitIsReal
<1>1. Setting
  BY DEF Setting
<1>2. LedgerInit => LedgerInv
  BY LedgerInitially
<1>3. LedgerInv /\ [LedgerNext]_records => LedgerInv'
  BY <1>1, LedgerSteps DEF Kept
<1>4. LedgerInv => ExitIsReal
  BY DEF LedgerInv, Lines, ExitIsReal
<1> QED BY <1>2, <1>3, <1>4, PTL DEF LedgerSpec

-----------------------------------------------------------------------------
(* Candles *)

CandlesSpec == CandlesInit /\ [][CandlesNext]_candles

\* Only the task that holds the lock has an answer under way, no bar comes before it is
\* made, a task that found no cache still finds none when its answer comes, and the answer
\* of the full history has every bar of the cache that must stay.
CandlesInv ==
    /\ \A t \in Tasks : (task[t] = "fetches") <=> (lock = t)
    /\ \A b \in cache : b <= newest
    /\ lock # Free => \A b \in answer[lock] : b <= newest
    /\ lock[1] \in {"prefetch", "look"} => cache = {}
    /\ lock[1] = "history" => \A b \in cache : b > newest - Depth => b \in answer[lock]

\* What kind a task is, and that none of them is the free lock.
LEMMA TaskKinds ==
    /\ Free[1] = "free" /\ Free \notin Tasks
    /\ \A t \in Tasks : t[1] \in Kinds /\ t[2] \in Sharers
    /\ \A k \in Kinds, b \in Sharers : <<k, b>> \in Tasks /\ <<k, b>>[1] = k
BY DEF Free, Tasks, Kinds

\* A task that becomes or ceases to wait touches nothing the invariant speaks of.
LEMMA WaitingKeeps ==
    ASSUME CandlesTypeOK, CandlesInv, NEW t \in Tasks, NEW v \in {"off", "waits"},
           task[t] # "fetches", task' = [task EXCEPT ![t] = v],
           UNCHANGED <<newest, cache, lock, answer>>
    PROVE  CandlesTypeOK' /\ CandlesInv'
<1>1. task' \in [Tasks -> {"off", "waits", "fetches"}]
  BY DEF CandlesTypeOK
<1>2. \A u \in Tasks : (task'[u] = "fetches") <=> (task[u] = "fetches")
  BY DEF CandlesTypeOK
<1> QED BY <1>1, <1>2 DEF CandlesTypeOK, CandlesInv

\* A fetch that ends without storing frees the lock.
LEMMA EndingKeeps ==
    ASSUME CandlesTypeOK, CandlesInv, NEW t \in Tasks, task' = [task EXCEPT ![t] = "off"],
           lock' = IF lock = t THEN Free ELSE lock,
           answer' = [answer EXCEPT ![t] = {}], UNCHANGED <<newest, cache>>
    PROVE  CandlesTypeOK' /\ CandlesInv'
<1>1. CandlesTypeOK'
  BY DEF CandlesTypeOK
<1>2. \A u \in Tasks : (task'[u] = "fetches") <=> (lock' = u)
  BY TaskKinds DEF CandlesTypeOK, CandlesInv
<1>3. lock' # Free => lock' = lock /\ answer'[lock'] = answer[lock]
  BY DEF CandlesTypeOK
<1>4. lock' = Free => lock'[1] = "free"
  BY TaskKinds
<1> QED BY <1>1, <1>2, <1>3, <1>4 DEF CandlesInv

\* The exchange is asked under the lock: its answer has all of its newest bars.
LEMMA FetchingKeeps ==
    ASSUME CandlesTypeOK, CandlesInv, NEW t \in Tasks, Fetches(t)
    PROVE  CandlesTypeOK' /\ CandlesInv'
<1> DEFINE A == NewestBars(Wanted(t[1]))
<1>1. /\ cache = {} \/ t[1] \in {"history", "refresh"}
      /\ task' = [task EXCEPT ![t] = "fetches"] /\ answer' = [answer EXCEPT ![t] = A]
      /\ UNCHANGED <<newest, cache>> /\ lock = Free /\ lock' = t
  BY DEF Fetches, Asks
<1>2. A \subseteq Bars /\ \A b \in A : b <= newest
  BY DEF NewestBars
<1>3. CandlesTypeOK'
  BY <1>1, <1>2 DEF CandlesTypeOK
<1>4. \A u \in Tasks : (task'[u] = "fetches") <=> (lock' = u)
  BY <1>1, TaskKinds DEF CandlesTypeOK, CandlesInv
<1>5. answer'[lock'] = A
  BY <1>1 DEF CandlesTypeOK
<1>6. t[1] = "history" => \A b \in cache : b > newest - Depth => b \in A
  BY DEF NewestBars, Wanted, CandlesTypeOK, CandlesInv
<1> QED BY <1>1, <1>2, <1>3, <1>4, <1>5, <1>6 DEF CandlesInv

\* An answer is stored by the task that holds the lock.
LEMMA StoringKeeps ==
    ASSUME CandlesTypeOK, CandlesInv, NEW t \in Tasks, Stores(t)
    PROVE  CandlesTypeOK' /\ CandlesInv'
<1>1. lock = t /\ lock' = Free /\ lock # Free
  BY TaskKinds DEF Stores, CandlesInv
<1>2. /\ cache' = IF t[1] = "refresh" THEN cache \cup answer[t] ELSE answer[t]
      /\ answer' = [answer EXCEPT ![t] = {}] /\ UNCHANGED newest
  BY DEF Stores
<1>3. cache' \subseteq Bars /\ \A b \in cache' : b <= newest
  BY <1>1, <1>2 DEF CandlesTypeOK, CandlesInv
<1>4. task' \in [Tasks -> {"off", "waits", "fetches"}]
  BY DEF Stores, CandlesTypeOK
<1>5. \A u \in Tasks : task'[u] # "fetches"
  BY <1>1 DEF Stores, CandlesInv
<1>6. CandlesTypeOK'
  BY <1>1, <1>2, <1>3, <1>4 DEF CandlesTypeOK
<1> QED BY <1>1, <1>2, <1>3, <1>5, <1>6, TaskKinds DEF CandlesInv

\* CandlesInv is kept.
LEMMA CandlesNextInv ==
    ASSUME CandlesTypeOK, CandlesInv, [CandlesNext]_candles
    PROVE  CandlesTypeOK' /\ CandlesInv'
<1>1. CASE BarEnds
  BY <1>1, CandlesAssumption DEF BarEnds, CandlesTypeOK, CandlesInv, Bars
<1>2. ASSUME NEW b \in Sharers, Prefetches(b)
      PROVE  CandlesTypeOK' /\ CandlesInv'
  BY <1>2, TaskKinds, WaitingKeeps DEF Prefetches, Scheduled, Kinds
<1>3. ASSUME NEW b \in Sharers, BotStops(b)
      PROVE  CandlesTypeOK' /\ CandlesInv'
  BY <1>3, TaskKinds, EndingKeeps DEF BotStops, Kinds
<1>4. ASSUME NEW b \in Sharers, Looks(b)
      PROVE  CandlesTypeOK' /\ CandlesInv'
  <2> DEFINE t == <<IF cache = {} THEN "look" ELSE "refresh", b>>
  <2>1. t \in Tasks
    BY TaskKinds DEF Kinds
  <2>2. task[t] = "off" /\ task' = [task EXCEPT ![t] = "waits"]
        /\ UNCHANGED <<newest, cache, lock, answer>>
    BY <1>4 DEF Looks, Scheduled
  <2> QED BY <2>1, <2>2, WaitingKeeps
<1>5. ASSUME NEW t \in Tasks, FindsIt(t) \/ LeavesIt(t)
      PROVE  CandlesTypeOK' /\ CandlesInv'
  BY <1>5, WaitingKeeps DEF FindsIt, LeavesIt
<1>6. ASSUME NEW t \in Tasks, Fails(t)
      PROVE  CandlesTypeOK' /\ CandlesInv'
  BY <1>6, EndingKeeps DEF Fails
<1>7. CASE UNCHANGED candles
  BY <1>7 DEF candles, CandlesTypeOK, CandlesInv
<1> QED BY <1>1, <1>2, <1>3, <1>4, <1>5, <1>6, <1>7, FetchingKeeps, StoringKeeps DEF CandlesNext

\* The bars of the cache that must stay are in whatever takes its place.
LEMMA StoresKeepBars ==
    ASSUME CandlesTypeOK, CandlesInv, NEW t \in Tasks, Stores(t),
           NEW b \in cache, b > newest - Depth
    PROVE  b \in cache'
<1>1. lock = t
  BY DEF Stores, CandlesInv
<1>2. t[1] \in Kinds
  BY TaskKinds
<1> QED BY <1>1, <1>2 DEF Stores, CandlesInv, Kinds

\* The cache, its lock, the tasks and what the exchange answered them stay of their kinds,
\* whatever fails or is cancelled in between.
THEOREM CandlesTypeCorrect == CandlesSpec => []CandlesTypeOK
<1>1. CandlesInit => CandlesTypeOK /\ CandlesInv
  BY CandlesAssumption, TaskKinds DEF CandlesInit, CandlesTypeOK, CandlesInv, Bars
<1> QED BY <1>1, CandlesNextInv, PTL DEF CandlesSpec


\* Bots are never given fewer of the newest bars than before, whatever fetches, of
\* whatever bots and depths, are under way.
THEOREM KeepsBarsHolds == CandlesSpec => KeepsBars
<1>1. CandlesInit => CandlesTypeOK /\ CandlesInv
  BY CandlesAssumption, TaskKinds DEF CandlesInit, CandlesTypeOK, CandlesInv, Bars
<1>2. CandlesTypeOK /\ CandlesInv /\ [CandlesNext]_candles
        => [\A b \in cache : b > newest - Depth => b \in cache']_candles
  <2>1. ASSUME CandlesTypeOK, CandlesInv, CandlesNext, NEW b \in cache, b > newest - Depth
        PROVE  b \in cache'
    <3>1. CASE \E t \in Tasks : Stores(t)
      BY <2>1, <3>1, StoresKeepBars
    <3>2. CASE ~(\E t \in Tasks : Stores(t))
      <4>1. cache' = cache
        BY <2>1, <3>2 DEF CandlesNext, BarEnds, Prefetches, BotStops, Looks, FindsIt,
                          Fetches, Asks, LeavesIt, Fails
      <4> QED BY <4>1
    <3> QED BY <3>1, <3>2
  <2> QED BY <2>1
<1> QED BY <1>1, <1>2, CandlesNextInv, PTL DEF CandlesSpec, KeepsBars

-----------------------------------------------------------------------------
(* Refused keys *)

KeyGuardSpec == KeyGuardInit /\ [][KeyGuardNext]_guards

\* What a step may make of the streaks.
LEMMA StreaksTyped ==
    ASSUME KeyGuardTypeOK, NEW end \in Ends, NEW l \in LoopStreaks(end),
           NEW a \in AuthStreaks(end), NEW w \in WriteStreaks
    PROVE  l \in Counts /\ a \in Counts /\ w \in Counts
<1>1. /\ Threshold \in Nat \ {0} /\ watch.loop \in Counts /\ watch.auth \in Counts
      /\ watch.write \in Counts
  BY KeyGuardAssumption DEF KeyGuardTypeOK
<1>2. l \in Counts
  <2>1. CASE end = "returns"
    BY <1>1, <2>1 DEF LoopStreaks, Counts
  <2>2. CASE end = "refused"
    BY <1>1, <2>2 DEF LoopStreaks, Counts
  <2>3. CASE end = "fails"
    BY <1>1, <2>3 DEF LoopStreaks
  <2> QED BY <2>1, <2>2, <2>3 DEF Ends
<1>3. a \in Counts
  BY <1>1 DEF AuthStreaks, Above, Counts
<1>4. w \in Counts
  <2>1. CASE key = "good"
    BY <1>1, <2>1 DEF WriteStreaks, Counts
  <2>2. CASE key = "readOnly"
    BY <1>1, <2>2 DEF WriteStreaks, Above
  <2>3. CASE key # "good" /\ key # "readOnly"
    BY <1>1, <2>3 DEF WriteStreaks
  <2> QED BY <2>1, <2>2, <2>3
<1> QED BY <1>2, <1>3, <1>4

\* The step, in parts.
LEMMA StepParts ==
    ASSUME Steps
    PROVE  /\ watch.runs /\ beat' = ~beat /\ key' = key
           /\ \E end \in Ends : \E l \in LoopStreaks(end), a \in AuthStreaks(end), w \in WriteStreaks :
                /\ watch' = [runs |-> Verdict(end, l, a, w) = "none", loop |-> l, auth |-> a, write |-> w]
                /\ Verdict(end, l, a, w) = "none" => recent' = recent
                /\ Verdict(end, l, a, w) # "none" => recent' = recent \cup {Verdict(end, l, a, w)}
BY DEF Steps, Tells

\* A reason to stop is "permission", or the key if that is refused.
LEMMA VerdictIs ==
    ASSUME KeyGuardTypeOK, NEW end \in Ends, NEW l, NEW a \in AuthStreaks(end), NEW w
    PROVE  \/ Verdict(end, l, a, w) \in {"none", "permission"}
           \/ Refused /\ Verdict(end, l, a, w) = key
<1>1. CASE Refused
  BY <1>1 DEF Verdict
<1>2. CASE ~Refused
  <2>1. a = 0 /\ end # "refused" /\ Threshold # 0
    BY <1>2, KeyGuardAssumption DEF AuthStreaks, Ends
  <2> QED BY <2>1 DEF Verdict
<1> QED BY <1>1, <1>2

\* Every action keeps the counters within the threshold.
LEMMA KeyGuardTyped == KeyGuardTypeOK /\ [KeyGuardNext]_guards => KeyGuardTypeOK'
<1> SUFFICES ASSUME KeyGuardTypeOK, [KeyGuardNext]_guards PROVE KeyGuardTypeOK'
    OBVIOUS
<1>0. /\ Threshold \in Nat \ {0} /\ 0 \in Counts
      /\ watch \in [runs : BOOLEAN, loop : Counts, auth : Counts, write : Counts]
      /\ NewBot \in [runs : BOOLEAN, loop : Counts, auth : Counts, write : Counts]
  BY KeyGuardAssumption DEF KeyGuardTypeOK, Counts, NewBot
<1>1. ASSUME NEW k \in {"good", "readOnly"} \cup Refusals, KeyBecomes(k) PROVE KeyGuardTypeOK'
  BY <1>1 DEF KeyBecomes, KeyGuardTypeOK
<1>2. ASSUME NEW k \in Notices, AnotherTells(k) PROVE KeyGuardTypeOK'
  BY <1>2 DEF AnotherTells, Tells, KeyGuardTypeOK
<1>3. ASSUME NEW k \in Notices, CooldownEnds(k) PROVE KeyGuardTypeOK'
  BY <1>3 DEF CooldownEnds, KeyGuardTypeOK
<1>4. CASE Starts
  <2>1. PICK a \in (IF Refused THEN Above(watch.auth) ELSE {0}) :
          watch' = [watch EXCEPT !.runs = TRUE, !.auth = a]
    BY <1>4 DEF Starts
  <2>2. a \in Counts
    BY <1>0 DEF Above
  <2>3. watch' \in [runs : BOOLEAN, loop : Counts, auth : Counts, write : Counts]
    BY <1>0, <2>1, <2>2
  <2> QED BY <1>4, <2>3 DEF Starts, KeyGuardTypeOK
<1>5. CASE Steps
  <2>1. PICK end, l, a, w :
          /\ end \in Ends
          /\ l \in LoopStreaks(end) /\ a \in AuthStreaks(end) /\ w \in WriteStreaks
          /\ watch' = [runs |-> Verdict(end, l, a, w) = "none", loop |-> l, auth |-> a, write |-> w]
          /\ Verdict(end, l, a, w) = "none" => recent' = recent
          /\ Verdict(end, l, a, w) # "none" => recent' = recent \cup {Verdict(end, l, a, w)}
    BY <1>5, StepParts
  <2>2. l \in Counts /\ a \in Counts /\ w \in Counts
    BY <2>1, StreaksTyped
  <2>3. watch' \in [runs : BOOLEAN, loop : Counts, auth : Counts, write : Counts]
    <3>1. PICK go \in BOOLEAN : watch' = [runs |-> go, loop |-> l, auth |-> a, write |-> w]
      BY <2>1
    <3> QED BY <2>2, <3>1
  <2>4. recent' \subseteq Notices
    <3>1. Verdict(end, l, a, w) \in {"none"} \cup Notices
      BY <2>1, VerdictIs DEF Refused, Notices
    <3> QED BY <2>1, <3>1 DEF KeyGuardTypeOK
  <2>5. key' = key /\ beat' \in BOOLEAN
    BY <1>5 DEF Steps
  <2> QED BY <2>3, <2>4, <2>5 DEF KeyGuardTypeOK
<1>6. CASE IsStopped
  BY <1>0, <1>6 DEF IsStopped, KeyGuardTypeOK
<1>7. CASE UNCHANGED guards
  BY <1>7 DEF guards, KeyGuardTypeOK
<1> QED BY <1>1, <1>2, <1>3, <1>4, <1>5, <1>6, <1>7 DEF KeyGuardNext

\* Counters stay at or below the threshold and notices are of known kinds.
THEOREM KeyGuardTypeCorrect == KeyGuardSpec => []KeyGuardTypeOK
<1>1. KeyGuardInit => KeyGuardTypeOK
  <2> SUFFICES ASSUME KeyGuardInit PROVE KeyGuardTypeOK
      OBVIOUS
  <2>1. 0 \in Counts
    BY KeyGuardAssumption DEF Counts
  <2>2. watch \in [runs : BOOLEAN, loop : Counts, auth : Counts, write : Counts]
    BY <2>1 DEF KeyGuardInit, NewBot
  <2> QED BY <2>2 DEF KeyGuardInit, KeyGuardTypeOK
<1> QED BY <1>1, KeyGuardTyped, PTL DEF KeyGuardSpec

\* Only a step of the bot is a heartbeat.
LEMMA BeatIsStep ==
    ASSUME KeyGuardTypeOK, [KeyGuardNext]_guards, beat' # beat
    PROVE  Steps
BY DEF KeyGuardNext, KeyBecomes, AnotherTells, CooldownEnds, Starts, IsStopped, guards

\* The safety that makes a bot with a refused key stop (_run_loop 1160-1175): where the
\* exchange refuses it the bars as well, no order of refusals, failures and answers in its
\* steps keeps both streaks down, so that it ends after a bounded number of steps.
THEOREM RefusalsCountHolds == KeyGuardSpec => RefusalsCount
<1> DEFINE Counting == (Refused /\ BarsRefused /\ watch.runs /\ beat' # beat) =>
             \/ ~watch'.runs
             \/ watch'.auth > watch.auth
             \/ watch'.auth = watch.auth /\ watch'.loop > watch.loop
<1>1. KeyGuardTypeOK /\ [KeyGuardNext]_guards => Counting
  <2> SUFFICES ASSUME KeyGuardTypeOK, [KeyGuardNext]_guards, Refused, BarsRefused,
                      beat' # beat, watch'.runs
               PROVE  \/ watch'.auth > watch.auth
                      \/ watch'.auth = watch.auth /\ watch'.loop > watch.loop
      OBVIOUS
  <2>1. PICK end, l, a, w :
          /\ end \in Ends
          /\ l \in LoopStreaks(end) /\ a \in AuthStreaks(end)
          /\ watch' = [runs |-> Verdict(end, l, a, w) = "none", loop |-> l, auth |-> a, write |-> w]
    BY BeatIsStep, StepParts
  <2>2. Verdict(end, l, a, w) = "none" /\ watch'.auth = a /\ watch'.loop = l
    BY <2>1
  <2>3. l # Threshold \/ end # "refused"
    BY <2>2, KeyGuardAssumption DEF Verdict, Refused
  <2>4. a # Threshold
    BY <2>2, KeyGuardAssumption DEF Verdict, Refused
  <2>5. watch.auth \in Counts /\ watch.loop \in Counts /\ Threshold \in Nat
    BY KeyGuardAssumption DEF KeyGuardTypeOK
  <2>6. a \in Above(watch.auth) \/ (end = "refused" /\ a = watch.auth)
    BY <2>1 DEF AuthStreaks
  <2>7. CASE a \in Above(watch.auth)
    BY <2>2, <2>4, <2>7 DEF Above
  <2>8. CASE end = "refused" /\ a = watch.auth
    <3>1. l = watch.loop + 1
      BY <2>1, <2>3, <2>8 DEF LoopStreaks
    <3> QED BY <2>2, <2>5, <2>8, <3>1 DEF Counts
  <2> QED BY <2>6, <2>7, <2>8
<1> QED BY <1>1, KeyGuardTypeCorrect, PTL DEF KeyGuardSpec, RefusalsCount

\* A bot that ends by itself has told its user why, and of a key that is not refused it
\* says nothing but that it must not trade (_notify_auth_stop).
THEOREM EndsToldHolds == KeyGuardSpec => EndsTold
<1> DEFINE Telling == (watch.runs /\ ~watch'.runs /\ beat' # beat) =>
             \E kind \in recent' : kind = "permission" \/ (Refused /\ kind = key)
<1>1. KeyGuardTypeOK /\ [KeyGuardNext]_guards => Telling
  <2> SUFFICES ASSUME KeyGuardTypeOK, [KeyGuardNext]_guards, beat' # beat, ~watch'.runs
               PROVE  \E kind \in recent' : kind = "permission" \/ (Refused /\ kind = key)
      OBVIOUS
  <2>1. PICK end, l, a, w :
          /\ end \in Ends
          /\ a \in AuthStreaks(end) /\ w \in WriteStreaks
          /\ watch' = [runs |-> Verdict(end, l, a, w) = "none", loop |-> l, auth |-> a, write |-> w]
          /\ Verdict(end, l, a, w) # "none" => recent' = recent \cup {Verdict(end, l, a, w)}
    BY BeatIsStep, StepParts
  <2>2. Verdict(end, l, a, w) # "none"
    BY <2>1
  <2>3. Verdict(end, l, a, w) \in recent'
    BY <2>1, <2>2
  <2>4. Verdict(end, l, a, w) = "permission" \/ (Refused /\ Verdict(end, l, a, w) = key)
    BY <2>1, <2>2, VerdictIs
  <2> QED BY <2>3, <2>4
<1> QED BY <1>1, KeyGuardTypeCorrect, PTL DEF KeyGuardSpec, EndsTold
=============================================================================
