----------------------------- MODULE CursusProofs -----------------------------
(***************************************************************************)
(* Theorems about Cursus.                                                  *)
(*                                                                         *)
(* The loop's code between two calls is a chain of operators that end in   *)
(* one of a few calls (Ends, Reads, Cancels, ...).  A lemma per call says  *)
(* what it keeps when it is made with a memory b; the lemmas about the     *)
(* chains and those about the actions follow the code and cite it.         *)
(***************************************************************************)
EXTENDS Cursus, FiniteSetTheorems, TLAPS

-----------------------------------------------------------------------------
(* Types, with quantities and counters unbounded *)

Sides == Directions \cup {"none"}
Holdings == [dir : Directions, qty : Nat \ {0}, sl : Nat] \cup {Flat}
Memories == [active : BOOLEAN, dir : Sides, qty : Nat, init : Nat, stop : Nat,
             filled : SUBSET Targets, synced : BOOLEAN, pend : Sides]
Answers == {"ok", "fail"}
Callers == {"none", "adopt", "pend", "manage", "open"}

VenueTypes ==
    /\ xpos \in Holdings
    /\ orders \in [Directions -> Nat]
    /\ faults \in Nat
    /\ key \in {"good", "denied", "renewed"}
    /\ streak \in [auth : Nat, write : Nat]
    /\ sent \in Nat

LoopTypes ==
    /\ bot \in Memories
    /\ pc \in Labels
    /\ reply \in Answers
    /\ view \in Holdings
    /\ see \in Bars
    /\ tries \in {1, 2}
    /\ ret \in Callers

RestTypes ==
    /\ limitEntry \in BOOLEAN
    /\ age \in Nat
    /\ booked \in BOOLEAN
    /\ asked \in Nat
    /\ api \in [pc : {"none", "uiRead", "uiClose", "stopCancel"}, reply : Answers,
                view : [dir : Sides, qty : Nat, sl : Nat]]

Types == VenueTypes /\ LoopTypes /\ RestTypes

-----------------------------------------------------------------------------
(* What the stop that the memory holds says of the exchange's *)

\* A memory that knows a position knows a stop no looser than the exchange's.
Knows(b) ==
    /\ b.active => b.dir # "none"
    /\ b.dir # "none" => b.stop >= 1 /\ (faults = 0 => xpos.sl <= b.stop)

Reading == {"recRead", "pendAdopt", "adoptRead", "revRead"}
Managing == {"protect", "emergency", "target", "ladder", "reverse", "stopExit", "syncClose"}

StopInv ==
    /\ Knows(bot)
    /\ pc \in Reading /\ reply = "ok" /\ faults = 0 => xpos.sl <= 1 \/ xpos.sl <= view.sl
    /\ pc \in Reading /\ reply = "fail" => faults > 0
    /\ pc = "market" /\ faults = 0 => xpos.sl <= 1
    /\ pc \in {"protect", "emergency"} /\ ret = "adopt" => bot.stop = 1
    /\ pc \in Managing => bot.dir # "none"
    /\ pc \in {"reverse", "revRead", "market", "limit"} => see.sig # "none"
    /\ pc = "target" => Due(bot, see.gain) # {}

\* The step StopNeverBack allows.
StopStays ==
    faults' = 0 /\ xpos.qty > 0 /\ xpos'.dir = xpos.dir /\ xpos'.qty <= xpos.qty
        => xpos'.sl >= xpos.sl

\* What a call of the loop keeps.
Kept == VenueTypes' /\ LoopTypes' /\ StopInv' /\ StopStays /\ faults' >= faults

-----------------------------------------------------------------------------
(* Lemmas about the model's operators *)

\* What the constants are, for the provers.
LEMMA Settled == /\ EntryQty \in Nat \ {0} /\ Targets = 1..4 /\ Gains \subseteq 0..4
                  /\ TrailFrom \in Nat /\ Ttl \in Nat /\ AuthStop \in Nat /\ WriteStop \in Nat
                  /\ MaxFaults \in Nat /\ MaxEntries \in Nat /\ MaxRequests \in Nat
  BY CursusAssumption

\* A set of targets has at most four members.
LEMMA Hits == ASSUME NEW S \in SUBSET Targets PROVE Cardinality(S) \in Nat
  <1>1. IsFiniteSet(1..4)
    <2>1. \A m, n \in Int : IsFiniteSet(m..n)
      BY FS_Interval
    <2>2. 1 \in Int /\ 4 \in Int
      OBVIOUS
    <2> QED BY <2>1, <2>2, Zenon
  <1>2. IsFiniteSet(Targets)
    BY <1>1, Settled
  <1> QED BY <1>2, FS_Subset, FS_CardinalityType

\* The part of a position that is sold at a target is no more than the position.
LEMMA PartBound == ASSUME NEW b \in Memories PROVE Part(b) \in Nat /\ Part(b) <= b.qty
  <1>1. b.qty \in Nat /\ b.init \in Nat
    BY DEF Memories
  <1>2. b.init \div 4 \in Nat
    BY <1>1
  <1> QED BY <1>1, <1>2 DEF Part

\* The next target that is due is one of them.
LEMMA NextIsDue ==
  ASSUME NEW b, NEW g, Due(b, g) # {}
  PROVE  \E k \in Due(b, g) : \A j \in Due(b, g) : k <= j
  <1>1. Due(b, g) \subseteq 1..4
    BY Settled DEF Due
  <1> DEFINE D == Due(b, g)
  <1> HIDE DEF D
  <1>2. D \subseteq 1..4 /\ D # {}
    BY <1>1 DEF D
  <1>3. \E k \in D : \A j \in D : k <= j
    <2>1. CASE 1 \in D
      BY <1>2, <2>1
    <2>2. CASE 1 \notin D /\ 2 \in D
      BY <1>2, <2>2
    <2>3. CASE 1 \notin D /\ 2 \notin D /\ 3 \in D
      BY <1>2, <2>3
    <2>4. CASE 1 \notin D /\ 2 \notin D /\ 3 \notin D
      <3>1. \A j \in D : j = 4
        BY <1>2, <2>4
      <3> PICK k \in D : TRUE
        BY <1>2
      <3>2. k \in 1..4 /\ \A j \in D : k <= j
        BY <1>2, <3>1
      <3> QED BY <3>2
    <2> QED BY <2>1, <2>2, <2>3, <2>4
  <1> QED BY <1>3 DEF D

\* A purchase turns a position into a position; only one that stays as it was,
\* shrinks or grows keeps its stop.
LEMMA NettedTyped ==
  ASSUME NEW p \in Holdings, NEW d \in Directions, NEW n \in Nat \ {0}
  PROVE  /\ Netted(p, d, n) \in Holdings
         /\ Netted(p, d, n).sl \in {0, p.sl}
         /\ Netted(p, d, n).dir = p.dir /\ p.qty > 0 =>
               /\ Netted(p, d, n).sl = p.sl
               /\ Netted(p, d, n).qty > p.qty => p.dir = d
               /\ Netted(p, d, n).qty <= p.qty => p.dir # d
         /\ Netted(p, d, n).dir # p.dir => Netted(p, d, n).sl = 0
  <1> DEFINE N == Netted(p, d, n)
  <1>1. CASE p.qty = 0
    <2>1. p = Flat
      BY <1>1 DEF Holdings
    <2>2. N = [dir |-> d, qty |-> n, sl |-> 0]
      BY <1>1 DEF Netted
    <2> QED BY <1>1, <2>1, <2>2 DEF Holdings, Flat
  <1>2. CASE p.qty # 0 /\ p.dir = d
    <2>1. p \in [dir : Directions, qty : Nat \ {0}, sl : Nat]
      BY <1>2 DEF Holdings, Flat
    <2>2. N = [p EXCEPT !.qty = @ + n]
      BY <1>2 DEF Netted
    <2> QED BY <1>2, <2>1, <2>2 DEF Holdings, Flat
  <1>3. CASE p.qty # 0 /\ p.dir # d /\ p.qty > n
    <2>1. p \in [dir : Directions, qty : Nat \ {0}, sl : Nat]
      BY <1>3 DEF Holdings, Flat
    <2>2. N = [p EXCEPT !.qty = @ - n]
      BY <1>3 DEF Netted
    <2> QED BY <1>3, <2>1, <2>2 DEF Holdings, Flat
  <1>4. CASE p.qty # 0 /\ p.dir # d /\ ~(p.qty > n)
    <2>1. p \in [dir : Directions, qty : Nat \ {0}, sl : Nat]
      BY <1>4 DEF Holdings, Flat
    <2>2. CASE p.qty = n
      <3>1. N = Flat
        BY <1>4, <2>2 DEF Netted
      <3> QED BY <1>4, <2>1, <3>1 DEF Holdings, Flat, Directions
    <2>3. CASE p.qty # n
      <3>1. N = [dir |-> d, qty |-> n - p.qty, sl |-> 0]
        BY <1>4, <2>3 DEF Netted
      <3>2. n - p.qty \in Nat \ {0}
        BY <1>4, <2>1, <2>3
      <3> QED BY <1>4, <2>1, <3>1, <3>2 DEF Holdings, Flat
    <2> QED BY <2>2, <2>3
  <1> QED BY <1>1, <1>2, <1>3, <1>4

-----------------------------------------------------------------------------
(* The adapter's calls *)

\* What every call does to the exchange: failures are counted, and a position
\* that is not given a stop keeps the one it has or has none.
Mild ==
    /\ VenueTypes'
    /\ faults' >= faults
    /\ StopStays
    /\ xpos'.sl <= xpos.sl

\* A failure is counted.
LEMMA FaultCounts == ASSUME faults \in Nat, NEW k, Fault(k) PROVE faults' \in Nat /\ faults' > 0
  BY DEF Fault

\* The streak of failures the adapter counts.
LEMMA StreakTyped ==
  ASSUME streak \in [auth : Nat, write : Nat]
  PROVE  /\ [streak EXCEPT !.auth = 0] \in [auth : Nat, write : Nat]
         /\ [streak EXCEPT !.auth = @ + 1] \in [auth : Nat, write : Nat]
         /\ [streak EXCEPT !.write = 0] \in [auth : Nat, write : Nat]
         /\ [streak EXCEPT !.write = IF @ < WriteStop THEN @ + 1 ELSE @]
                \in [auth : Nat, write : Nat]
  OBVIOUS

\* A read changes nothing at the exchange; without failures it says what is there.
LEMMA ReadMild ==
  ASSUME VenueTypes, NEW a \in Answers, NEW v \in {xpos, Flat}, FetchPosition(a, v)
  PROVE  /\ Mild
         /\ xpos' = xpos
         /\ a = "fail" => faults' > 0
         /\ a = "ok" /\ faults' = 0 => v = xpos
         /\ v \in Holdings
  <1>1. xpos' = xpos /\ orders' = orders /\ key' = key /\ sent' = sent
    BY DEF FetchPosition
  <1>2. streak' \in [auth : Nat, write : Nat]
    BY StreakTyped DEF FetchPosition, VenueTypes
  <1>3. faults' \in Nat /\ faults' >= faults
    BY FaultCounts DEF FetchPosition, VenueTypes, Fault
  <1>4. (a = "fail" => faults' > 0) /\ (a = "ok" /\ faults' = 0 => v = xpos)
    BY FaultCounts DEF FetchPosition, VenueTypes
  <1>5. xpos.qty \in Nat /\ xpos.sl \in Nat
    BY DEF VenueTypes, Holdings, Flat
  <1>6. Mild
    BY <1>1, <1>2, <1>3, <1>5 DEF Mild, VenueTypes, StopStays
  <1> QED BY <1>1, <1>4, <1>6 DEF VenueTypes, Holdings

\* An accepted, a refused and an unanswered order.
LEMMA AnswerCounts ==
  ASSUME VenueTypes, Accepted \/ AckLost \/ Denied \/ UNCHANGED <<faults, streak>>
  PROVE  faults' \in Nat /\ faults' >= faults /\ streak' \in [auth : Nat, write : Nat]
  BY FaultCounts, StreakTyped DEF VenueTypes, Accepted, AckLost, Denied, Fault

\* A reduce-only order takes lots from a position and leaves its stop.
LEMMA ReduceMild ==
  ASSUME VenueTypes, NEW d \in Sides, NEW n \in Nat, NEW a \in Answers, ReduceOnly(d, n, a)
  PROVE  Mild
  <1>1. orders' = orders /\ key' = key /\ sent' = sent
    BY DEF ReduceOnly
  <1>2. faults' \in Nat /\ faults' >= faults /\ streak' \in [auth : Nat, write : Nat]
    <2>1. Accepted \/ AckLost \/ Denied \/ UNCHANGED <<faults, streak>>
      BY DEF ReduceOnly
    <2> QED BY <2>1, AnswerCounts
  <1>3. xpos.qty \in Nat /\ xpos.sl \in Nat /\ (xpos.qty > 0 => xpos.dir # "none")
    BY DEF VenueTypes, Holdings, Flat, Directions
  <1>4. xpos' \in Holdings /\ StopStays /\ xpos'.sl <= xpos.sl
    <2>1. CASE xpos' = xpos
      BY <2>1, <1>3 DEF VenueTypes, StopStays
    <2>2. CASE xpos' = Flat
      BY <2>2, <1>3 DEF Holdings, Flat, StopStays
    <2>3. CASE xpos' = [xpos EXCEPT !.qty = @ - n] /\ ~(n >= xpos.qty)
      <3>1. xpos \in [dir : Directions, qty : Nat \ {0}, sl : Nat]
        BY <2>3, <1>3 DEF VenueTypes, Holdings, Flat
      <3>2. xpos.qty - n \in Nat \ {0}
        BY <2>3, <1>3
      <3>3. xpos' \in [dir : Directions, qty : Nat \ {0}, sl : Nat] /\ xpos'.sl = xpos.sl
        BY <2>3, <3>1, <3>2
      <3> QED BY <1>3, <3>3 DEF Holdings, StopStays
    <2> QED BY <2>1, <2>2, <2>3 DEF ReduceOnly
  <1> QED BY <1>1, <1>2, <1>4 DEF Mild, VenueTypes

\* A request for a stop sets it or changes nothing at the exchange.
LEMMA StopSet ==
  ASSUME VenueTypes, NEW d \in Directions, NEW s \in Nat, NEW a \in Answers, SetStop(d, s, a)
  PROVE  /\ VenueTypes'
         /\ faults' >= faults
         /\ xpos'.sl \in {xpos.sl, s}
         /\ (faults = 0 => xpos.sl <= s) => StopStays
  <1>1. orders' = orders /\ key' = key /\ sent' = sent
    BY DEF SetStop
  <1>2. faults' \in Nat /\ faults' >= faults /\ streak' \in [auth : Nat, write : Nat]
    <2>1. Accepted \/ AckLost \/ Denied \/ UNCHANGED <<faults, streak>>
      BY DEF SetStop
    <2> QED BY <2>1, AnswerCounts
  <1>3. xpos.qty \in Nat /\ xpos.sl \in Nat
    BY DEF VenueTypes, Holdings, Flat
  <1>4. /\ xpos' \in Holdings
        /\ xpos'.sl \in {xpos.sl, s}
    <2>1. CASE xpos' = xpos
      BY <2>1 DEF VenueTypes
    <2>2. CASE xpos.dir = d /\ xpos' = [xpos EXCEPT !.sl = s]
      <3>1. xpos \in [dir : Directions, qty : Nat \ {0}, sl : Nat]
        BY <2>2 DEF VenueTypes, Holdings, Flat, Directions
      <3>2. xpos' \in [dir : Directions, qty : Nat \ {0}, sl : Nat] /\ xpos'.sl = s
        BY <2>2, <3>1
      <3> QED BY <3>2 DEF Holdings
    <2> QED BY <2>1, <2>2 DEF SetStop
  <1>5. faults \in Nat
    BY DEF VenueTypes
  <1>6. (faults = 0 => xpos.sl <= s) => StopStays
    BY <1>2, <1>3, <1>4, <1>5 DEF StopStays
  <1> QED BY <1>1, <1>2, <1>4, <1>6 DEF VenueTypes

\* A market entry buys into the position or changes nothing at the exchange.
LEMMA MarketMild ==
  ASSUME VenueTypes, NEW d \in Directions, NEW a \in Answers, MarketEntry(d, a)
  PROVE  Mild
  <1>1. orders' = orders /\ key' = key /\ sent' \in Nat
    BY DEF MarketEntry, VenueTypes
  <1>2. faults' \in Nat /\ faults' >= faults /\ streak' \in [auth : Nat, write : Nat]
    <2>1. Accepted \/ AckLost \/ Denied \/ UNCHANGED <<faults, streak>>
      BY DEF MarketEntry
    <2> QED BY <2>1, AnswerCounts
  <1>3. xpos.qty \in Nat /\ xpos.sl \in Nat
    BY DEF VenueTypes, Holdings, Flat
  <1>4. xpos' \in Holdings /\ StopStays /\ xpos'.sl <= xpos.sl
    <2>1. CASE xpos' = xpos
      BY <2>1, <1>3 DEF VenueTypes, StopStays
    <2>2. CASE xpos' = Netted(xpos, d, EntryQty)
      BY <2>2, <1>3, Settled, NettedTyped DEF VenueTypes, StopStays
    <2> QED BY <2>1, <2>2 DEF MarketEntry
  <1> QED BY <1>1, <1>2, <1>4 DEF Mild, VenueTypes

\* A limit entry rests or changes nothing at the exchange.
LEMMA LimitMild ==
  ASSUME VenueTypes, NEW d \in Directions, NEW a \in Answers, LimitEntry(d, a)
  PROVE  Mild
  <1>1. xpos' = xpos /\ key' = key /\ sent' \in Nat
    BY DEF LimitEntry, VenueTypes
  <1>2. faults' \in Nat /\ faults' >= faults /\ streak' \in [auth : Nat, write : Nat]
    <2>1. Accepted \/ AckLost \/ Denied \/ UNCHANGED <<faults, streak>>
      BY DEF LimitEntry
    <2> QED BY <2>1, AnswerCounts
  <1>3. xpos.qty \in Nat /\ xpos.sl \in Nat
    BY DEF VenueTypes, Holdings, Flat
  <1>4. orders' \in [Directions -> Nat]
    <2>1. orders' = orders \/ orders' = [orders EXCEPT ![d] = @ + EntryQty]
      BY DEF LimitEntry
    <2> QED BY <2>1, Settled DEF VenueTypes
  <1> QED BY <1>1, <1>2, <1>3, <1>4 DEF Mild, VenueTypes, StopStays

\* Cancelling takes orders away or changes nothing.
LEMMA CancelMild ==
  ASSUME VenueTypes, CancelEntryOrders
  PROVE  Mild
  <1>1. xpos' = xpos /\ key' = key /\ sent' = sent /\ streak' = streak
    BY DEF CancelEntryOrders
  <1>2. faults' \in Nat /\ faults' >= faults
    <2>1. \/ faults' = faults
          \/ faults' = IF faults < MaxFaults THEN faults + 1 ELSE faults
          \/ Fault("cancel")
      BY DEF CancelEntryOrders
    <2> QED BY <2>1, FaultCounts DEF VenueTypes, Fault
  <1>3. xpos.qty \in Nat /\ xpos.sl \in Nat
    BY DEF VenueTypes, Holdings, Flat
  <1>4. orders' \in [Directions -> Nat]
    BY DEF CancelEntryOrders, VenueTypes, NoOrders
  <1> QED BY <1>1, <1>2, <1>3, <1>4 DEF Mild, VenueTypes, StopStays

-----------------------------------------------------------------------------
(* The calls of the loop, with b the memory they are made with *)

\* A call that gives no stop leaves true what a memory knows.
LEMMA KnowsMild ==
  ASSUME VenueTypes, NEW b \in Memories, Knows(b), Mild
  PROVE  Knows(b)'
  <1>1. xpos.sl \in Nat /\ xpos'.sl \in Nat /\ b.stop \in Nat /\ faults \in Nat /\ faults' \in Nat
    BY DEF Mild, VenueTypes, Holdings, Flat, Memories
  <1> QED BY <1>1 DEF Knows, Mild

\* The memory at the end of a step.
LEMMA EndsTyped ==
  ASSUME NEW b \in Memories
  PROVE  /\ [NoBot EXCEPT !.pend = b.pend] \in Memories
         /\ [NoBot EXCEPT !.pend = b.pend].active = FALSE
         /\ [NoBot EXCEPT !.pend = b.pend].dir = "none"
         /\ [NoBot EXCEPT !.pend = b.pend].pend = b.pend
  BY DEF NoBot, Memories, Sides

\* Bars seen with another gain are bars.
LEMMA BarsTyped ==
  ASSUME NEW s \in Bars, NEW g \in Gains \cup {0}
  PROVE  /\ [s EXCEPT !.gain = g] \in Bars /\ [s EXCEPT !.gain = g].sig = s.sig
         /\ [s EXCEPT !.gain = g].gain = g
  BY DEF Bars

\* The loop sleeps, or is off.
LEMMA RestKept ==
  ASSUME VenueTypes, LoopTypes, NEW b \in Memories, Knows(b), NEW l \in {"off", "idle"},
         Rest(l, b)
  PROVE  Kept
  <1>1. UNCHANGED venue /\ pc' \in {"off", "idle"} /\ reply' = "ok" /\ view' = Flat
        /\ see' = NoBar /\ tries' = 1 /\ ret' = "none"
    BY DEF Rest
  <1>2. Mild
    <2>1. xpos.qty \in Nat /\ xpos.sl \in Nat /\ faults \in Nat
      BY DEF VenueTypes, Holdings, Flat
    <2> QED BY <1>1, <2>1 DEF venue, Mild, VenueTypes, StopStays
  <1>3. bot' \in Memories /\ Knows(bot)'
    <2>1. CASE bot' = b
      <3>1. Knows(b)'
        BY <1>2, KnowsMild
      <3> QED BY <2>1, <3>1 DEF Knows
    <2>2. CASE bot' = [NoBot EXCEPT !.pend = b.pend]
      BY <2>2, EndsTyped DEF Knows
    <2> QED BY <2>1, <2>2 DEF Rest
  <1>4. LoopTypes'
    BY <1>1, <1>3 DEF LoopTypes, Labels, Answers, Holdings, Bars, NoBar, Callers
  <1>5. StopInv'
    BY <1>1, <1>3 DEF StopInv, Reading, Managing
  <1> QED BY <1>2, <1>4, <1>5 DEF Kept, Mild

\* The step ends.
LEMMA EndsKept ==
  ASSUME VenueTypes, LoopTypes, NEW b \in Memories, Knows(b), Ends(b)
  PROVE  Kept
  <1>1. PICK l \in {"off", "idle"} : Rest(l, b)
    BY DEF Ends
  <1> QED BY <1>1, RestKept

\* start is over.
LEMMA BeginsKept ==
  ASSUME VenueTypes, LoopTypes, NEW b \in Memories, Knows(b), Begins(b)
  PROVE  Kept
  BY RestKept DEF Begins

\* The position is read.
LEMMA ReadsKept ==
  ASSUME VenueTypes, LoopTypes, NEW b \in Memories, Knows(b),
         NEW l \in {"recRead", "pendRead", "pendAdopt", "adoptRead", "revRead"},
         l = "revRead" => see.sig # "none",
         Reads(l, b)
  PROVE  Kept
  <1> PICK a \in Answers, v \in {xpos, Flat} : FetchPosition(a, v) /\ reply' = a /\ view' = v
    BY DEF Reads, Answers
  <1>1. pc' = l /\ bot' = b /\ tries' = 1 /\ ret' = "none" /\ see' = see
    BY DEF Reads, Waits
  <1>2. /\ Mild
        /\ xpos' = xpos
        /\ a = "fail" => faults' > 0
        /\ a = "ok" /\ faults' = 0 => v = xpos
        /\ v \in Holdings
    BY ReadMild
  <1>3. Knows(bot)'
    <2>1. Knows(b)'
      BY <1>2, KnowsMild
    <2> QED BY <1>1, <2>1 DEF Knows
  <1>4. LoopTypes'
    BY <1>1, <1>2 DEF LoopTypes, Labels, Answers, Callers
  <1>5. StopInv'
    <2>1. reply' = "ok" /\ faults' = 0 => xpos'.sl <= view'.sl
      <3>1. xpos.sl \in Nat
        BY DEF VenueTypes, Holdings, Flat
      <3> QED BY <1>2, <3>1
    <2>2. reply' = "fail" => faults' > 0
      BY <1>2
    <2> QED BY <1>1, <1>3, <2>1, <2>2 DEF StopInv, Reading, Managing
  <1> QED BY <1>2, <1>4, <1>5 DEF Kept, Mild

\* Resting entries are cancelled.
LEMMA CancelsKept ==
  ASSUME VenueTypes, LoopTypes, NEW b \in Memories, Knows(b),
         NEW l \in {"sweep", "pendCancel", "pendGone"}, Cancels(l, b)
  PROVE  Kept
  <1>1. pc' = l /\ bot' = b /\ tries' = tries /\ ret' = ret /\ see' = see /\ reply' = "ok"
        /\ view' = Flat
    BY DEF Cancels, Waits
  <1>2. Mild
    BY CancelMild DEF Cancels
  <1>3. Knows(bot)'
    <2>1. Knows(b)'
      BY <1>2, KnowsMild
    <2> QED BY <1>1, <2>1 DEF Knows
  <1>4. LoopTypes'
    BY <1>1 DEF LoopTypes, Labels, Answers, Holdings
  <1>5. StopInv'
    BY <1>1, <1>3 DEF StopInv, Reading, Managing
  <1> QED BY <1>2, <1>4, <1>5 DEF Kept, Mild

\* Lots of the position are sold.
LEMMA SalesKept ==
  ASSUME VenueTypes, LoopTypes, NEW b \in Memories, Knows(b), b.dir # "none",
         NEW l \in {"reverse", "stopExit", "syncClose", "emergency", "target"},
         NEW n \in Nat, NEW g \in Gains \cup {0}, NEW a \in Answers,
         l = "reverse" => see.sig # "none",
         l = "emergency" /\ ret' = "adopt" => b.stop = 1,
         l = "target" => Due(b, g) # {},
         ReduceOnly(b.dir, n, a), reply' = a, Waits(l, b), view' = Flat, tries' = 1,
         see' = [see EXCEPT !.gain = g], ret' \in Callers
  PROVE  Kept
  <1>1. pc' = l /\ bot' = b
    BY DEF Waits
  <1>2. Mild
    BY ReduceMild DEF Memories
  <1>3. Knows(bot)'
    <2>1. Knows(b)'
      BY <1>2, KnowsMild
    <2> QED BY <1>1, <2>1 DEF Knows
  <1>4. see' \in Bars /\ see'.sig = see.sig /\ see'.gain = g
    BY BarsTyped DEF LoopTypes
  <1>5. LoopTypes'
    BY <1>1, <1>4 DEF LoopTypes, Labels, Answers, Holdings
  <1>6. pc' = "target" => Due(bot, see.gain)' # {}
    BY <1>1, <1>4 DEF Due
  <1>7. StopInv'
    BY <1>1, <1>3, <1>4, <1>6 DEF StopInv, Reading, Managing
  <1> QED BY <1>2, <1>5, <1>7 DEF Kept, Mild

\* A reduce-only order for the position.
LEMMA ReducesKept ==
  ASSUME VenueTypes, LoopTypes, NEW b \in Memories, Knows(b), b.dir # "none",
         NEW l \in {"reverse", "stopExit", "syncClose", "emergency"}, NEW n \in Nat,
         l = "reverse" => see.sig # "none",
         l = "emergency" /\ ret = "adopt" => b.stop = 1,
         Reduces(l, n, b)
  PROVE  Kept
  <1> PICK a \in Answers : ReduceOnly(b.dir, n, a) /\ reply' = a
    BY DEF Reduces, Answers
  <1>1. Waits(l, b) /\ view' = Flat /\ tries' = 1 /\ see' = [see EXCEPT !.gain = 0] /\ ret' = ret
    BY DEF Reduces
  <1>2. ret' \in Callers
    BY <1>1 DEF LoopTypes
  <1> QED BY <1>1, <1>2, SalesKept

\* A stop is requested: the one the memory b holds.
LEMMA StopsKept ==
  ASSUME VenueTypes, LoopTypes, NEW b \in Memories, b.dir # "none", b.stop >= 1,
         NEW l \in {"protect", "ladder"},
         NEW a \in Answers,
         faults = 0 => xpos.sl <= b.stop,
         l = "protect" /\ ret' = "adopt" => b.stop = 1,
         SetStop(b.dir, b.stop, a), reply' = a, Waits(l, b), view' \in Holdings,
         tries' \in {1, 2}, see' \in Bars, ret' \in Callers
  PROVE  Kept
  <1>1. pc' = l /\ bot' = b
    BY DEF Waits
  <1>2. b.stop \in Nat /\ b.dir \in Directions
    BY DEF Memories, Sides
  <1>3. /\ VenueTypes' /\ StopStays /\ faults' >= faults
        /\ xpos'.sl \in {xpos.sl, b.stop}
    BY <1>2, StopSet
  <1>4. Knows(bot)'
    <2>1. faults' = 0 => xpos'.sl <= b.stop
      <3>1. faults \in Nat /\ faults' \in Nat
        BY <1>3 DEF VenueTypes
      <3> QED BY <1>2, <1>3, <3>1
    <2> QED BY <1>1, <2>1 DEF Knows
  <1>5. LoopTypes'
    BY <1>1 DEF LoopTypes, Labels, Answers
  <1>6. StopInv'
    BY <1>1, <1>4 DEF StopInv, Reading, Managing
  <1> QED BY <1>3, <1>5, <1>6 DEF Kept

\* The first attempt to register the memory's stop.
LEMMA ProtectsKept ==
  ASSUME VenueTypes, LoopTypes, NEW b \in Memories, Knows(b), b.dir # "none",
         NEW r \in Callers, r = "adopt" => b.stop = 1, Protects(r, b)
  PROVE  Kept
  <1> PICK a \in Answers : SetStop(b.dir, b.stop, a) /\ reply' = a
    BY DEF Protects, Answers
  <1>1. Waits("protect", b) /\ view' = Flat /\ tries' = 1 /\ see' = [see EXCEPT !.gain = 0]
        /\ ret' = r
    BY DEF Protects
  <1>2. see' \in Bars /\ view' \in Holdings
    BY <1>1, BarsTyped DEF LoopTypes, Holdings
  <1>3. b.stop >= 1 /\ (faults = 0 => xpos.sl <= b.stop)
    BY DEF Knows
  <1> QED BY <1>1, <1>2, <1>3, StopsKept

\* An entry is ordered.
LEMMA EntersKept ==
  ASSUME VenueTypes, LoopTypes, NEW b \in Memories, Knows(b), NEW d \in Directions,
         see.sig # "none", faults = 0 => xpos.sl <= 1, Enters(d, b)
  PROVE  Kept
  <1>1. CASE Ends(b)
    BY <1>1, EndsKept
  <1>2. CASE ~Ends(b)
    <2>1. /\ pc' \in {"limit", "market"} /\ bot' = b /\ view' = Flat /\ tries' = 1
          /\ ret' = "none" /\ see' = see /\ reply' \in Answers
      BY <1>2 DEF Enters, Waits, Answers
    <2>2. Mild
      BY <1>2, LimitMild, MarketMild DEF Enters, Answers
    <2>3. Knows(bot)'
      <3>1. Knows(b)'
        BY <2>2, KnowsMild
      <3> QED BY <2>1, <3>1 DEF Knows
    <2>4. LoopTypes'
      BY <2>1 DEF LoopTypes, Labels, Holdings, Callers
    <2>5. faults' = 0 => xpos'.sl <= 1
      <3>1. xpos.sl \in Nat /\ xpos'.sl \in Nat /\ faults \in Nat /\ faults' \in Nat
        BY <2>2 DEF Mild, VenueTypes, Holdings, Flat
      <3> QED BY <2>2, <3>1 DEF Mild
    <2>6. StopInv'
      BY <2>1, <2>3, <2>5 DEF StopInv, Reading, Managing
    <2> QED BY <2>2, <2>4, <2>6 DEF Kept, Mild
  <1> QED BY <1>1, <1>2

-----------------------------------------------------------------------------
(* What the loop does next *)

\* No position after the reads.
LEMMA IdlesKept ==
  ASSUME VenueTypes, LoopTypes, NEW b \in Memories, Knows(b),
         faults = 0 => xpos.sl <= 1, Idles(b)
  PROVE  Kept
  <1>1. see.sig \in Directions \cup {"none"}
    BY DEF LoopTypes, Bars
  <1>2. CASE see.sig = "none"
    BY <1>2, EndsKept DEF Idles
  <1>3. CASE see.sig # "none"
    BY <1>1, <1>3, EntersKept DEF Idles
  <1> QED BY <1>2, <1>3

\* A signal against the position.
LEMMA ReversesKept ==
  ASSUME VenueTypes, LoopTypes, NEW b \in Memories, Knows(b), Reverses(b)
  PROVE  Kept
  <1>1. CASE b.active /\ see.sig \notin {"none", b.dir}
    <2>1. Reduces("reverse", b.qty, b)
      BY <1>1 DEF Reverses
    <2>2. b.dir # "none" /\ b.qty \in Nat
      BY <1>1 DEF Knows, Memories
    <2> QED BY <1>1, <2>1, <2>2, ReducesKept
  <1>2. CASE ~(b.active /\ see.sig \notin {"none", b.dir})
    BY <1>2, EndsKept DEF Reverses
  <1> QED BY <1>1, <1>2

\* A stop that is not confirmed.
LEMMA GuardsKept ==
  ASSUME VenueTypes, LoopTypes, NEW b \in Memories, Knows(b), b.dir # "none", Guards(b)
  PROVE  Kept
  <1>1. CASE ~b.synced
    BY <1>1, ProtectsKept DEF Guards, Callers
  <1>2. CASE b.synced
    BY <1>2, ReversesKept DEF Guards
  <1> QED BY <1>1, <1>2

\* The ladder: the new stop is past the one the memory knows.
LEMMA TrailsKept ==
  ASSUME VenueTypes, LoopTypes, NEW b \in Memories, Knows(b), b.dir # "none", Trails(b)
  PROVE  Kept
  <1> DEFINE hits == Cardinality(b.filled)
             c == [b EXCEPT !.stop = hits]
  <1>1. hits \in Nat
    BY Hits DEF Memories
  <1>2. CASE hits >= TrailFrom /\ hits >= 2 /\ hits > b.stop
    <2>1. PICK a \in Answers : SetStop(b.dir, hits, a) /\ reply' = a
      BY <1>2 DEF Trails, Answers
    <2>2. Waits("ladder", c) /\ view' = Flat /\ tries' = 1 /\ ret' = "none"
          /\ see' = [see EXCEPT !.gain = 0]
      BY <1>2 DEF Trails
    <2>3. c \in Memories /\ c.dir = b.dir /\ c.stop = hits
      BY <1>1 DEF Memories
    <2>4. faults = 0 => xpos.sl <= hits
      <3>1. xpos.sl \in Nat /\ b.stop \in Nat
        BY DEF VenueTypes, Holdings, Flat, Memories
      <3> QED BY <1>1, <1>2, <3>1 DEF Knows
    <2>5. see' \in Bars /\ view' \in Holdings /\ ret' \in Callers
      BY <2>2, BarsTyped DEF LoopTypes, Holdings, Callers
    <2> HIDE DEF c, hits
    <2>6. hits >= 1
      BY <1>1, <1>2
    <2> QED BY <2>1, <2>2, <2>3, <2>4, <2>5, <2>6, StopsKept
  <1>3. CASE ~(hits >= TrailFrom /\ hits >= 2 /\ hits > b.stop)
    BY <1>3, GuardsKept DEF Trails
  <1> QED BY <1>2, <1>3

\* The memory once the targets the price has passed are marked.
LEMMA MarkedTyped ==
  ASSUME VenueTypes, NEW b \in Memories, Knows(b), NEW g
  PROVE  LET c == [b EXCEPT !.filled = @ \cup Due(b, g)] IN
         /\ c \in Memories /\ Knows(c) /\ c.dir = b.dir
         /\ Forgets(c) \in Memories /\ Knows(Forgets(c))
  <1> DEFINE c == [b EXCEPT !.filled = @ \cup Due(b, g)]
  <1>1. Due(b, g) \subseteq Targets
    BY DEF Due
  <1>2. /\ c \in Memories /\ c.dir = b.dir /\ c.stop = b.stop /\ c.active = b.active
    BY <1>1 DEF Memories
  <1>3. Knows(c)
    BY <1>2 DEF Knows
  <1> HIDE DEF c
  <1>4. Forgets(c) \in Memories /\ Forgets(c).dir = c.dir /\ Forgets(c).stop = c.stop
        /\ Forgets(c).active = FALSE
    BY <1>2 DEF Forgets, Memories
  <1>5. Knows(Forgets(c))
    BY <1>3, <1>4 DEF Knows
  <1> QED BY <1>2, <1>3, <1>4, <1>5 DEF c

\* The targets and the rest of the step.
LEMMA SellsKept ==
  ASSUME VenueTypes, LoopTypes, NEW b \in Memories, Knows(b), b.dir # "none",
         NEW g \in Gains \cup {0}, Sells(b, g)
  PROVE  Kept
  <1> DEFINE c == [b EXCEPT !.filled = @ \cup Due(b, g)]
  <1>1. CASE Due(b, g) # {} /\ Part(b) > 0
    <2>1. PICK a \in Answers : ReduceOnly(b.dir, Part(b), a) /\ reply' = a
      BY <1>1 DEF Sells, Answers
    <2>2. Waits("target", b) /\ see' = [see EXCEPT !.gain = g] /\ view' = Flat /\ tries' = 1
          /\ ret' = "none"
      BY <1>1 DEF Sells
    <2>3. ret' \in Callers
      BY <2>2 DEF Callers
    <2> QED BY <1>1, <2>1, <2>2, <2>3, PartBound, SalesKept
  <1>2. CASE ~(Due(b, g) # {} /\ Part(b) > 0)
    <2>1. c \in Memories /\ Knows(c) /\ c.dir = b.dir
          /\ Forgets(c) \in Memories /\ Knows(Forgets(c))
      BY MarkedTyped
    <2>2. Ends(Forgets(c)) \/ Ends(c) \/ Trails(c)
      BY <1>2 DEF Sells
    <2> HIDE DEF c
    <2> QED BY <2>1, <2>2, EndsKept, TrailsKept
  <1> QED BY <1>1, <1>2

\* The position is managed at some price.
LEMMA ManagesKept ==
  ASSUME VenueTypes, LoopTypes, NEW b \in Memories, Knows(b), b.dir # "none", Manages(b)
  PROVE  Kept
  <1> PICK g \in Gains : Sells(b, g)
    BY DEF Manages
  <1> QED BY SellsKept

\* After the synchronisation.
LEMMA ContinuesKept ==
  ASSUME VenueTypes, LoopTypes, NEW b \in Memories, Knows(b), Continues(b)
  PROVE  Kept
  <1>1. CASE b.pend # "none"
    BY <1>1, ReadsKept DEF Continues
  <1>2. CASE b.pend = "none" /\ b.active
    <2>1. b.dir # "none"
      BY <1>2 DEF Knows
    <2> QED BY <1>2, <2>1, ManagesKept DEF Continues
  <1>3. CASE b.pend = "none" /\ ~b.active
    BY <1>3, ReadsKept DEF Continues
  <1> QED BY <1>1, <1>2, <1>3

\* Back from _apply_protective_sl.
LEMMA ReturnsKept ==
  ASSUME VenueTypes, LoopTypes, NEW b \in Memories, Knows(b), b.dir # "none",
         ret = "adopt" => b.stop = 1, Returns(b)
  PROVE  Kept
  <1>1. CASE Ends(b)
    BY <1>1, EndsKept
  <1>2. CASE Reverses(b)
    BY <1>2, ReversesKept
  <1>3. CASE Manages(b)
    BY <1>3, ManagesKept
  <1>4. CASE Reads("adoptRead", b)
    BY <1>4, ReadsKept
  <1>5. CASE ret = "adopt" /\ Idles(b)
    <2>1. faults = 0 => xpos.sl <= 1
      BY <1>5 DEF Knows
    <2> QED BY <1>5, <2>1, IdlesKept
  <1> QED BY <1>1, <1>2, <1>3, <1>4, <1>5 DEF Returns

\* The memory after a position was forgotten, a stop confirmed, an entry put to
\* rest, targets marked or sold: it knows what it knew.
LEMMA ForgetsTyped ==
  ASSUME NEW b \in Memories
  PROVE  /\ Forgets(b) \in Memories /\ Forgets(b).active = FALSE /\ Forgets(b).dir = b.dir
         /\ Forgets(b).qty = b.qty /\ Forgets(b).stop = b.stop /\ Forgets(b).pend = b.pend
         /\ Knows(b) => Knows(Forgets(b))
  BY DEF Forgets, Memories, Knows

\* Marking a memory as synced or not changes nothing else in it.
LEMMA SyncedTyped ==
  ASSUME NEW b \in Memories, NEW t \in BOOLEAN
  PROVE  LET c == [b EXCEPT !.synced = t] IN
         /\ c \in Memories /\ c.active = b.active /\ c.dir = b.dir /\ c.qty = b.qty
         /\ c.stop = b.stop /\ c.pend = b.pend
         /\ Knows(b) => Knows(c)
  BY DEF Memories, Knows

\* Remembering a pending limit, or forgetting it, changes nothing else.
LEMMA PendTyped ==
  ASSUME NEW b \in Memories, NEW d \in Sides
  PROVE  LET c == [b EXCEPT !.pend = d] IN
         /\ c \in Memories /\ c.active = b.active /\ c.dir = b.dir /\ c.qty = b.qty
         /\ c.stop = b.stop /\ c.pend = d /\ c.synced = b.synced
         /\ Knows(b) => Knows(c)
  BY DEF Memories, Knows

\* The memory after a position of direction d, n lots and stop s was adopted.
LEMMA AdoptsTyped ==
  ASSUME NEW b \in Memories, NEW p, p.dir \in Sides, p.qty \in Nat, p.sl \in Nat
  PROVE  /\ Adopts(b, p) \in Memories
         /\ Adopts(b, p).active = TRUE
         /\ Adopts(b, p).dir = p.dir
         /\ Adopts(b, p).qty = p.qty
         /\ Adopts(b, p).init = p.qty
         /\ Adopts(b, p).stop = (IF p.sl > 0 THEN p.sl ELSE 1)
         /\ Adopts(b, p).filled = {}
         /\ Adopts(b, p).synced = (p.sl > 0)
         /\ Adopts(b, p).pend = b.pend
  <1> DEFINE s == IF p.sl > 0 THEN p.sl ELSE 1
             t == p.sl > 0
  <1>1. s \in Nat /\ t \in BOOLEAN
    OBVIOUS
  <1>2. Adopts(b, p) = [b EXCEPT !.active = TRUE, !.dir = p.dir, !.qty = p.qty, !.init = p.qty,
                                 !.stop = s, !.filled = {}, !.synced = t]
    BY DEF Adopts
  <1> HIDE DEF s, t
  <1>3. /\ Adopts(b, p) \in Memories
        /\ Adopts(b, p).active = TRUE
        /\ Adopts(b, p).dir = p.dir
        /\ Adopts(b, p).qty = p.qty
        /\ Adopts(b, p).init = p.qty
        /\ Adopts(b, p).stop = s
        /\ Adopts(b, p).filled = {}
        /\ Adopts(b, p).synced = t
        /\ Adopts(b, p).pend = b.pend
    BY <1>1, <1>2 DEF Memories
  <1> QED BY <1>3 DEF s, t

-----------------------------------------------------------------------------
(* The actions of the loop *)

\* What an action keeps.
Stands == Kept /\ RestTypes'

\* The memory outside the loop keeps its types.
LEMMA KeepsTyped == ASSUME RestTypes, Keeps PROVE RestTypes'
  BY DEF RestTypes, Keeps

\* Booking an event keeps the records well-typed.
LEMMA BooksTyped == ASSUME RestTypes, NEW e \in BOOLEAN, Books(e) PROVE RestTypes'
  BY DEF RestTypes, Books

\* What a position is.
LEMMA HoldingTyped ==
  ASSUME NEW p \in Holdings
  PROVE  /\ p.dir \in Sides /\ p.qty \in Nat /\ p.sl \in Nat
         /\ p # Flat => p.dir \in Directions /\ p.qty > 0
         /\ p.qty > 0 => p.dir \in Directions
         /\ p.qty = 0 => p = Flat
  BY DEF Holdings, Flat, Sides

\* The position that was read is adopted with a stop no looser than its own.
LEMMA AdoptsKnown ==
  ASSUME Types, StopInv, pc \in Reading, reply = "ok", view # Flat
  PROVE  /\ Adopts(bot, view) \in Memories /\ Knows(Adopts(bot, view))
         /\ Adopts(bot, view).dir # "none" /\ Adopts(bot, view).dir = view.dir
         /\ Adopts(bot, view).qty = view.qty
         /\ Adopts(bot, view).pend = bot.pend
         /\ Adopts(bot, view).stop = (IF view.sl > 0 THEN view.sl ELSE 1)
         /\ Adopts(bot, view).synced = (view.sl > 0)
         /\ Adopts(bot, view).active = TRUE
  <1> DEFINE c == Adopts(bot, view)
  <1>1. view.dir \in Directions /\ view.dir \in Sides /\ view.qty \in Nat /\ view.sl \in Nat
    BY HoldingTyped DEF Types, LoopTypes
  <1>2. /\ c \in Memories /\ c.active = TRUE /\ c.dir = view.dir /\ c.qty = view.qty
        /\ c.pend = bot.pend
        /\ c.stop = (IF view.sl > 0 THEN view.sl ELSE 1)
        /\ c.synced = (view.sl > 0)
    BY <1>1, AdoptsTyped DEF Types, LoopTypes
  <1>3. c.dir # "none"
    BY <1>1, <1>2 DEF Directions
  <1>4. faults = 0 => xpos.sl <= 1 \/ xpos.sl <= view.sl
    BY DEF StopInv
  <1>5. xpos.sl \in Nat
    BY HoldingTyped DEF Types, VenueTypes
  <1> HIDE DEF c
  <1>6. Knows(c)
    BY <1>1, <1>2, <1>3, <1>4, <1>5 DEF Knows
  <1> QED BY <1>2, <1>3, <1>6 DEF c

\* start
LEMMA StartKept == ASSUME Types, StopInv, Start PROVE Stands
  <1>1. Reads("recRead", bot) /\ RestTypes'
    BY DEF Start, Types, RestTypes
  <1> QED BY <1>1, ReadsKept DEF Stands, Types, LoopTypes, StopInv

\* Starting, with adoption or sweep, keeps memory and stop consistent.
LEMMA StartingKept == ASSUME Types, StopInv, Starting PROVE Stands
  <1>1. CASE StartAdopts
    <2>1. Begins(Adopts(bot, view)) /\ Books(TRUE) /\ pc = "recRead" /\ reply = "ok" /\ view # Flat
      BY <1>1 DEF StartAdopts
    <2>2. Adopts(bot, view) \in Memories /\ Knows(Adopts(bot, view))
      BY <2>1, AdoptsKnown DEF Reading
    <2> QED BY <2>1, <2>2, BeginsKept, BooksTyped DEF Stands, Types
  <1>2. CASE StartSweeps
    <2>1. (Begins(bot) \/ Cancels("sweep", bot)) /\ Keeps
      BY <1>2 DEF StartSweeps
    <2> QED BY <2>1, BeginsKept, CancelsKept, KeepsTyped DEF Stands, Types, LoopTypes, StopInv
  <1>3. CASE Started
    BY <1>3, BeginsKept, KeepsTyped DEF Started, Stands, Types, LoopTypes, StopInv
  <1> QED BY <1>1, <1>2, <1>3 DEF Starting

\* A step begins with a read.
LEMMA BeginKept == ASSUME Types, StopInv, StepBegin PROVE Stands
  <1> PICK a \in Answers, v \in {xpos, Flat} : FetchPosition(a, v) /\ reply' = a /\ view' = v
    BY DEF StepBegin, Answers
  <1>1. PICK d \in Sides : see' = [NoBar EXCEPT !.sig = d]
    BY DEF StepBegin, Sides
  <1>2. pc' \in {"sync", "pendRead", "adoptRead"} /\ bot' = bot /\ tries' = tries /\ ret' = ret
    BY DEF StepBegin, Waits
  <1>3. /\ Mild
        /\ xpos' = xpos
        /\ a = "fail" => faults' > 0
        /\ a = "ok" /\ faults' = 0 => v = xpos
        /\ v \in Holdings
    BY ReadMild DEF Types
  <1>4. RestTypes'
    BY DEF StepBegin, Types, RestTypes
  <1>5. Knows(bot)'
    <2> PICK m \in Memories : m = bot
      BY DEF Types, LoopTypes
    <2>1. Knows(m)'
      BY <1>3, KnowsMild DEF Types, StopInv
    <2> QED BY <1>2, <2>1 DEF Knows
  <1>6. see' \in Bars
    BY <1>1 DEF NoBar, Bars, Sides
  <1>7. LoopTypes'
    BY <1>2, <1>3, <1>6 DEF Types, LoopTypes, Labels, Answers
  <1>8. StopInv'
    <2>1. reply' = "ok" /\ faults' = 0 => xpos'.sl <= view'.sl
      <3>1. xpos.sl \in Nat
        BY HoldingTyped DEF Types, VenueTypes
      <3> QED BY <1>3, <3>1
    <2>2. reply' = "fail" => faults' > 0
      BY <1>3
    <2> QED BY <1>2, <1>5, <2>1, <2>2 DEF StopInv, Reading, Managing
  <1> QED BY <1>3, <1>4, <1>7, <1>8 DEF Stands, Kept, Mild

\* _sync_position_state
LEMMA SyncKept == ASSUME Types, StopInv, Sync PROVE Stands
  <1>0. bot \in Memories /\ Knows(bot) /\ VenueTypes /\ LoopTypes /\ RestTypes
    BY DEF Types, LoopTypes, StopInv
  <1>1. CASE SyncUnknown \/ SyncAgrees
    BY <1>0, <1>1, ContinuesKept, KeepsTyped DEF SyncUnknown, SyncAgrees, Stands
  <1>2. Forgets(bot) \in Memories /\ Knows(Forgets(bot))
    BY <1>0, ForgetsTyped
  <1>3. CASE SyncGone
    <2>1. CASE Continues(Forgets(bot)) /\ Books(FALSE)
      BY <1>0, <1>2, <2>1, ContinuesKept, BooksTyped DEF Stands
    <2>2. CASE Ends(bot) /\ Keeps
      BY <1>0, <2>2, EndsKept, KeepsTyped DEF Stands
    <2> QED BY <1>3, <2>1, <2>2 DEF SyncGone
  <1>4. CASE SyncMismatch
    <2>1. bot.dir # "none" /\ bot.qty \in Nat
      BY <1>0, <1>4 DEF SyncMismatch, Knows, Memories
    <2> QED BY <1>0, <1>4, <2>1, ReducesKept, KeepsTyped DEF SyncMismatch, Closes, Stands
  <1>5. CASE SyncClosed
    <2>1. (booked /\ reply = "fail") \in BOOLEAN
      OBVIOUS
    <2> QED BY <1>0, <1>2, <1>5, <2>1, ContinuesKept, BooksTyped DEF SyncClosed, Stands
  <1> QED BY <1>1, <1>3, <1>4, <1>5 DEF Sync

\* _handle_pending_limit
LEMMA PendingKept == ASSUME Types, StopInv, Pending PROVE Stands
  <1>0. bot \in Memories /\ Knows(bot) /\ VenueTypes /\ LoopTypes /\ RestTypes
    BY DEF Types, LoopTypes, StopInv
  <1>1. bot.active => bot.dir # "none"
    BY <1>0 DEF Knows
  <1>2. \A d \in Sides : [bot EXCEPT !.pend = d] \in Memories /\ Knows([bot EXCEPT !.pend = d])
                         /\ [bot EXCEPT !.pend = d].active = bot.active
                         /\ [bot EXCEPT !.pend = d].dir = bot.dir
    BY <1>0, PendTyped
  <1>3. CASE PendingUnknown \/ PendingWaits
    <2>1. ((bot.active /\ Manages(bot)) \/ Ends(bot)) /\ Keeps
      BY <1>3 DEF PendingUnknown, PendingWaits
    <2> QED BY <1>0, <1>1, <2>1, ManagesKept, EndsKept, KeepsTyped DEF Stands
  <1>4. CASE PendingFilled
    BY <1>0, <1>2, <1>4, CancelsKept, KeepsTyped DEF PendingFilled, Stands, Sides
  <1>5. CASE PendingSwept
    BY <1>0, <1>5, ReadsKept, KeepsTyped DEF PendingSwept, Stands
  <1>6. CASE PendingEnters
    <2>1. CASE reply = "ok" /\ view # Flat /\ Protects("pend", Adopts(bot, view)) /\ Books(TRUE)
      <3>1. pc \in Reading
        BY <1>6 DEF PendingEnters, Reading
      <3>2. Adopts(bot, view) \in Memories /\ Knows(Adopts(bot, view))
            /\ Adopts(bot, view).dir # "none"
        BY <2>1, <3>1, AdoptsKnown
      <3> QED BY <1>0, <2>1, <3>2, ProtectsKept, BooksTyped DEF Stands, Callers
    <2>2. CASE ((bot.active /\ Manages(bot)) \/ Reads("adoptRead", bot)) /\ Keeps
      BY <1>0, <1>1, <2>2, ManagesKept, ReadsKept, KeepsTyped DEF Stands
    <2> QED BY <1>6, <2>1, <2>2 DEF PendingEnters
  <1>7. CASE PendingExpires
    BY <1>0, <1>7, CancelsKept, KeepsTyped DEF PendingExpires, Stands
  <1>8. CASE PendingGone
    <2> DEFINE c == [bot EXCEPT !.pend = "none"]
    <2>1. ((c.active /\ Manages(c)) \/ Reads("adoptRead", c)) /\ Keeps
      BY <1>8 DEF PendingGone
    <2>2. c \in Memories /\ Knows(c) /\ c.active = bot.active /\ c.dir = bot.dir
      BY <1>2 DEF Sides
    <2> HIDE DEF c
    <2> QED BY <1>0, <1>1, <2>1, <2>2, ManagesKept, ReadsKept, KeepsTyped DEF Stands
  <1> QED BY <1>3, <1>4, <1>5, <1>6, <1>7, <1>8 DEF Pending

\* A position the bot does not know of.
LEMMA AdoptionKept == ASSUME Types, StopInv, Adoption PROVE Stands
  <1>0. bot \in Memories /\ Knows(bot) /\ VenueTypes /\ LoopTypes /\ RestTypes
    BY DEF Types, LoopTypes, StopInv
  <1>1. CASE Adopt
    <2> DEFINE c == Adopts(bot, view)
    <2>1. Manages(c) \/ (~c.synced /\ Closes("stopExit", c)) \/ (~c.synced /\ Protects("adopt", c))
      BY <1>1 DEF Adopt
    <2>2. Keeps /\ pc \in Reading /\ reply = "ok" /\ view # Flat
      BY <1>1 DEF Adopt, Reading
    <2>3. c \in Memories /\ Knows(c) /\ c.dir # "none"
          /\ c.stop = (IF view.sl > 0 THEN view.sl ELSE 1) /\ c.synced = (view.sl > 0)
      BY <2>2, AdoptsKnown
    <2>4. ~c.synced => c.stop = 1
      BY <2>3
    <2>5. c.qty \in Nat
      BY <2>3 DEF Memories
    <2> HIDE DEF c
    <2> QED BY <1>0, <2>1, <2>2, <2>3, <2>4, <2>5, ManagesKept, ReducesKept, ProtectsKept,
               KeepsTyped DEF Closes, Stands, Callers
  <1>2. CASE AdoptNothing
    <2>1. faults = 0 => xpos.sl <= 1
      <3>1. xpos.sl \in Nat
        BY HoldingTyped DEF Types, VenueTypes
      <3>2. view = Flat => view.sl = 0
        BY DEF Flat
      <3>3. faults = 0 => view = Flat /\ reply = "ok"
        BY <1>0, <1>2 DEF AdoptNothing, StopInv, Reading, LoopTypes, Answers
      <3> QED BY <1>2, <3>1, <3>2, <3>3 DEF AdoptNothing, StopInv, Reading
    <2> QED BY <1>0, <1>2, <2>1, IdlesKept, KeepsTyped DEF AdoptNothing, Stands
  <1>3. CASE StopExited
    <2>1. Forgets(bot) \in Memories /\ Knows(Forgets(bot))
      BY <1>0, ForgetsTyped
    <2> QED BY <1>0, <1>3, <2>1, EndsKept, KeepsTyped, BooksTyped DEF StopExited, Stands
  <1> QED BY <1>1, <1>2, <1>3 DEF Adoption

\* _apply_protective_sl
LEMMA ProtectionKept == ASSUME Types, StopInv, Protection PROVE Stands
  <1>0. bot \in Memories /\ Knows(bot) /\ VenueTypes /\ LoopTypes /\ RestTypes
    BY DEF Types, LoopTypes, StopInv
  <1>a. bot.dir # "none" /\ (ret = "adopt" => bot.stop = 1)
    BY DEF Protection, Protected, ProtectRetries, ProtectGivesUp, EmergencyClosed, StopInv,
           Managing
  <1>b. Forgets(bot) \in Memories /\ Knows(Forgets(bot)) /\ Forgets(bot).dir # "none"
        /\ Forgets(bot).stop = bot.stop
    BY <1>0, <1>a, ForgetsTyped
  <1>1. CASE Protected
    <2> DEFINE c == [bot EXCEPT !.synced = TRUE]
    <2>1. c \in Memories /\ Knows(c) /\ c.dir # "none" /\ c.stop = bot.stop
      BY <1>0, <1>a, SyncedTyped
    <2>2. Returns(c) /\ Keeps
      BY <1>1 DEF Protected
    <2> HIDE DEF c
    <2> QED BY <1>0, <1>a, <2>1, <2>2, ReturnsKept, KeepsTyped DEF Stands
  <1>2. CASE ProtectRetries
    <2> PICK a \in Answers : SetStop(bot.dir, bot.stop, a) /\ reply' = a
      BY <1>2 DEF ProtectRetries, Answers
    <2>1. pc' = "protect" /\ bot' = bot /\ view' = view /\ see' = see /\ ret' = ret /\ tries' = 2
      BY <1>2 DEF ProtectRetries
    <2>2. Waits("protect", bot)
      BY <2>1 DEF Waits
    <2>3. view' \in Holdings /\ see' \in Bars /\ ret' \in Callers
      BY <1>0, <2>1 DEF LoopTypes
    <2>4. bot.stop >= 1 /\ (faults = 0 => xpos.sl <= bot.stop)
      BY <1>0, <1>a DEF Knows
    <2> QED BY <1>0, <1>a, <1>2, <2>1, <2>2, <2>3, <2>4, StopsKept, KeepsTyped
            DEF ProtectRetries, Stands
  <1>3. CASE ProtectGivesUp
    <2>1. bot.qty \in Nat
      BY <1>0 DEF Memories
    <2> QED BY <1>0, <1>a, <1>3, <2>1, ReducesKept, ReturnsKept, KeepsTyped
            DEF ProtectGivesUp, Closes, Stands
  <1>4. CASE EmergencyClosed
    <2>1. (booked /\ reply = "fail") \in BOOLEAN
      OBVIOUS
    <2> QED BY <1>0, <1>a, <1>b, <1>4, <2>1, ReturnsKept, BooksTyped DEF EmergencyClosed, Stands
  <1> QED BY <1>1, <1>2, <1>3, <1>4 DEF Protection

\* The memory after a target was sold, or given up.
LEMMA TargetMemories ==
  ASSUME Types, StopInv, pc = "target"
  PROVE  LET k == NextDue(bot)
             sold == [bot EXCEPT !.qty = @ - Part(bot),
                                 !.filled = IF Whole(bot) THEN Targets ELSE @ \cup {k}]
             kept == [bot EXCEPT !.filled = @ \cup {k}]
         IN /\ sold \in Memories /\ Knows(sold) /\ sold.dir = bot.dir
            /\ kept \in Memories /\ Knows(kept) /\ kept.dir = bot.dir
            /\ sold.qty = bot.qty - Part(bot) /\ sold.active = bot.active
            /\ sold.pend = bot.pend /\ sold.stop = bot.stop
            /\ kept.qty = bot.qty /\ kept.active = bot.active
            /\ kept.pend = bot.pend /\ kept.stop = bot.stop
  <1> DEFINE k == NextDue(bot)
             f == IF Whole(bot) THEN Targets ELSE bot.filled \cup {k}
             q == bot.qty - Part(bot)
             sold == [bot EXCEPT !.qty = q, !.filled = f]
             kept == [bot EXCEPT !.filled = bot.filled \cup {k}]
  <1>0. bot \in Memories /\ Knows(bot)
    BY DEF Types, LoopTypes, StopInv
  <1>1. k \in Targets
    <2>1. k \in Due(bot, see.gain)
      BY NextIsDue DEF StopInv, NextDue
    <2> QED BY <2>1 DEF Due
  <1>2. f \in SUBSET Targets /\ bot.filled \cup {k} \in SUBSET Targets
    BY <1>0, <1>1 DEF Memories
  <1>3. q \in Nat
    BY <1>0, PartBound DEF Memories
  <1> PICK n \in Nat, F \in SUBSET Targets, K \in SUBSET Targets :
           n = q /\ F = f /\ K = bot.filled \cup {k}
    BY <1>2, <1>3
  <1> HIDE DEF k, f, q
  <1>4. /\ sold \in Memories /\ sold.active = bot.active /\ sold.dir = bot.dir
        /\ sold.stop = bot.stop /\ sold.pend = bot.pend /\ sold.qty = q
    <2>1. sold = [bot EXCEPT !.qty = n, !.filled = F]
      OBVIOUS
    <2> HIDE DEF sold
    <2> QED BY <1>0, <2>1 DEF Memories
  <1>5. /\ kept \in Memories /\ kept.active = bot.active /\ kept.dir = bot.dir
        /\ kept.stop = bot.stop /\ kept.pend = bot.pend /\ kept.qty = bot.qty
    <2>1. kept = [bot EXCEPT !.filled = K]
      OBVIOUS
    <2> HIDE DEF kept
    <2> QED BY <1>0, <2>1 DEF Memories
  <1> HIDE DEF sold, kept
  <1>6. Knows(sold) /\ Knows(kept)
    BY <1>0, <1>4, <1>5 DEF Knows
  <1> QED BY <1>4, <1>5, <1>6 DEF sold, kept, k, f, q

\* Targets, the ladder, reversals and entries.
LEMMA TradingKept == ASSUME Types, StopInv, Trading PROVE Stands
  <1>0. bot \in Memories /\ Knows(bot) /\ VenueTypes /\ LoopTypes /\ RestTypes
    BY DEF Types, LoopTypes, StopInv
  <1>a. see.gain \in Gains \cup {0} /\ see.sig \in Sides
    BY <1>0 DEF LoopTypes, Bars, Sides
  <1>1. CASE TargetDone
    <2>0. bot.dir # "none"
      BY <1>1 DEF TargetDone, StopInv, Managing
    <2> DEFINE k == NextDue(bot)
               sold == [bot EXCEPT !.qty = @ - Part(bot),
                                   !.filled = IF Whole(bot) THEN Targets ELSE @ \cup {k}]
               kept == [bot EXCEPT !.filled = @ \cup {k}]
    <2>1. \/ Sells(sold, see.gain) /\ Books(booked /\ sold.qty > 0)
          \/ Sells(kept, see.gain) /\ Keeps
      BY <1>1 DEF TargetDone
    <2>2. /\ sold \in Memories /\ Knows(sold) /\ sold.dir = bot.dir
          /\ kept \in Memories /\ Knows(kept) /\ kept.dir = bot.dir
      BY <1>1, TargetMemories DEF TargetDone
    <2> HIDE DEF k, sold, kept
    <2>3. (booked /\ sold.qty > 0) \in BOOLEAN
      OBVIOUS
    <2> QED BY <1>0, <1>a, <2>0, <2>1, <2>2, <2>3, SellsKept, KeepsTyped, BooksTyped DEF Stands
  <1>2. CASE LadderMoved
    <2> DEFINE t == bot.synced /\ reply = "ok"
               c == [bot EXCEPT !.synced = t]
    <2>1. t \in BOOLEAN
      OBVIOUS
    <2>2. Guards(c) /\ Keeps /\ bot.dir # "none"
      BY <1>2 DEF LadderMoved, StopInv, Managing
    <2> PICK u \in BOOLEAN : u = t
      BY <2>1
    <2>3. c = [bot EXCEPT !.synced = u]
      OBVIOUS
    <2> HIDE DEF t, c
    <2>4. c \in Memories /\ Knows(c) /\ c.dir = bot.dir
      BY <1>0, <2>3, SyncedTyped
    <2> QED BY <1>0, <2>2, <2>4, GuardsKept, KeepsTyped DEF Stands
  <1>3. CASE ReverseRefused \/ EntryRefused
    BY <1>0, <1>3, EndsKept, KeepsTyped DEF ReverseRefused, EntryRefused, Stands
  <1>4. CASE ReverseClosed
    <2>1. Forgets(bot) \in Memories /\ Knows(Forgets(bot)) /\ see.sig # "none"
      BY <1>0, <1>4, ForgetsTyped DEF ReverseClosed, StopInv
    <2> QED BY <1>0, <1>4, <2>1, ReadsKept, BooksTyped DEF ReverseClosed, Stands
  <1>5. CASE ReverseEnters
    <2>1. CASE Ends(bot)
      BY <1>0, <1>5, <2>1, EndsKept, KeepsTyped DEF ReverseEnters, Stands
    <2>2. CASE reply = "ok" /\ view = Flat /\ Enters(see.sig, bot)
      <3>1. faults = 0 => xpos.sl <= 1
        <4>1. xpos.sl \in Nat
          BY HoldingTyped DEF Types, VenueTypes
        <4>2. view.sl = 0
          BY <2>2 DEF Flat
        <4> QED BY <1>5, <2>2, <4>1, <4>2 DEF ReverseEnters, StopInv, Reading
      <3>2. see.sig # "none" /\ see.sig \in Directions
        BY <1>a, <1>5 DEF ReverseEnters, StopInv, Sides
      <3> QED BY <1>0, <1>5, <2>2, <3>1, <3>2, EntersKept, KeepsTyped DEF ReverseEnters, Stands
    <2> QED BY <1>5, <2>1, <2>2 DEF ReverseEnters
  <1>6. CASE EntryFilled
    <2> DEFINE p == [dir |-> see.sig, qty |-> EntryQty, sl |-> 0]
               c == [Adopts(bot, p) EXCEPT !.pend = bot.pend]
    <2>1. Protects("open", c) /\ Books(TRUE) /\ pc = "market"
      BY <1>6 DEF EntryFilled
    <2>2. p.dir \in Sides /\ p.qty \in Nat /\ p.sl \in Nat /\ p.sl = 0 /\ p.dir = see.sig
          /\ see.sig # "none"
      BY <1>a, <2>1, Settled DEF StopInv
    <2> HIDE DEF p
    <2>3. /\ Adopts(bot, p) \in Memories /\ Adopts(bot, p).dir = see.sig
          /\ Adopts(bot, p).stop = 1
      <3>1. /\ Adopts(bot, p) \in Memories /\ Adopts(bot, p).dir = p.dir
            /\ Adopts(bot, p).stop = (IF p.sl > 0 THEN p.sl ELSE 1)
        BY <1>0, <2>2, AdoptsTyped
      <3> QED BY <2>2, <3>1
    <2>4. c \in Memories /\ c.dir = see.sig /\ c.stop = 1
      BY <1>0, <2>3, PendTyped DEF Memories
    <2>5. Knows(c)
      BY <2>1, <2>2, <2>4 DEF Knows, StopInv
    <2> HIDE DEF c
    <2> QED BY <1>0, <2>1, <2>2, <2>4, <2>5, ProtectsKept, BooksTyped DEF Stands, Callers
  <1>7. CASE EntryRests
    <2> DEFINE c == [bot EXCEPT !.pend = see.sig]
    <2> PICK d \in Sides : d = see.sig
      BY <1>a
    <2>0. c = [bot EXCEPT !.pend = d]
      OBVIOUS
    <2>1. c \in Memories /\ Knows(c)
      BY <1>0, <2>0, PendTyped
    <2>2. Ends(c) /\ RestTypes'
      BY <1>0, <1>7 DEF EntryRests, RestTypes
    <2> HIDE DEF c
    <2> QED BY <1>0, <2>1, <2>2, EndsKept DEF Stands
  <1> QED BY <1>1, <1>2, <1>3, <1>4, <1>5, <1>6, <1>7 DEF Trading

-----------------------------------------------------------------------------
(* What others do *)

\* The loop waits while others act: the exchange's stop may only get looser or
\* be the fixed one, and the memory may be cleared.
LEMMA OthersKept ==
  ASSUME Types, StopInv, VenueTypes', RestTypes', UNCHANGED loop, StopStays,
         faults' >= faults, xpos'.sl <= xpos.sl \/ xpos'.sl <= 1,
         \/ bot' = bot
         \/ bot' = [bot EXCEPT !.active = FALSE]
         \/ pc = "idle" /\ bot' = [NoBot EXCEPT !.pend = bot.pend]
  PROVE  Stands
  <1>1. xpos.sl \in Nat /\ xpos'.sl \in Nat /\ faults \in Nat /\ faults' \in Nat
        /\ view.sl \in Nat /\ bot \in Memories /\ bot.stop \in Nat
    BY HoldingTyped DEF Types, VenueTypes, LoopTypes, Memories
  <1>2. faults' = 0 => faults = 0
    BY <1>1
  <1>3. UNCHANGED <<pc, reply, view, see, tries, ret>>
    BY DEF loop
  <1>4. CASE bot' = bot \/ bot' = [bot EXCEPT !.active = FALSE]
    <2>1. /\ bot' \in Memories /\ bot'.dir = bot.dir /\ bot'.stop = bot.stop
          /\ bot'.filled = bot.filled
          /\ bot'.active => bot.active
      BY <1>1, <1>4 DEF Memories
    <2>2. Knows(bot)'
      BY <1>1, <1>2, <2>1 DEF Knows, StopInv
    <2>3. LoopTypes'
      BY <1>3, <2>1 DEF LoopTypes, Types
    <2>4. Due(bot, see.gain)' = Due(bot, see.gain)
      BY <1>3, <2>1 DEF Due
    <2>5. StopInv'
      <3>1. faults' = 0 => xpos'.sl <= xpos.sl \/ xpos'.sl <= 1
        OBVIOUS
      <3>2. (pc \in Reading /\ reply = "ok" /\ faults = 0 => xpos.sl <= 1 \/ xpos.sl <= view.sl)'
        BY <1>1, <1>2, <1>3 DEF StopInv, Reading
      <3>3. (pc \in Reading /\ reply = "fail" => faults > 0)'
        BY <1>1, <1>3 DEF StopInv, Reading
      <3>4. (pc = "market" /\ faults = 0 => xpos.sl <= 1)'
        BY <1>1, <1>2, <1>3 DEF StopInv
      <3>5. (pc \in {"protect", "emergency"} /\ ret = "adopt" => bot.stop = 1)'
        BY <1>3, <2>1 DEF StopInv
      <3>6. (pc \in Managing => bot.dir # "none")'
        BY <1>3, <2>1 DEF StopInv, Managing
      <3>7. (pc \in {"reverse", "revRead", "market", "limit"} => see.sig # "none")'
        BY <1>3 DEF StopInv
      <3>8. (pc = "target" => Due(bot, see.gain) # {})'
        BY <1>3, <2>4 DEF StopInv
      <3> QED BY <2>2, <3>2, <3>3, <3>4, <3>5, <3>6, <3>7, <3>8 DEF StopInv
    <2> QED BY <2>3, <2>5 DEF Stands, Kept
  <1>5. CASE pc = "idle" /\ bot' = [NoBot EXCEPT !.pend = bot.pend]
    <2>1. bot' \in Memories /\ bot'.active = FALSE /\ bot'.dir = "none"
      BY <1>1, <1>5, EndsTyped
    <2>2. LoopTypes'
      BY <1>3, <2>1 DEF LoopTypes, Types
    <2>3. StopInv'
      BY <1>3, <1>5, <2>1 DEF StopInv, Knows, Reading, Managing
    <2> QED BY <2>2, <2>3 DEF Stands, Kept
  <1> QED BY <1>4, <1>5

\* The exchange: a resting entry fills, the position ends, the key changes.
LEMMA ExchangeKept == ASSUME Types, StopInv, Exchange PROVE Stands
  <1>0. UNCHANGED loop /\ bot' = bot /\ RestTypes'
    BY DEF Exchange, Types, RestTypes
  <1>a. xpos \in Holdings /\ xpos.qty \in Nat /\ xpos.sl \in Nat /\ faults \in Nat
    BY HoldingTyped DEF Types, VenueTypes
  <1>1. CASE \E d \in Directions : Fill(d)
    <2> PICK d \in Directions : Fill(d)
      BY <1>1
    <2> PICK n \in {orders[d], orders[d] \div 2} \ {0} :
             LET p == Netted(xpos, d, n) IN
             /\ orders' = [orders EXCEPT ![d] = @ - n]
             /\ xpos' = IF p.dir = d /\ p.sl = 0 THEN [p EXCEPT !.sl = 1] ELSE p
      BY DEF Fill
    <2> DEFINE p == Netted(xpos, d, n)
    <2>1. orders[d] \in Nat /\ n \in Nat \ {0} /\ n <= orders[d]
      BY DEF Types, VenueTypes
    <2>2. orders' \in [Directions -> Nat]
      BY <2>1 DEF Types, VenueTypes
    <2>3. /\ p \in Holdings
          /\ p.sl \in {0, xpos.sl}
          /\ p.dir = xpos.dir /\ xpos.qty > 0 => p.sl = xpos.sl
      BY <1>a, <2>1, NettedTyped
    <2>4. xpos' = IF p.dir = d /\ p.sl = 0 THEN [p EXCEPT !.sl = 1] ELSE p
      OBVIOUS
    <2>5. UNCHANGED <<faults, streak, key, sent>>
      BY DEF Fill
    <2> HIDE DEF p
    <2>6. xpos' \in Holdings /\ xpos'.sl \in {1, p.sl} /\ xpos'.sl >= p.sl /\ xpos'.dir = p.dir
      <3>1. CASE p.dir = d /\ p.sl = 0
        <4>1. p \in [dir : Directions, qty : Nat \ {0}, sl : Nat]
          BY <2>3, <3>1 DEF Holdings, Flat, Directions
        <4> QED BY <2>4, <3>1, <4>1 DEF Holdings
      <3>2. CASE ~(p.dir = d /\ p.sl = 0)
        <4>1. xpos' = p
          BY <2>4, <3>2
        <4>2. p.sl \in Nat
          BY <2>3, HoldingTyped
        <4>3. p \in Holdings
          BY <2>3
        <4>4. p.sl >= p.sl
          BY <4>2
        <4> QED BY <4>1, <4>3, <4>4
      <3> QED BY <3>1, <3>2
    <2>7. VenueTypes'
      BY <2>2, <2>5, <2>6 DEF VenueTypes, Types
    <2>8. StopStays
      BY <1>a, <2>3, <2>6 DEF StopStays
    <2>9. xpos'.sl <= xpos.sl \/ xpos'.sl <= 1
      BY <1>a, <2>3, <2>6
    <2> QED BY <1>0, <1>a, <2>5, <2>7, <2>8, <2>9, OthersKept
  <1>2. CASE ExchangeClose
    <2>1. xpos' = Flat /\ UNCHANGED <<orders, faults, streak, key, sent>>
      BY <1>2 DEF ExchangeClose
    <2>2. VenueTypes'
      BY <2>1 DEF VenueTypes, Types, Holdings
    <2>3. StopStays /\ xpos'.sl <= 1
      BY <1>a, <2>1, HoldingTyped DEF StopStays, Flat, Directions
    <2> QED BY <1>0, <1>a, <2>1, <2>2, <2>3, OthersKept
  <1>3. CASE KeyChange
    <2>1. UNCHANGED <<xpos, orders, faults, streak, sent>> /\ key' \in {"denied", "renewed"}
      BY <1>3 DEF KeyChange
    <2>2. VenueTypes'
      BY <2>1 DEF VenueTypes, Types
    <2>3. StopStays /\ xpos'.sl <= xpos.sl
      BY <1>a, <2>1 DEF StopStays
    <2> QED BY <1>0, <1>a, <2>1, <2>2, <2>3, OthersKept
  <1> QED BY <1>1, <1>2, <1>3 DEF Exchange

\* A bar.
LEMMA BarKept == ASSUME Types, StopInv, NewBar PROVE Stands
  <1>1. UNCHANGED loop /\ bot' = bot /\ UNCHANGED <<xpos, orders, faults, key, streak, sent>>
    BY DEF NewBar, venue
  <1>2. RestTypes'
    BY DEF NewBar, Types, RestTypes
  <1>3. xpos.qty \in Nat /\ xpos.sl \in Nat /\ faults \in Nat
    BY HoldingTyped DEF Types, VenueTypes
  <1>4. VenueTypes' /\ StopStays
    BY <1>1, <1>3 DEF VenueTypes, Types, StopStays
  <1> QED BY <1>1, <1>2, <1>3, <1>4, OthersKept

\* The task is cancelled and the object dropped.
LEMMA TearDownKept ==
  ASSUME Types, StopInv, TearDown, asked' \in Nat
  PROVE  Stands
  <1>1. bot' = NoBot /\ pc' = "off" /\ reply' = "ok" /\ view' = Flat /\ see' = NoBar /\ tries' = 1
        /\ ret' = "none"
    BY DEF TearDown
  <1>2. VenueTypes' /\ StopStays /\ faults' >= faults
    <2>1. xpos.qty \in Nat /\ xpos.sl \in Nat /\ faults \in Nat
      BY HoldingTyped DEF Types, VenueTypes
    <2> QED BY <2>1 DEF TearDown, VenueTypes, Types, StopStays
  <1>3. NoBot \in Memories /\ NoBot.active = FALSE /\ NoBot.dir = "none"
    BY DEF NoBot, Memories, Sides
  <1>4. LoopTypes'
    BY <1>1, <1>3 DEF LoopTypes, Labels, Answers, Holdings, Bars, NoBar, Callers
  <1>5. StopInv'
    BY <1>1, <1>3 DEF StopInv, Knows, Reading, Managing
  <1>6. RestTypes'
    <2>1. NoRequest \in [pc : {"none", "uiRead", "uiClose", "stopCancel"}, reply : Answers,
                         view : [dir : Sides, qty : Nat, sl : Nat]]
      BY DEF NoRequest, Answers, Flat, Sides
    <2> QED BY <2>1 DEF TearDown, Types, RestTypes
  <1> QED BY <1>2, <1>4, <1>5, <1>6 DEF Stands, Kept

\* A call of a request leaves the loop where it is.
LEMMA CallKept ==
  ASSUME Types, StopInv, Mild, UNCHANGED loop, bot' = bot, RestTypes'
  PROVE  Stands
  BY OthersKept DEF Mild

\* The close button, stop and crash.
LEMMA RequestsKept == ASSUME Types, StopInv, Requests PROVE Stands
  <1> DEFINE Apis == [pc : {"none", "uiRead", "uiClose", "stopCancel"}, reply : Answers,
                      view : [dir : Sides, qty : Nat, sl : Nat]]
  <1>0. asked \in Nat /\ api \in Apis /\ bot \in Memories /\ limitEntry \in BOOLEAN /\ age \in Nat
        /\ booked \in BOOLEAN /\ VenueTypes
    BY DEF Types, RestTypes, LoopTypes
  <1>a. Flat \in [dir : Sides, qty : Nat, sl : Nat]
    BY DEF Flat, Sides
  <1>1. CASE RequestClose
    <2> PICK a \in Answers, v \in {xpos, Flat} :
          /\ FetchPosition(a, v)
          /\ api' = [pc |-> "uiRead", reply |-> a,
                     view |-> IF v = Flat THEN [dir |-> bot.dir, qty |-> bot.qty, sl |-> 0]
                              ELSE v]
      BY <1>1 DEF RequestClose, Answers
    <2>1. Mild /\ v \in Holdings
      BY <1>0, ReadMild
    <2>2. [dir |-> bot.dir, qty |-> bot.qty, sl |-> 0] \in [dir : Sides, qty : Nat, sl : Nat]
      BY <1>0 DEF Memories
    <2>3. v \in [dir : Sides, qty : Nat, sl : Nat]
      BY <2>1 DEF Holdings, Sides, Flat
    <2>4. api' \in Apis
      BY <2>2, <2>3
    <2>5. RestTypes'
      BY <1>0, <1>1, <2>4 DEF RequestClose, Asked, Comes, RestTypes
    <2> QED BY <1>1, <2>1, <2>5, CallKept DEF RequestClose
  <1>2. CASE RequestCloses
    <2> PICK a \in Answers :
          /\ ReduceOnly(api.view.dir, api.view.qty, a)
          /\ api' = [pc |-> "uiClose", reply |-> a, view |-> Flat]
      BY <1>2 DEF RequestCloses, Answers
    <2>1. Mild
      BY <1>0, ReduceMild
    <2>2. RestTypes'
      BY <1>0, <1>2, <1>a DEF RequestCloses, RestTypes
    <2> QED BY <1>2, <2>1, <2>2, CallKept DEF RequestCloses
  <1>3. CASE RequestClosed
    <2>1. UNCHANGED loop /\ UNCHANGED <<xpos, orders, faults, key, streak, sent>>
      BY <1>3 DEF RequestClosed, venue
    <2>2. api' = NoRequest /\ NoRequest \in Apis
      BY <1>3, <1>a DEF RequestClosed, NoRequest, Answers
    <2>3. RestTypes'
      BY <1>0, <1>3, <2>2 DEF RequestClosed, RestTypes
    <2>4. xpos.qty \in Nat /\ xpos.sl \in Nat /\ faults \in Nat
      BY <1>0, HoldingTyped DEF VenueTypes
    <2>5. VenueTypes' /\ StopStays
      BY <1>0, <2>1, <2>4 DEF VenueTypes, StopStays
    <2>6. \/ bot' = bot
          \/ bot' = [bot EXCEPT !.active = FALSE]
          \/ pc = "idle" /\ bot' = [NoBot EXCEPT !.pend = bot.pend]
      BY <1>3 DEF RequestClosed
    <2> QED BY <2>1, <2>3, <2>4, <2>5, <2>6, OthersKept
  <1>4. CASE RequestStop
    <2>1. CASE TearDown
      BY <1>0, <1>4, <2>1, TearDownKept DEF RequestStop, Asked, Comes
    <2>2. CASE /\ CancelEntryOrders
               /\ api' = [NoRequest EXCEPT !.pc = "stopCancel"]
               /\ UNCHANGED <<limitEntry, bot, age, booked, loop>>
      <3>1. Mild
        BY <1>0, <2>2, CancelMild
      <3>2. api' \in Apis
        BY <1>a, <2>2 DEF NoRequest, Answers
      <3>3. RestTypes'
        BY <1>0, <1>4, <2>2, <3>2 DEF RequestStop, Asked, Comes, RestTypes
      <3> QED BY <2>2, <3>1, <3>3, CallKept
    <2> QED BY <1>4, <2>1, <2>2 DEF RequestStop
  <1>5. CASE StopCancelled
    BY <1>0, <1>5, TearDownKept DEF StopCancelled
  <1>6. CASE Crash
    BY <1>0, <1>6, TearDownKept DEF Crash, Comes
  <1> QED BY <1>1, <1>2, <1>3, <1>4, <1>5, <1>6 DEF Requests

-----------------------------------------------------------------------------
(* StopNeverBack *)

\* Every step keeps types and stops.
LEMMA NextKept == ASSUME Types, StopInv, Next PROVE Stands
  BY ExchangeKept, BarKept, StartKept, BeginKept, StartingKept, SyncKept, PendingKept,
     AdoptionKept, ProtectionKept, TradingKept, RequestsKept DEF Next, LoopRuns

\* The first state has the types, and no stop to speak of.
LEMMA InitKept == Init => Types /\ StopInv
  <1> SUFFICES ASSUME Init PROVE Types /\ StopInv
    OBVIOUS
  <1>1. NoBot \in Memories /\ NoBot.active = FALSE /\ NoBot.dir = "none"
    BY DEF NoBot, Memories, Sides
  <1>2. VenueTypes
    BY DEF Init, VenueTypes, Holdings
  <1>3. LoopTypes
    BY <1>1 DEF Init, LoopTypes, Labels, Answers, Holdings, Bars, NoBar, Callers
  <1>4. NoRequest \in [pc : {"none", "uiRead", "uiClose", "stopCancel"}, reply : Answers,
                       view : [dir : Sides, qty : Nat, sl : Nat]]
    BY DEF NoRequest, Answers, Flat, Sides
  <1>5. RestTypes
    BY <1>4 DEF Init, RestTypes
  <1>6. StopInv
    BY <1>1 DEF Init, StopInv, Knows, Reading, Managing
  <1> QED BY <1>2, <1>3, <1>5, <1>6 DEF Types

\* Types and StopInv hold in every reachable state.
LEMMA StopInvariant == Spec => [](Types /\ StopInv)
  <1>1. Types /\ StopInv /\ [Next]_vars => (Types /\ StopInv)'
    <2> SUFFICES ASSUME Types, StopInv, [Next]_vars PROVE (Types /\ StopInv)'
      OBVIOUS
    <2>1. CASE Next
      BY <2>1, NextKept DEF Stands, Kept, Types
    <2>2. CASE UNCHANGED vars
      BY <2>2 DEF vars, Types, VenueTypes, LoopTypes, RestTypes, StopInv, Knows, Reading,
                  Managing, Due
    <2> QED BY <2>1, <2>2
  <1> QED BY <1>1, InitKept, PTL DEF Spec

\* No step takes the stop of a held position back or removes it: whatever fails
\* up to then, whoever asks what, for any sizes of entries and prices
\* (_check_split_tp, _update_ladder_sl, _recover_position_from_exchange).
THEOREM StopNeverBackHolds == Spec => StopNeverBack
  <1>1. Types /\ StopInv /\ [Next]_vars =>
           [faults' = 0 /\ xpos.qty > 0 /\ xpos'.dir = xpos.dir /\ xpos'.qty <= xpos.qty
               => xpos'.sl >= xpos.sl]_vars
    BY NextKept DEF Stands, Kept, StopStays
  <1> QED BY <1>1, StopInvariant, PTL DEF Spec, StopNeverBack

-----------------------------------------------------------------------------
(* What OneEntry and Accounted need, as long as nothing fails unseen *)

\* The instances the theorems are about: a user's request never meets a failure
\* or a revoked key, and a bot that cannot write stops before the attempts to
\* register a stop and to close are used up.
Limits == ~Mixed /\ WriteStop \in 1..3 /\ AuthStop >= 1

\* No read failed, no answer was lost and no cancel of a resting order was
\* refused; no request touched limit entries.
Quiet == faults = 0 /\ (limitEntry => asked = 0)

Resting == orders["long"] + orders["short"]
Naked == xpos.qty > 0 /\ xpos.sl = 0
Covers(d, n) == xpos.qty > 0 => xpos.dir = d /\ xpos.qty <= n

\* A close the user asked for has been made; a naked position is adopted.
ClosedByUser == api.pc = "uiClose" /\ api.reply = "ok"
AdoptsNaked == \/ pc = "adoptRead" /\ view.qty > 0 /\ view.sl = 0
               \/ pc \in {"protect", "emergency"} /\ ret = "adopt"

\* Requests and a key that is refused do not meet.
Apart ==
    /\ asked = 0 => api = NoRequest
    /\ asked > 0 => key = "good"
    /\ streak.auth = 0
    /\ key = "good" => streak.write = 0
    /\ pc = "off" => api = NoRequest

Believed ==
    /\ bot.active => Covers(bot.dir, bot.qty)
    /\ pc \in Managing => Covers(bot.dir, bot.qty)
    /\ pc \in {"adoptRead", "revRead", "market", "limit", "sweep", "pendRead", "pendCancel",
               "pendAdopt", "pendGone"} => ~bot.active
    /\ pc # "syncClose"

Rests ==
    /\ ~limitEntry => Resting = 0 /\ bot.pend = "none"
    /\ bot.pend # "none" => ~bot.active /\ streak.write = 0 /\ pc \in {"idle", "pendRead", "pendGone"}
    /\ Resting > 0 => \/ bot.pend # "none" /\ pc \in {"idle", "pendRead"}
                      \/ pc = "limit" /\ reply = "ok"
    /\ pc = "limit" => limitEntry
    /\ pc = "limit" /\ reply = "ok" => streak.write = 0
    /\ pc = "market" => ~limitEntry /\ Covers(see.sig, EntryQty)
    /\ pc = "market" /\ reply = "fail" => xpos.qty = 0

Answered ==
    /\ pc \in Reading \cup {"pendRead", "sync"} => reply = "ok"
    /\ pc \in Reading => Covers(view.dir, view.qty)
    /\ pc = "sync" /\ bot.active => Covers(view.dir, view.qty) /\ (view.qty > 0 => view.dir = bot.dir)
    /\ pc \in {"reverse", "emergency", "stopExit"} /\ reply = "ok" => xpos.qty = 0
    /\ pc = "target" /\ reply = "ok" => Covers(bot.dir, bot.qty - Part(bot))

Adopted ==
    /\ AdoptsNaked => key = "renewed" \/ asked > 0
    /\ pc = "emergency" /\ ret = "adopt" => xpos.qty = 0
    /\ pc = "protect" /\ ret = "adopt" /\ ~bot.active => xpos.qty = 0
    /\ ClosedByUser => ~Naked \/ pc = "market"
    /\ ClosedByUser /\ AdoptsNaked => xpos.qty = 0
    /\ api.pc = "uiRead" /\ ((Naked /\ pc # "market") \/ AdoptsNaked) =>
          (xpos.dir = api.view.dir => xpos.qty <= api.view.qty)

\* The bot stops at the end of the step, unless the key is renewed.
Shut == key = "denied" /\ streak.write >= WriteStop

\* A position without a stop is being entered, or the bot is about to stop, or
\* has stopped; started again with the key still refused, it knows the position
\* until it stops again.
Clothed ==
    Naked /\ asked = 0 /\ key # "renewed" =>
        \/ pc = "market"
        \/ /\ pc = "protect" /\ ret = "open" /\ reply = "fail" /\ bot.active /\ key = "denied"
           /\ streak.write + 3 >= WriteStop + tries
        \/ Shut /\ pc = "emergency" /\ ret \in {"open", "manage"}
        \/ Shut /\ pc \in {"off", "recRead"}
        \/ Shut /\ bot.active /\ pc \in {"idle", "sync", "target", "ladder", "reverse", "stopExit"}
        \/ Shut /\ bot.active /\ pc = "protect" /\ ret = "manage" /\ reply = "fail"

Recorded ==
    ~limitEntry =>
        /\ xpos.qty > 0 /\ pc \notin {"off", "recRead", "market"} => booked
        /\ bot.active => booked
        /\ pc = "adoptRead" /\ view.qty > 0 => booked

Within == Exposure <= EntryQty

EntryFacts == /\ Apart /\ Believed /\ Rests /\ Answered /\ Adopted /\ Clothed /\ Recorded
              /\ Within

EntryInv == Quiet => EntryFacts

-----------------------------------------------------------------------------
(* The adapter's calls when nothing fails unseen *)

\* What every call but an entry does: the position may shrink or get a stop.
Shrinks ==
    /\ xpos'.qty <= xpos.qty
    /\ xpos'.qty > 0 => xpos'.dir = xpos.dir /\ (xpos.sl > 0 => xpos'.sl > 0)

\* The adapter counts a refusal up to WriteStop.
Refused == streak'.write = (IF streak.write < WriteStop THEN streak.write + 1 ELSE streak.write)

\* A failure is none when none was counted.
LEMMA NoFault == ASSUME faults \in Nat, faults' = 0, NEW k PROVE ~Fault(k)
  BY DEF Fault

\* What the streaks are after a call.
LEMMA StreakFields ==
  ASSUME streak \in [auth : Nat, write : Nat]
  PROVE  /\ [streak EXCEPT !.auth = 0].auth = 0
         /\ [streak EXCEPT !.auth = 0].write = streak.write
         /\ [streak EXCEPT !.write = 0].write = 0
         /\ [streak EXCEPT !.write = 0].auth = streak.auth
         /\ [streak EXCEPT !.write = IF @ < WriteStop THEN @ + 1 ELSE @].auth = streak.auth
         /\ [streak EXCEPT !.write = IF @ < WriteStop THEN @ + 1 ELSE @].write =
               (IF streak.write < WriteStop THEN streak.write + 1 ELSE streak.write)
  OBVIOUS

\* A position that only shrinks stays covered and clothed.
LEMMA ShrinksCovered ==
  ASSUME VenueTypes, VenueTypes', Shrinks, NEW d, NEW n \in Nat, Covers(d, n)
  PROVE  Covers(d, n)'
  <1>1. xpos.qty \in Nat /\ xpos'.qty \in Nat
    BY HoldingTyped DEF VenueTypes
  <1> QED BY <1>1 DEF Covers, Shrinks

\* A position that has a stop keeps it while it shrinks.
LEMMA ShrinksClothed ==
  ASSUME VenueTypes, VenueTypes', Shrinks, Naked'
  PROVE  Naked
  <1>1. xpos.qty \in Nat /\ xpos'.qty \in Nat /\ xpos.sl \in Nat /\ xpos'.sl \in Nat
    BY HoldingTyped DEF VenueTypes
  <1> QED BY <1>1 DEF Naked, Shrinks

\* A read says what is there.
LEMMA QuietRead ==
  ASSUME VenueTypes, faults' = 0, NEW a \in Answers, NEW v \in {xpos, Flat}, FetchPosition(a, v)
  PROVE  /\ a = "ok" /\ v = xpos /\ xpos' = xpos /\ orders' = orders /\ key' = key
         /\ streak'.auth = 0 /\ streak'.write = streak.write
  <1>1. a = "ok" /\ v = xpos /\ streak' = [streak EXCEPT !.auth = 0]
    BY NoFault DEF FetchPosition, VenueTypes
  <1> QED BY <1>1, StreakFields DEF FetchPosition, VenueTypes

\* A reduce-only order is accepted, refused or of the wrong side.
LEMMA QuietReduce ==
  ASSUME VenueTypes, faults' = 0, NEW d \in Sides, NEW n \in Nat, NEW a \in Answers,
         ReduceOnly(d, n, a)
  PROVE  /\ orders' = orders /\ key' = key /\ streak'.auth = streak.auth /\ Shrinks
         /\ \/ /\ a = "ok" /\ key # "denied" /\ xpos.dir = d /\ streak'.write = 0
               /\ xpos'.qty = (IF n >= xpos.qty THEN 0 ELSE xpos.qty - n)
            \/ a = "fail" /\ key = "denied" /\ xpos' = xpos /\ Refused
            \/ a = "fail" /\ xpos.dir # d /\ xpos' = xpos /\ streak'.write = streak.write
  <1>1. orders' = orders /\ key' = key
    BY DEF ReduceOnly
  <1>2. xpos.qty \in Nat /\ xpos.sl \in Nat
    BY HoldingTyped DEF VenueTypes
  <1>3. CASE /\ a = "ok" /\ xpos.dir = d /\ Accepted
             /\ xpos' = IF n >= xpos.qty THEN Flat ELSE [xpos EXCEPT !.qty = @ - n]
    <2>1. key # "denied" /\ streak'.write = 0 /\ streak'.auth = streak.auth
      BY <1>3, StreakFields DEF Accepted, VenueTypes
    <2>2. CASE n >= xpos.qty
      <3>1. xpos'.qty = 0
        BY <1>3, <2>2 DEF Flat
      <3> QED BY <1>1, <1>2, <1>3, <2>1, <2>2, <3>1 DEF Shrinks
    <2>3. CASE ~(n >= xpos.qty)
      <3>1. xpos \in [dir : Directions, qty : Nat \ {0}, sl : Nat]
        BY <2>3 DEF VenueTypes, Holdings, Flat
      <3>2. xpos' = [xpos EXCEPT !.qty = @ - n]
        BY <1>3, <2>3
      <3>3. xpos'.qty = xpos.qty - n /\ xpos'.dir = xpos.dir /\ xpos'.sl = xpos.sl
        BY <3>1, <3>2
      <3> QED BY <1>1, <1>2, <1>3, <2>1, <2>3, <3>3 DEF Shrinks
    <2> QED BY <2>2, <2>3
  <1>4. CASE a = "fail" /\ Denied /\ UNCHANGED xpos
    <2>1. key = "denied" /\ Refused /\ streak'.auth = streak.auth
      BY <1>4, StreakFields DEF Denied, VenueTypes, Refused
    <2> QED BY <1>1, <1>2, <1>4, <2>1 DEF Shrinks
  <1>5. CASE xpos.dir # d /\ a = "fail" /\ UNCHANGED <<xpos, faults, streak>>
    BY <1>1, <1>2, <1>5 DEF Shrinks
  <1>6. ~AckLost
    BY NoFault DEF AckLost, VenueTypes
  <1> QED BY <1>3, <1>4, <1>5, <1>6 DEF ReduceOnly

\* A stop is accepted, refused or of the wrong side.
LEMMA QuietStop ==
  ASSUME VenueTypes, faults' = 0, NEW d \in Directions, NEW s \in Nat, s >= 1,
         NEW a \in Answers, SetStop(d, s, a)
  PROVE  /\ orders' = orders /\ key' = key /\ streak'.auth = streak.auth /\ Shrinks
         /\ xpos'.qty = xpos.qty
         /\ \/ a = "ok" /\ key # "denied" /\ xpos.dir = d /\ streak'.write = 0 /\ xpos'.sl = s
            \/ a = "fail" /\ key = "denied" /\ xpos' = xpos /\ Refused
            \/ a = "fail" /\ xpos.dir # d /\ xpos' = xpos /\ streak'.write = streak.write
  <1>1. orders' = orders /\ key' = key
    BY DEF SetStop
  <1>2. xpos.qty \in Nat /\ xpos.sl \in Nat
    BY HoldingTyped DEF VenueTypes
  <1>3. CASE a = "ok" /\ xpos.dir = d /\ Accepted /\ xpos' = [xpos EXCEPT !.sl = s]
    <2>1. key # "denied" /\ streak'.write = 0 /\ streak'.auth = streak.auth
      BY <1>3, StreakFields DEF Accepted, VenueTypes
    <2>2. xpos \in [dir : Directions, qty : Nat \ {0}, sl : Nat]
      BY <1>3 DEF VenueTypes, Holdings, Flat, Directions
    <2>3. xpos'.qty = xpos.qty /\ xpos'.dir = xpos.dir /\ xpos'.sl = s
      BY <1>3, <2>2
    <2> QED BY <1>1, <1>2, <1>3, <2>1, <2>3 DEF Shrinks
  <1>4. CASE a = "fail" /\ Denied /\ UNCHANGED xpos
    <2>1. key = "denied" /\ Refused /\ streak'.auth = streak.auth
      BY <1>4, StreakFields DEF Denied, VenueTypes, Refused
    <2> QED BY <1>1, <1>2, <1>4, <2>1 DEF Shrinks
  <1>5. CASE xpos.dir # d /\ a = "fail" /\ UNCHANGED <<xpos, faults, streak>>
    BY <1>1, <1>2, <1>5 DEF Shrinks
  <1> QED BY <1>3, <1>4, <1>5 DEF SetStop

\* A market entry without a position opens one or is refused.
LEMMA QuietMarket ==
  ASSUME VenueTypes, faults' = 0, NEW d \in Directions, NEW a \in Answers, MarketEntry(d, a),
         xpos.qty = 0
  PROVE  /\ orders' = orders /\ key' = key /\ streak'.auth = streak.auth
         /\ \/ /\ a = "ok" /\ key # "denied" /\ streak'.write = 0
               /\ xpos' = [dir |-> d, qty |-> EntryQty, sl |-> 0]
            \/ a = "fail" /\ key = "denied" /\ xpos' = xpos
  <1>1. orders' = orders /\ key' = key
    BY DEF MarketEntry
  <1>2. CASE a = "ok" /\ Accepted /\ xpos' = Netted(xpos, d, EntryQty)
    BY <1>1, <1>2, StreakFields DEF Accepted, VenueTypes, Netted
  <1>3. CASE a = "fail" /\ Denied /\ UNCHANGED xpos
    BY <1>1, <1>3, StreakFields DEF Denied, VenueTypes
  <1>4. ~AckLost
    BY NoFault DEF AckLost, VenueTypes
  <1> QED BY <1>2, <1>3, <1>4 DEF MarketEntry

\* A limit entry without another rests or is refused.
LEMMA QuietLimit ==
  ASSUME VenueTypes, faults' = 0, NEW d \in Directions, NEW a \in Answers, LimitEntry(d, a),
         Resting = 0
  PROVE  /\ xpos' = xpos /\ key' = key /\ streak'.auth = streak.auth
         /\ \/ a = "ok" /\ key # "denied" /\ streak'.write = 0 /\ Resting' = EntryQty
            \/ a = "fail" /\ key = "denied" /\ Resting' = 0
  <1>1. xpos' = xpos /\ key' = key
    BY DEF LimitEntry
  <1>2. orders["long"] = 0 /\ orders["short"] = 0 /\ orders \in [Directions -> Nat]
    <2>1. orders["long"] \in Nat /\ orders["short"] \in Nat
      BY DEF VenueTypes, Directions
    <2> QED BY <2>1 DEF Resting, VenueTypes
  <1>3. CASE a = "ok" /\ Accepted /\ orders' = [orders EXCEPT ![d] = @ + EntryQty]
    <2>1. Resting' = EntryQty
      BY <1>2, <1>3, Settled DEF Resting, Directions
    <2> QED BY <1>1, <1>3, <2>1, StreakFields DEF Accepted, VenueTypes
  <1>4. CASE a = "fail" /\ Denied /\ UNCHANGED orders
    <2>1. Resting' = 0
      BY <1>4 DEF Resting
    <2> QED BY <1>1, <1>4, <2>1, StreakFields DEF Denied, VenueTypes
  <1>5. ~AckLost
    BY NoFault DEF AckLost, VenueTypes
  <1> QED BY <1>3, <1>4, <1>5 DEF LimitEntry

\* Cancelling leaves no order.
LEMMA QuietCancel ==
  ASSUME VenueTypes, faults' = 0, CancelEntryOrders
  PROVE  xpos' = xpos /\ key' = key /\ streak' = streak /\ Resting' = 0
  <1>1. orders' = NoOrders
    <2>1. ~Fault("cancel")
      BY NoFault DEF VenueTypes
    <2>2. faults' # IF faults < MaxFaults THEN faults + 1 ELSE faults
      BY CursusAssumption DEF VenueTypes
    <2> QED BY <2>1, <2>2 DEF CancelEntryOrders
  <1>2. Resting' = 0
    BY <1>1 DEF Resting, Directions, NoOrders
  <1> QED BY <1>2 DEF CancelEntryOrders

\* Lots at rest.
LEMMA RestingTyped ==
  ASSUME VenueTypes
  PROVE  /\ Resting \in Nat /\ Exposure = xpos.qty + Resting /\ xpos.qty \in Nat
  <1>1. orders["long"] \in Nat /\ orders["short"] \in Nat
    BY DEF VenueTypes, Directions
  <1>2. xpos.qty \in Nat
    BY HoldingTyped DEF VenueTypes
  <1> QED BY <1>1, <1>2 DEF Resting, Exposure

-----------------------------------------------------------------------------
(* The calls of the loop, and what a memory b must fit for each *)

\* The loop leaves requests alone; nothing has failed unseen.
Grounds ==
    /\ Types /\ Types'
    /\ Quiet /\ Quiet' /\ UNCHANGED <<limitEntry, asked, api>>
    /\ Apart /\ Within
    /\ ~limitEntry => Resting = 0

Alone(b) == b.pend = "none" /\ Resting = 0
Booked(b) == ~limitEntry => (xpos.qty > 0 => booked') /\ (b.active => booked')
Dressed == Naked => asked > 0 \/ key = "renewed"
Answerable(b) == Dressed \/ (b.active /\ Shut)
ApiAgrees ==
    /\ ClosedByUser => ~Naked
    /\ api.pc = "uiRead" /\ Naked /\ xpos.dir = api.view.dir => xpos.qty <= api.view.qty

\* The memory b fits the position, and nothing rests.
Fits(b) ==
    /\ Grounds
    /\ b \in Memories
    /\ Alone(b) /\ Booked(b) /\ Answerable(b) /\ ApiAgrees
    /\ b.active => Covers(b.dir, b.qty)

\* Nothing fails before a quiet state.
LEMMA GroundsQuiet ==
  ASSUME Grounds
  PROVE  /\ Quiet /\ faults = 0 /\ faults' = 0
         /\ limitEntry' = limitEntry /\ asked' = asked /\ api' = api
         /\ VenueTypes /\ VenueTypes' /\ LoopTypes /\ LoopTypes'
         /\ asked \in Nat
         /\ xpos.qty \in Nat /\ xpos'.qty \in Nat /\ xpos.sl \in Nat /\ xpos'.sl \in Nat
         /\ streak.write \in Nat /\ streak.auth \in Nat
  <1>1. /\ Quiet /\ faults = 0 /\ faults' = 0
        /\ limitEntry' = limitEntry /\ asked' = asked /\ api' = api
    BY DEF Grounds, Quiet
  <1>2. VenueTypes /\ VenueTypes' /\ LoopTypes /\ LoopTypes' /\ asked \in Nat
    BY DEF Grounds, Types, RestTypes
  <1>3. xpos.qty \in Nat /\ xpos.sl \in Nat /\ streak.write \in Nat /\ streak.auth \in Nat
    BY <1>2, HoldingTyped DEF VenueTypes
  <1>4. xpos'.qty \in Nat /\ xpos'.sl \in Nat
    BY <1>2, HoldingTyped DEF VenueTypes
  <1> QED BY <1>1, <1>2, <1>3, <1>4

\* The loop sleeps or is off; a naked position is left only when it is off or
\* the memory holds it.
LEMMA RestEntry ==
  ASSUME Limits, Grounds, NEW b \in Memories, Booked(b), ApiAgrees,
         b.active => Covers(b.dir, b.qty),
         b.pend # "none" => ~b.active /\ streak.write = 0 /\ limitEntry,
         Resting > 0 => b.pend # "none",
         NEW l \in {"off", "idle"},
         l = "off" => streak.write >= WriteStop,
         Naked /\ asked = 0 /\ key # "renewed" => Shut /\ (l = "off" \/ b.active),
         Rest(l, b)
  PROVE  EntryFacts'
  <1> USE GroundsQuiet
  <1>1. /\ xpos' = xpos /\ orders' = orders /\ key' = key /\ streak' = streak
        /\ pc' = l
        /\ reply' = "ok" /\ view' = Flat /\ ret' = "none"
    BY DEF Rest, venue
  <1>2. /\ bot'.active = b.active /\ bot'.pend = b.pend
        /\ b.active => bot' = b
    BY EndsTyped DEF Rest, Memories
  <1>3. pc' = "off" => streak.write >= WriteStop
    BY <1>1
  <1>4. pc' \in {"off", "idle"}
    BY <1>1
  <1>5. Resting' = Resting /\ (Naked' <=> Naked) /\ Exposure' = Exposure
    BY <1>1 DEF Resting, Naked, Exposure
  <1>6. Apart'
    BY <1>1, <1>3, Settled DEF Apart, Grounds, Limits
  <1>7. Believed'
    BY <1>1, <1>2, <1>4 DEF Believed, Managing, Covers
  <1>8. Rests'
    <2>1. b.pend # "none" => pc' = "idle"
      BY <1>3, <1>4 DEF Limits
    <2> QED BY <1>1, <1>2, <1>4, <1>5, <2>1 DEF Rests, Grounds
  <1>9. Answered'
    BY <1>4 DEF Answered, Reading
  <1>10. Adopted'
    BY <1>1, <1>4, <1>5 DEF Adopted, AdoptsNaked, ApiAgrees, ClosedByUser
  <1>11. Clothed'
    BY <1>1, <1>2, <1>4, <1>5 DEF Clothed, Shut
  <1>12. Recorded'
    BY <1>1, <1>2, <1>4 DEF Recorded, Booked
  <1>13. Within'
    BY <1>5 DEF Within, Grounds
  <1> QED BY <1>6, <1>7, <1>8, <1>9, <1>10, <1>11, <1>12, <1>13 DEF EntryFacts

\* The step ends; a naked position is left only when the bot stops.
LEMMA EndsEntry ==
  ASSUME Limits, Grounds, NEW b \in Memories, Booked(b), ApiAgrees,
         b.active => Covers(b.dir, b.qty),
         b.pend # "none" => ~b.active /\ streak.write = 0 /\ limitEntry,
         Resting > 0 => b.pend # "none",
         Naked /\ asked = 0 /\ key # "renewed" => Shut,
         Ends(b)
  PROVE  EntryFacts'
  <1> DEFINE l == IF streak.auth >= AuthStop \/ streak.write >= WriteStop THEN "off" ELSE "idle"
  <1>1. Rest(l, b) /\ l \in {"off", "idle"}
    BY DEF Ends
  <1>2. l = "off" <=> streak.write >= WriteStop
    BY GroundsQuiet, Settled DEF Limits, Grounds, Apart
  <1>3. Naked /\ asked = 0 /\ key # "renewed" => Shut /\ (l = "off" \/ b.active)
    BY <1>2 DEF Shut
  <1> HIDE DEF l
  <1> QED BY <1>1, <1>2, <1>3, RestEntry

\* start is over; a naked position is one the memory holds.
LEMMA BeginsEntry ==
  ASSUME Limits, Grounds, NEW b \in Memories, Booked(b), ApiAgrees,
         b.active => Covers(b.dir, b.qty),
         b.pend # "none" => ~b.active /\ streak.write = 0 /\ limitEntry,
         Resting > 0 => b.pend # "none",
         Naked /\ asked = 0 /\ key # "renewed" => Shut /\ b.active,
         Begins(b)
  PROVE  EntryFacts'
  BY RestEntry DEF Begins

\* The step ends with a memory that fits.
LEMMA EndsFit ==
  ASSUME Limits, NEW b, Fits(b), Ends(b)
  PROVE  EntryFacts'
  <1>1. Naked /\ asked = 0 /\ key # "renewed" => Shut
    BY DEF Fits, Answerable, Dressed
  <1>2. b.pend = "none" /\ Resting = 0
    BY DEF Fits, Alone
  <1> QED BY <1>1, <1>2, EndsEntry DEF Fits

\* The position is read for adoption, after a cancel or after a reversal.
LEMMA ReadsEntry ==
  ASSUME Limits, NEW b, Fits(b), ~b.active, NEW l \in {"pendAdopt", "adoptRead", "revRead"},
         Reads(l, b)
  PROVE  EntryFacts'
  <1> USE GroundsQuiet DEF Fits
  <1>0. Dressed
    BY DEF Answerable
  <1> PICK a \in Answers, v \in {xpos, Flat} : FetchPosition(a, v) /\ reply' = a /\ view' = v
    BY DEF Reads, Answers
  <1>1. pc' = l /\ bot' = b /\ ret' = "none"
    BY DEF Reads, Waits
  <1>2. /\ reply' = "ok" /\ view' = xpos /\ xpos' = xpos /\ orders' = orders /\ key' = key
        /\ streak'.auth = 0 /\ streak'.write = streak.write
    BY QuietRead
  <1>3. Resting' = Resting /\ (Naked' <=> Naked) /\ Exposure' = Exposure
    BY <1>2 DEF Resting, Naked, Exposure
  <1>4. Apart'
    BY <1>1, <1>2 DEF Apart, Grounds
  <1>5. Believed'
    BY <1>1 DEF Believed, Managing
  <1>6. Rests'
    BY <1>1, <1>2, <1>3 DEF Rests, Grounds, Alone
  <1>7. Answered'
    BY <1>1, <1>2 DEF Answered, Reading, Covers
  <1>8. Adopted'
    <2>1. AdoptsNaked' => Naked
      BY <1>1, <1>2 DEF AdoptsNaked, Naked
    <2> QED BY <1>0, <1>1, <1>2, <1>3, <2>1 DEF Adopted, ApiAgrees, ClosedByUser, Dressed
  <1>9. Clothed'
    BY <1>0, <1>2, <1>3 DEF Clothed, Dressed
  <1>10. Recorded'
    BY <1>1, <1>2 DEF Recorded, Booked
  <1>11. Within'
    BY <1>3 DEF Within, Grounds
  <1> QED BY <1>4, <1>5, <1>6, <1>7, <1>8, <1>9, <1>10, <1>11 DEF EntryFacts

\* Resting entries are cancelled while the bot holds nothing.
LEMMA CancelsEntry ==
  ASSUME Limits, Grounds, NEW b \in Memories, Booked(b), Dressed, ApiAgrees, ~b.active,
         NEW l \in {"sweep", "pendCancel", "pendGone"},
         b.pend # "none" => streak.write = 0 /\ limitEntry /\ l = "pendGone",
         Cancels(l, b)
  PROVE  EntryFacts'
  <1> USE GroundsQuiet
  <1>1. pc' = l /\ bot' = b /\ reply' = "ok" /\ view' = Flat /\ ret' = ret
    BY DEF Cancels, Waits
  <1>2. xpos' = xpos /\ key' = key /\ streak' = streak /\ Resting' = 0
    BY QuietCancel DEF Cancels
  <1>3. (Naked' <=> Naked) /\ Exposure' <= Exposure
    <2>1. Exposure = xpos.qty + Resting /\ Resting \in Nat
      BY RestingTyped
    <2>2. Exposure' = xpos'.qty + Resting'
      BY <1>2 DEF Exposure, Resting, VenueTypes, Directions
    <2> QED BY <1>2, <2>1, <2>2 DEF Naked
  <1>4. Apart'
    BY <1>1, <1>2 DEF Apart, Grounds
  <1>5. Believed'
    BY <1>1 DEF Believed, Managing
  <1>6. Rests'
    BY <1>1, <1>2 DEF Rests
  <1>7. Answered'
    BY <1>1 DEF Answered, Reading
  <1>8. Adopted'
    BY <1>1, <1>2, <1>3 DEF Adopted, AdoptsNaked, ApiAgrees, ClosedByUser
  <1>9. Clothed'
    BY <1>2, <1>3 DEF Clothed, Dressed
  <1>10. Recorded'
    BY <1>1, <1>2 DEF Recorded, Booked
  <1>11. Within'
    <2>1. Exposure \in Nat /\ Exposure' \in Nat
      BY RestingTyped, <1>2 DEF Exposure, VenueTypes, Directions
    <2> QED BY <1>3, <2>1, Settled DEF Within, Grounds
  <1> QED BY <1>4, <1>5, <1>6, <1>7, <1>8, <1>9, <1>10, <1>11 DEF EntryFacts

\* Lots of a covered position are sold.
LEMMA SalesEntry ==
  ASSUME Limits, Grounds, NEW b \in Memories, Alone(b), Booked(b), ApiAgrees,
         Covers(b.dir, b.qty),
         NEW l \in {"reverse", "stopExit", "emergency", "target"}, NEW n \in Nat,
         NEW a \in Answers,
         l = "target" => n = Part(b),
         l # "target" => n = b.qty,
         \/ Dressed
         \/ b.active /\ Shut /\ (l = "emergency" => ret' = "manage")
         \/ l = "emergency" /\ ret' = "open" /\ streak.write + 1 >= WriteStop,
         l = "emergency" /\ ret' = "adopt" => key = "renewed" \/ asked > 0,
         ReduceOnly(b.dir, n, a), reply' = a, Waits(l, b)
  PROVE  EntryFacts'
  <1> USE GroundsQuiet
  <1>1. pc' = l /\ bot' = b
    BY DEF Waits
  <1>2. /\ orders' = orders /\ key' = key /\ streak'.auth = streak.auth /\ Shrinks
        /\ \/ /\ a = "ok" /\ key # "denied" /\ xpos.dir = b.dir /\ streak'.write = 0
              /\ xpos'.qty = (IF n >= xpos.qty THEN 0 ELSE xpos.qty - n)
           \/ a = "fail" /\ key = "denied" /\ xpos' = xpos /\ Refused
           \/ a = "fail" /\ xpos.dir # b.dir /\ xpos' = xpos /\ streak'.write = streak.write
    BY QuietReduce DEF Memories
  <1>3. b.qty \in Nat /\ Part(b) \in Nat /\ Part(b) <= b.qty
    BY PartBound DEF Memories
  <1>4. Covers(b.dir, b.qty)' /\ (Naked' => Naked)
    BY <1>2, <1>3, ShrinksCovered, ShrinksClothed
  <1>5. a = "ok" => Covers(b.dir, b.qty - n)'
    <2>1. CASE l = "target"
      BY <1>2, <1>3, <2>1 DEF Covers, Shrinks
    <2>2. CASE l # "target"
      BY <1>2, <1>3, <2>2 DEF Covers, Shrinks
    <2> QED BY <2>1, <2>2
  <1>6. a = "ok" /\ l # "target" => xpos'.qty = 0
    BY <1>2, <1>3 DEF Covers
  <1>7. l = "emergency" /\ ret' = "adopt" => xpos'.qty = 0
    BY <1>2, <1>6 DEF Covers, Grounds, Apart
  <1>8. Apart'
    <2>1. key = "good" => streak'.write = 0
      BY <1>2 DEF Grounds, Apart
    <2> QED BY <1>1, <1>2, <2>1 DEF Apart, Grounds
  <1>9. Believed'
    BY <1>1, <1>4 DEF Believed, Managing, Covers
  <1>10. Resting' = Resting /\ Resting = 0
    BY <1>2 DEF Resting, Alone
  <1>11. Rests'
    BY <1>1, <1>10 DEF Rests, Alone
  <1>12. Answered'
    <2>1. pc' = "target" /\ reply' = "ok" => (Covers(bot.dir, bot.qty - Part(bot)))'
      <3>1. Part(bot)' = Part(b)
        BY <1>1 DEF Part, Whole
      <3> QED BY <1>1, <1>5, <3>1 DEF Covers
    <2> QED BY <1>1, <1>6, <2>1 DEF Answered, Reading
  <1>13. Adopted'
    <2>1. AdoptsNaked' => l = "emergency" /\ ret' = "adopt"
      BY <1>1 DEF AdoptsNaked
    <2>2. api'.pc = "uiRead" /\ (Naked' \/ AdoptsNaked') =>
            (xpos'.dir = api'.view.dir => xpos'.qty <= api'.view.qty)
      <3>1. CASE AdoptsNaked'
        <4>1. xpos'.qty = 0
          BY <1>7, <2>1, <3>1
        <4>2. api.view.qty \in Nat
          BY DEF Grounds, Types, RestTypes
        <4> QED BY <4>1, <4>2
      <3>2. CASE Naked'
        <4>1. xpos'.dir = xpos.dir /\ xpos'.qty <= xpos.qty
          BY <1>2, <3>2 DEF Naked, Shrinks
        <4>2. api.view.qty \in Nat
          BY DEF Grounds, Types, RestTypes
        <4> QED BY <1>4, <3>2, <4>1, <4>2 DEF ApiAgrees
      <3> QED BY <3>1, <3>2
    <2>3. AdoptsNaked' => key' = "renewed" \/ asked' > 0
      BY <1>2, <2>1
    <2>4. ClosedByUser' => ~Naked'
      BY <1>4 DEF ClosedByUser, ApiAgrees
    <2> QED BY <1>1, <1>7, <2>1, <2>2, <2>3, <2>4 DEF Adopted
  <1>14. Clothed'
    <2> SUFFICES ASSUME Naked', asked' = 0, key' # "renewed"
                 PROVE  /\ Shut'
                        /\ \/ pc' = "emergency" /\ ret' \in {"open", "manage"}
                           \/ bot'.active /\ pc' \in {"target", "reverse", "stopExit"}
      BY DEF Clothed
    <2>1. Naked /\ ~Dressed
      BY <1>2, <1>4 DEF Dressed
    <2>2. xpos.dir = b.dir /\ xpos'.qty > 0
      BY <2>1 DEF Naked, Covers
    <2>3. \/ b.active /\ Shut /\ (l = "emergency" => ret' = "manage")
          \/ l = "emergency" /\ ret' = "open" /\ streak.write + 1 >= WriteStop
      BY <2>1
    <2>4. key = "denied" /\ Refused
      <3>1. CASE Shut
        BY <1>2, <2>2, <3>1 DEF Shut
      <3>2. CASE l = "emergency"
        BY <1>2, <1>6, <2>2, <3>2
      <3> QED BY <2>3, <3>1, <3>2
    <2>5. Shut'
      BY <1>2, <2>3, <2>4, Settled DEF Refused, Shut
    <2> QED BY <1>1, <2>3, <2>5
  <1>15. Recorded'
    BY <1>1, <1>2 DEF Recorded, Booked, Shrinks
  <1>16. Within'
    <2>1. Exposure = xpos.qty + Resting /\ Exposure' = xpos'.qty + Resting'
      <3>1. orders["long"] \in Nat /\ orders["short"] \in Nat
        BY DEF VenueTypes, Directions
      <3> QED BY <1>2, <3>1 DEF Exposure, Resting
    <2> QED BY <1>2, <1>10, <2>1, Settled DEF Within, Grounds, Shrinks
  <1> QED BY <1>8, <1>9, <1>11, <1>12, <1>13, <1>14, <1>15, <1>16 DEF EntryFacts

\* A stop is requested for a covered position.
LEMMA StopsEntry ==
  ASSUME Limits, Grounds, NEW b \in Memories, Alone(b), Booked(b), Covers(b.dir, b.qty),
         b.dir # "none", b.stop >= 1,
         NEW l \in {"protect", "ladder"}, NEW a \in Answers,
         \/ Dressed
         \/ b.active /\ Shut /\ (l = "protect" => ret' = "manage")
         \/ l = "protect" /\ ret' = "open" /\ b.active /\ streak.write + 4 >= WriteStop + tries',
         l = "protect" /\ ret' = "adopt" =>
            /\ key = "renewed" \/ asked > 0
            /\ ~b.active => xpos.qty = 0
            /\ ClosedByUser => xpos.qty = 0
            /\ api.pc = "uiRead" /\ xpos.dir = api.view.dir => xpos.qty <= api.view.qty,
         SetStop(b.dir, b.stop, a), reply' = a, Waits(l, b)
  PROVE  EntryFacts'
  <1> USE GroundsQuiet
  <1>1. pc' = l /\ bot' = b
    BY DEF Waits
  <1>2. b.dir \in Directions /\ b.stop \in Nat /\ b.qty \in Nat
    BY DEF Memories, Sides
  <1>3. /\ orders' = orders /\ key' = key /\ streak'.auth = streak.auth /\ Shrinks
        /\ xpos'.qty = xpos.qty
        /\ \/ /\ a = "ok" /\ key # "denied" /\ xpos.dir = b.dir /\ streak'.write = 0
              /\ xpos'.sl = b.stop
           \/ a = "fail" /\ key = "denied" /\ xpos' = xpos /\ Refused
           \/ a = "fail" /\ xpos.dir # b.dir /\ xpos' = xpos /\ streak'.write = streak.write
    BY <1>2, QuietStop
  <1>4. Covers(b.dir, b.qty)'
    BY <1>2, <1>3, ShrinksCovered
  <1>5. Naked' => Naked /\ key = "denied" /\ Refused /\ a = "fail" /\ asked = 0 /\ api = NoRequest
    <2> SUFFICES ASSUME Naked'
                 PROVE Naked /\ key = "denied" /\ Refused /\ a = "fail" /\ asked = 0
                       /\ api = NoRequest
      OBVIOUS
    <2>1. Naked
      BY <1>3, ShrinksClothed
    <2>2. xpos.dir = b.dir
      BY <2>1 DEF Naked, Covers
    <2>3. a = "fail" /\ key = "denied" /\ Refused
      BY <1>2, <1>3, <2>2 DEF Naked
    <2> QED BY <2>1, <2>3 DEF Grounds, Apart
  <1>6. Apart'
    <2>1. key = "good" => streak'.write = 0
      BY <1>3 DEF Grounds, Apart
    <2> QED BY <1>1, <1>3, <2>1 DEF Apart, Grounds
  <1>7. Believed'
    BY <1>1, <1>4 DEF Believed, Managing, Covers
  <1>8. Resting' = Resting /\ Resting = 0
    BY <1>3 DEF Resting, Alone
  <1>9. Rests'
    BY <1>1, <1>8 DEF Rests, Alone
  <1>10. Answered'
    BY <1>1 DEF Answered, Reading
  <1>11. Adopted'
    <2>1. NoRequest.pc = "none"
      BY DEF NoRequest
    <2>2. AdoptsNaked' => l = "protect" /\ ret' = "adopt"
      BY <1>1 DEF AdoptsNaked
    <2>3. api'.pc = "uiRead" /\ (Naked' \/ AdoptsNaked') =>
            (xpos'.dir = api'.view.dir => xpos'.qty <= api'.view.qty)
      <3>1. CASE Naked'
        BY <1>5, <2>1, <3>1
      <3>2. CASE AdoptsNaked' /\ ~Naked'
        <4>1. xpos'.qty > 0 => xpos'.dir = xpos.dir
          BY <1>3 DEF Shrinks
        <4>2. api.view.qty \in Nat
          BY DEF Grounds, Types, RestTypes
        <4> QED BY <1>3, <2>2, <3>2, <4>1, <4>2
      <3> QED BY <3>1, <3>2
    <2>4. ClosedByUser' => ~Naked'
      BY <1>5, <2>1 DEF ClosedByUser
    <2>5. ClosedByUser' /\ AdoptsNaked' => xpos'.qty = 0
      BY <1>3, <2>2 DEF ClosedByUser
    <2> QED BY <1>1, <1>3, <2>2, <2>3, <2>4, <2>5 DEF Adopted
  <1>12. Clothed'
    <2> SUFFICES ASSUME Naked', asked' = 0, key' # "renewed"
                 PROVE  \/ /\ pc' = "protect" /\ ret' = "open" /\ reply' = "fail" /\ bot'.active
                           /\ key' = "denied" /\ streak'.write + 3 >= WriteStop + tries'
                        \/ Shut' /\ bot'.active /\ pc' = "ladder"
                        \/ Shut' /\ bot'.active /\ pc' = "protect" /\ ret' = "manage"
                           /\ reply' = "fail"
      BY DEF Clothed
    <2>1. CASE l = "protect" /\ ret' = "open" /\ b.active /\ streak.write + 4 >= WriteStop + tries'
      <3>1. tries' \in {1, 2}
        BY DEF LoopTypes
      <3>2. streak'.write + 3 >= WriteStop + tries'
        BY <1>5, <2>1, <3>1, Settled DEF Refused
      <3> QED BY <1>1, <1>3, <1>5, <2>1, <3>2
    <2>2. CASE b.active /\ Shut /\ (l = "protect" => ret' = "manage")
      <3>1. Shut'
        BY <1>3, <1>5, <2>2, Settled DEF Refused, Shut
      <3> QED BY <1>1, <1>5, <2>2, <3>1
    <2> QED BY <1>3, <1>5, <2>1, <2>2 DEF Dressed
  <1>13. Recorded'
    BY <1>1, <1>3 DEF Recorded, Booked
  <1>14. Within'
    BY <1>3 DEF Within, Exposure, Grounds
  <1> QED BY <1>6, <1>7, <1>9, <1>10, <1>11, <1>12, <1>13, <1>14 DEF EntryFacts

\* An entry is ordered when the bot holds nothing and nothing rests.
LEMMA EntersEntry ==
  ASSUME Limits, NEW b, Fits(b), ~b.active, xpos.qty = 0, see.sig # "none", Enters(see.sig, b)
  PROVE  EntryFacts'
  <1> USE GroundsQuiet DEF Fits
  <1>0. see.sig \in Directions
    BY DEF LoopTypes, Bars
  <1>a. orders["long"] \in Nat /\ orders["short"] \in Nat /\ Resting = 0
        /\ orders'["long"] \in Nat /\ orders'["short"] \in Nat
    BY DEF VenueTypes, Directions, Alone
  <1>1. CASE Ends(b)
    BY <1>1, EndsFit
  <1>2. CASE limitEntry /\ ~Ends(b)
    <2> PICK a \in Answers : LimitEntry(see.sig, a) /\ reply' = a
      BY <1>2 DEF Enters, Answers
    <2>1. pc' = "limit" /\ bot' = b /\ ret' = "none"
      BY <1>2 DEF Enters, Waits
    <2>2. /\ xpos' = xpos /\ key' = key /\ streak'.auth = streak.auth
          /\ \/ a = "ok" /\ key # "denied" /\ streak'.write = 0 /\ Resting' = EntryQty
             \/ a = "fail" /\ key = "denied" /\ Resting' = 0
      BY <1>0, <1>a, QuietLimit
    <2>3. ~Naked' /\ Exposure' = Resting'
      BY <1>a, <2>2 DEF Naked, Exposure, Resting
    <2>4. Apart'
      BY <2>1, <2>2 DEF Apart, Grounds
    <2>5. Believed'
      BY <2>1 DEF Believed, Managing
    <2>6. Rests'
      BY <1>2, <2>1, <2>2 DEF Rests, Alone
    <2>7. Answered'
      BY <2>1 DEF Answered, Reading
    <2>8. Adopted'
      BY <2>1, <2>2, <2>3 DEF Adopted, AdoptsNaked
    <2>9. Clothed'
      BY <2>3 DEF Clothed
    <2>10. Recorded'
      BY <1>2 DEF Recorded
    <2>11. Within'
      BY <2>2, <2>3, Settled DEF Within
    <2> QED BY <2>4, <2>5, <2>6, <2>7, <2>8, <2>9, <2>10, <2>11 DEF EntryFacts
  <1>3. CASE ~limitEntry /\ ~Ends(b)
    <2> PICK a \in Answers : MarketEntry(see.sig, a) /\ reply' = a
      BY <1>3 DEF Enters, Answers
    <2>1. pc' = "market" /\ bot' = b /\ ret' = "none" /\ see' = see
      BY <1>3 DEF Enters, Waits
    <2>2. /\ orders' = orders /\ key' = key /\ streak'.auth = streak.auth
          /\ \/ /\ a = "ok" /\ key # "denied" /\ streak'.write = 0
                /\ xpos' = [dir |-> see.sig, qty |-> EntryQty, sl |-> 0]
             \/ a = "fail" /\ key = "denied" /\ xpos' = xpos
      BY <1>0, QuietMarket
    <2>3. /\ xpos'.qty <= EntryQty
          /\ xpos'.qty > 0 => xpos'.dir = see.sig
          /\ a = "fail" => xpos'.qty = 0
      BY <2>2, Settled
    <2>4. Exposure' = xpos'.qty /\ Resting' = 0
      BY <1>a, <2>2 DEF Exposure, Resting
    <2>5. Apart'
      BY <2>1, <2>2 DEF Apart, Grounds
    <2>6. Believed'
      BY <2>1 DEF Believed, Managing
    <2>7. Rests'
      BY <1>3, <2>1, <2>3, <2>4 DEF Rests, Alone, Covers
    <2>8. Answered'
      BY <2>1 DEF Answered, Reading
    <2>9. Adopted'
      BY <2>1 DEF Adopted, AdoptsNaked
    <2>10. Clothed'
      BY <2>1 DEF Clothed
    <2>11. Recorded'
      BY <2>1 DEF Recorded
    <2>12. Within'
      BY <2>3, <2>4 DEF Within
    <2> QED BY <2>5, <2>6, <2>7, <2>8, <2>9, <2>10, <2>11, <2>12 DEF EntryFacts
  <1> QED BY <1>1, <1>2, <1>3

-----------------------------------------------------------------------------
(* What the loop does next with a memory that fits *)

\* No position after the reads.
LEMMA IdlesEntry ==
  ASSUME Limits, NEW b, Fits(b), ~b.active, xpos.qty = 0, Idles(b)
  PROVE  EntryFacts'
  BY EndsFit, EntersEntry DEF Idles

\* A signal against the position.
LEMMA ReversesEntry ==
  ASSUME Limits, NEW b, Fits(b), Reverses(b)
  PROVE  EntryFacts'
  <1>1. CASE b.active /\ see.sig \notin {"none", b.dir}
    <2>1. Reduces("reverse", b.qty, b)
      BY <1>1 DEF Reverses
    <2> PICK a \in Answers : ReduceOnly(b.dir, b.qty, a) /\ reply' = a
      BY <2>1 DEF Reduces, Answers
    <2>2. b.qty \in Nat /\ Waits("reverse", b)
      BY <2>1 DEF Fits, Memories, Reduces
    <2> QED BY <1>1, <2>2, SalesEntry DEF Fits, Answerable
  <1>2. CASE ~(b.active /\ see.sig \notin {"none", b.dir})
    BY <1>2, EndsFit DEF Reverses
  <1> QED BY <1>1, <1>2

\* The stop of a covered position is registered.
LEMMA ProtectsEntry ==
  ASSUME Limits, NEW b, Fits(b), Covers(b.dir, b.qty), b.dir # "none", b.stop >= 1,
         NEW r \in Callers \ {"adopt"}, r = "manage" \/ Dressed, Protects(r, b)
  PROVE  EntryFacts'
  <1> PICK a \in Answers : SetStop(b.dir, b.stop, a) /\ reply' = a
    BY DEF Protects, Answers
  <1>1. Waits("protect", b) /\ ret' = r
    BY DEF Protects
  <1> QED BY <1>1, StopsEntry DEF Fits, Answerable

\* Setting the stop of a covered position keeps the entry facts.
LEMMA GuardsEntry ==
  ASSUME Limits, NEW b, Fits(b), Covers(b.dir, b.qty), b.dir # "none", b.stop >= 1, Guards(b)
  PROVE  EntryFacts'
  <1>1. CASE ~b.synced
    BY <1>1, ProtectsEntry DEF Guards, Callers
  <1>2. CASE b.synced
    BY <1>2, ReversesEntry DEF Guards
  <1> QED BY <1>1, <1>2

\* The ladder.
LEMMA TrailsEntry ==
  ASSUME Limits, NEW b, Fits(b), Covers(b.dir, b.qty), b.dir # "none", b.stop >= 1, Trails(b)
  PROVE  EntryFacts'
  <1> DEFINE hits == Cardinality(b.filled)
             c == [b EXCEPT !.stop = hits]
  <1>1. hits \in Nat /\ b \in Memories
    BY Hits DEF Memories, Fits
  <1>2. CASE hits >= TrailFrom /\ hits >= 2 /\ hits > b.stop
    <2>1. PICK a \in Answers : SetStop(b.dir, hits, a) /\ reply' = a
      BY <1>2 DEF Trails, Answers
    <2>2. Waits("ladder", c)
      BY <1>2 DEF Trails
    <2>3. /\ c \in Memories /\ c.dir = b.dir /\ c.stop = hits /\ c.qty = b.qty
          /\ c.active = b.active /\ c.pend = b.pend
      BY <1>1 DEF Memories
    <2>4. hits >= 1
      BY <1>1, <1>2
    <2> HIDE DEF c, hits
    <2>5. Alone(c) /\ Booked(c) /\ Covers(c.dir, c.qty) /\ Grounds /\ Answerable(c)
      BY <2>3 DEF Fits, Alone, Booked, Answerable
    <2> QED BY <2>1, <2>2, <2>3, <2>4, <2>5, StopsEntry DEF Answerable
  <1>3. CASE ~(hits >= TrailFrom /\ hits >= 2 /\ hits > b.stop)
    BY <1>3, GuardsEntry DEF Trails
  <1> QED BY <1>2, <1>3

\* The targets: a memory that holds no more lots needs no record.
LEMMA SellsEntry ==
  ASSUME Limits, Grounds, NEW b \in Memories, Alone(b), Answerable(b), ApiAgrees,
         Covers(b.dir, b.qty),
         ~limitEntry => (xpos.qty > 0 => booked') /\ (b.active /\ b.qty > 0 => booked'),
         b.dir # "none", b.stop >= 1, NEW g, Sells(b, g)
  PROVE  EntryFacts'
  <1> DEFINE c == [b EXCEPT !.filled = @ \cup Due(b, g)]
  <1>0. b.qty \in Nat /\ Part(b) \in Nat /\ Part(b) <= b.qty
    BY PartBound DEF Memories
  <1>1. CASE Due(b, g) # {} /\ Part(b) > 0
    <2>1. PICK a \in Answers : ReduceOnly(b.dir, Part(b), a) /\ reply' = a
      BY <1>1 DEF Sells, Answers
    <2>2. Waits("target", b)
      BY <1>1 DEF Sells
    <2>3. Booked(b)
      BY <1>0, <1>1 DEF Booked
    <2> QED BY <1>0, <2>1, <2>2, <2>3, SalesEntry DEF Answerable
  <1>2. CASE ~(Due(b, g) # {} /\ Part(b) > 0)
    <2>1. Due(b, g) \subseteq Targets
      BY DEF Due
    <2>2. /\ c \in Memories /\ c.dir = b.dir /\ c.stop = b.stop /\ c.active = b.active
          /\ c.qty = b.qty /\ c.pend = b.pend
      BY <2>1 DEF Memories
    <2>3. \/ Ends(Forgets(c))
          \/ c.qty # 0 /\ (Ends(c) \/ Trails(c))
      BY <1>2 DEF Sells
    <2> HIDE DEF c
    <2>4. /\ Forgets(c) \in Memories /\ Forgets(c).active = FALSE /\ Forgets(c).pend = c.pend
      BY <2>2, ForgetsTyped
    <2>5. CASE Ends(Forgets(c))
      <3>1. Booked(Forgets(c)) /\ Forgets(c).pend = "none" /\ Resting = 0
        BY <2>2, <2>4 DEF Alone, Booked
      <3>2. Naked /\ asked = 0 /\ key # "renewed" => Shut
        BY DEF Answerable, Dressed
      <3> QED BY <2>4, <2>5, <3>1, <3>2, EndsEntry
    <2>6. c.qty # 0 => Fits(c)
      BY <1>0, <2>2 DEF Fits, Alone, Booked, Answerable
    <2>7. Covers(c.dir, c.qty)
      BY <2>2
    <2> QED BY <2>2, <2>3, <2>5, <2>6, <2>7, EndsFit, TrailsEntry
  <1> QED BY <1>1, <1>2

\* The position is managed at some price.
LEMMA ManagesEntry ==
  ASSUME Limits, NEW b, Fits(b), b.active, b.dir # "none", b.stop >= 1, Manages(b)
  PROVE  EntryFacts'
  <1> PICK g \in Gains : Sells(b, g)
    BY DEF Manages
  <1>1. Covers(b.dir, b.qty) /\ b \in Memories
    BY DEF Fits
  <1> QED BY <1>1, SellsEntry DEF Fits, Booked

\* After the synchronisation.
LEMMA ContinuesEntry ==
  ASSUME Limits, NEW b, Fits(b), Knows(b), Continues(b)
  PROVE  EntryFacts'
  <1>1. b.pend = "none"
    BY DEF Fits, Alone
  <1>2. CASE b.active
    BY <1>1, <1>2, ManagesEntry DEF Continues, Knows
  <1>3. CASE ~b.active
    BY <1>1, <1>3, ReadsEntry DEF Continues
  <1> QED BY <1>2, <1>3

\* Back from _apply_protective_sl.
LEMMA ReturnsEntry ==
  ASSUME Limits, NEW b, Fits(b), Knows(b), ret = "adopt" /\ ~b.active => xpos.qty = 0, Returns(b)
  PROVE  EntryFacts'
  <1>1. CASE Ends(b)
    BY <1>1, EndsFit
  <1>2. CASE Reverses(b)
    BY <1>2, ReversesEntry
  <1>3. CASE b.active /\ Manages(b)
    BY <1>3, ManagesEntry DEF Knows
  <1>4. CASE ~b.active /\ Reads("adoptRead", b)
    BY <1>4, ReadsEntry
  <1>5. CASE ret = "adopt" /\ ~b.active /\ Idles(b)
    BY <1>5, IdlesEntry
  <1> QED BY <1>1, <1>2, <1>3, <1>4, <1>5 DEF Returns

-----------------------------------------------------------------------------
(* The actions of the loop in quiet states *)

Undisturbed == Types /\ Types' /\ StopInv /\ Quiet /\ Quiet' /\ EntryFacts

\* What holds at a label where the loop waits for an answer.
LEMMA Waiting ==
  ASSUME Limits, Undisturbed, UNCHANGED <<limitEntry, asked, api>>
  PROVE  /\ Grounds
         /\ bot \in Memories /\ Knows(bot) /\ faults = 0
         /\ bot.active => Covers(bot.dir, bot.qty)
         /\ pc # "market" => ApiAgrees
         /\ pc \notin {"market", "protect", "emergency", "off", "recRead"} => Answerable(bot)
         /\ pc = "protect" /\ (reply = "ok" \/ ret \notin {"open", "manage"}) => Dressed
         /\ pc \notin {"idle", "pendRead", "limit"} => Resting = 0
         /\ pc \notin {"idle", "pendRead", "pendGone"} => bot.pend = "none"
         /\ ~limitEntry /\ xpos.qty > 0 /\ pc \notin {"off", "recRead", "market"} => booked
         /\ ~limitEntry /\ bot.active => booked
  <1>1. VenueTypes /\ LoopTypes /\ RestTypes
    BY DEF Undisturbed, Types
  <1>2. Grounds
    BY DEF Grounds, Undisturbed, EntryFacts, Rests
  <1>3. bot \in Memories /\ Knows(bot) /\ faults = 0
    BY <1>1 DEF LoopTypes, Undisturbed, StopInv, Quiet
  <1>4. bot.active => Covers(bot.dir, bot.qty)
    BY DEF Undisturbed, EntryFacts, Believed
  <1>5. pc # "market" => ApiAgrees
    BY DEF Undisturbed, EntryFacts, Adopted, ApiAgrees
  <1>6. asked \in Nat
    BY <1>1 DEF RestTypes
  <1>7. pc \notin {"market", "protect", "emergency", "off", "recRead"} => Answerable(bot)
    BY <1>6 DEF Undisturbed, EntryFacts, Clothed, Answerable, Dressed
  <1>8. pc = "protect" /\ (reply = "ok" \/ ret \notin {"open", "manage"}) => Dressed
    BY <1>6 DEF Undisturbed, EntryFacts, Clothed, Dressed
  <1>9. pc \notin {"idle", "pendRead", "limit"} => Resting = 0
    <2>1. Resting \in Nat
      BY <1>1, RestingTyped
    <2> QED BY <2>1 DEF Undisturbed, EntryFacts, Rests
  <1>10. pc \notin {"idle", "pendRead", "pendGone"} => bot.pend = "none"
    BY DEF Undisturbed, EntryFacts, Rests
  <1>11. /\ ~limitEntry /\ xpos.qty > 0 /\ pc \notin {"off", "recRead", "market"} => booked
         /\ ~limitEntry /\ bot.active => booked
    BY DEF Undisturbed, EntryFacts, Recorded
  <1> QED BY <1>2, <1>3, <1>4, <1>5, <1>7, <1>8, <1>9, <1>10, <1>11

\* The memory still fits where the loop goes on with what it remembers.
LEMMA FitsNow ==
  ASSUME Limits, Undisturbed, UNCHANGED <<limitEntry, asked, api>>,
         pc \notin {"off", "recRead", "market", "limit", "idle", "pendRead"},
         NEW b \in Memories, Answerable(b), b.active => bot.active,
         b.pend = bot.pend \/ b.pend = "none", pc = "pendGone" => b.pend = "none",
         b.active => b.dir = bot.dir /\ b.qty = bot.qty,
         ~limitEntry /\ booked /\ (xpos.qty > 0 \/ b.active) => booked'
  PROVE  Fits(b)
  <1>1. Grounds /\ ApiAgrees /\ Resting = 0
    BY Waiting
  <1>2. Alone(b)
    BY <1>1, Waiting DEF Alone
  <1>3. Booked(b)
    BY Waiting DEF Booked
  <1>4. b.active => Covers(b.dir, b.qty)
    BY Waiting
  <1> QED BY <1>1, <1>2, <1>3, <1>4 DEF Fits

\* No position was read: there is none.
LEMMA NothingThere ==
  ASSUME Undisturbed, pc \in Reading, view = Flat
  PROVE  xpos.qty = 0
  <1>1. Covers(Flat.dir, Flat.qty) /\ xpos.qty \in Nat
    BY HoldingTyped DEF Undisturbed, EntryFacts, Answered, Types, VenueTypes
  <1> QED BY <1>1 DEF Covers, Flat

\* A position that was read is adopted.
LEMMA AdoptsFit ==
  ASSUME Limits, Undisturbed, UNCHANGED <<limitEntry, asked, api>>,
         pc \in {"pendAdopt", "adoptRead"}, reply = "ok", view # Flat,
         ~limitEntry => booked'
  PROVE  LET c == Adopts(bot, view) IN
         /\ Fits(c) /\ Knows(c) /\ c.active /\ c.dir # "none" /\ c.stop >= 1
         /\ Covers(c.dir, c.qty) /\ c.qty \in Nat
         /\ c.synced = (view.sl > 0)
  <1> DEFINE c == Adopts(bot, view)
  <1>1. pc \in Reading /\ Types /\ StopInv
    BY DEF Reading, Undisturbed
  <1>2. /\ c \in Memories /\ Knows(c) /\ c.dir # "none" /\ c.dir = view.dir /\ c.qty = view.qty
        /\ c.pend = bot.pend /\ c.stop = (IF view.sl > 0 THEN view.sl ELSE 1)
        /\ c.synced = (view.sl > 0) /\ c.active = TRUE
    BY <1>1, AdoptsKnown
  <1> HIDE DEF c
  <1>3. Covers(c.dir, c.qty)
    BY <1>1, <1>2 DEF Undisturbed, EntryFacts, Answered
  <1>4. c.stop >= 1
    BY <1>2 DEF Knows
  <1>5. c.qty \in Nat
    BY <1>2 DEF Memories
  <1>6. Grounds /\ ApiAgrees /\ Resting = 0 /\ Answerable(bot) /\ bot.pend = "none"
    BY Waiting
  <1>a. ~bot.active
    BY DEF Undisturbed, EntryFacts, Believed
  <1>7. Fits(c)
    BY <1>2, <1>3, <1>6, <1>a DEF Fits, Alone, Booked, Answerable
  <1> QED BY <1>2, <1>3, <1>4, <1>5, <1>7 DEF c

\* start
LEMMA StartEntry == ASSUME Limits, Undisturbed, Start PROVE EntryFacts'
  <1>0. UNCHANGED <<limitEntry, asked, api>> /\ booked' = booked /\ pc = "off" /\ api = NoRequest
    BY DEF Start
  <1>a. Grounds /\ bot.pend = "none" /\ Resting = 0
        /\ (bot.active => Covers(bot.dir, bot.qty)) /\ (~limitEntry /\ bot.active => booked)
    BY <1>0, Waiting
  <1> USE GroundsQuiet
  <1> PICK a \in Answers, v \in {xpos, Flat} : FetchPosition(a, v) /\ reply' = a /\ view' = v
    BY DEF Start, Reads, Answers
  <1>1. pc' = "recRead" /\ bot' = bot /\ ret' = "none"
    BY DEF Start, Reads, Waits
  <1>2. /\ reply' = "ok" /\ view' = xpos /\ xpos' = xpos /\ orders' = orders /\ key' = key
        /\ streak'.auth = 0 /\ streak'.write = streak.write
    BY <1>a, QuietRead
  <1>3. Resting' = Resting /\ (Naked' <=> Naked) /\ Exposure' = Exposure
    BY <1>2 DEF Resting, Naked, Exposure
  <1>4. Apart'
    BY <1>0, <1>1, <1>2 DEF Apart, Undisturbed, EntryFacts
  <1>5. Believed'
    BY <1>a, <1>1, <1>2 DEF Believed, Managing, Covers
  <1>6. Rests'
    BY <1>a, <1>1, <1>3 DEF Rests
  <1>7. Answered'
    BY <1>a, <1>1, <1>2 DEF Answered, Reading, Covers
  <1>8. Adopted'
    BY <1>0, <1>1 DEF Adopted, AdoptsNaked, ClosedByUser, NoRequest
  <1>9. Clothed'
    BY <1>0, <1>1, <1>2, <1>3 DEF Clothed, Shut, Undisturbed, EntryFacts
  <1>10. Recorded'
    BY <1>a, <1>0, <1>1, <1>2 DEF Recorded
  <1>11. Within'
    BY <1>3 DEF Within, Undisturbed, EntryFacts
  <1> QED BY <1>4, <1>5, <1>6, <1>7, <1>8, <1>9, <1>10, <1>11 DEF EntryFacts

\* Starting keeps the entry facts.
LEMMA StartingEntry == ASSUME Limits, Undisturbed, Starting PROVE EntryFacts'
  <1>0. UNCHANGED <<limitEntry, asked, api>>
    BY DEF Starting, StartAdopts, StartSweeps, Started, Keeps, Books
  <1>a. /\ Grounds /\ bot \in Memories /\ (bot.active => Covers(bot.dir, bot.qty))
        /\ (pc # "market" => ApiAgrees)
        /\ (pc \notin {"idle", "pendRead", "limit"} => Resting = 0)
        /\ (pc \notin {"idle", "pendRead", "pendGone"} => bot.pend = "none")
        /\ (~limitEntry /\ bot.active => booked)
    BY <1>0, Waiting
  <1>1. CASE StartAdopts
    <2> DEFINE c == Adopts(bot, view)
    <2>1. Begins(c) /\ booked' = TRUE /\ pc = "recRead" /\ reply = "ok" /\ view # Flat
      BY <1>1 DEF StartAdopts, Books
    <2>2. pc \in Reading /\ Types /\ StopInv
      BY <2>1 DEF Reading, Undisturbed
    <2>3. c \in Memories /\ c.dir = view.dir /\ c.qty = view.qty /\ c.pend = bot.pend
          /\ c.active
      BY <2>1, <2>2, AdoptsKnown
    <2> HIDE DEF c
    <2>4. Covers(c.dir, c.qty)
      BY <2>2, <2>3 DEF Undisturbed, EntryFacts, Answered
    <2>5. Booked(c) /\ c.pend = "none" /\ Resting = 0 /\ ApiAgrees
      BY <1>a, <2>1, <2>3 DEF Booked
    <2>6. Naked /\ asked = 0 /\ key # "renewed" => Shut
      BY <2>1 DEF Undisturbed, EntryFacts, Clothed
    <2> QED BY <1>a, <2>1, <2>3, <2>4, <2>5, <2>6, BeginsEntry
  <1>2. CASE StartSweeps
    <2>1. pc = "recRead" /\ booked' = booked
      BY <1>2 DEF StartSweeps, Keeps
    <2>2. reply = "ok" /\ view = Flat
      BY <1>2, <2>1 DEF StartSweeps, Undisturbed, EntryFacts, Answered, Reading
    <2>3. xpos.qty = 0
      BY <2>1, <2>2, NothingThere DEF Reading
    <2>4. Booked(bot) /\ ~Naked /\ bot.pend = "none" /\ Resting = 0 /\ ApiAgrees
      BY <1>a, <2>1, <2>3 DEF Booked, Naked
    <2>5. CASE Begins(bot)
      BY <1>a, <2>4, <2>5, BeginsEntry
    <2>6. CASE ~bot.active /\ Cancels("sweep", bot)
      <3>1. Dressed
        BY <2>4 DEF Dressed
      <3> QED BY <1>a, <2>4, <2>6, <3>1, CancelsEntry
    <2> QED BY <1>2, <2>5, <2>6 DEF StartSweeps
  <1>3. CASE Started
    <2>1. pc = "sweep" /\ booked' = booked /\ Begins(bot) /\ ~bot.active
      BY <1>3 DEF Started, Keeps, Undisturbed, EntryFacts, Believed
    <2>2. Answerable(bot)
      BY <1>0, <2>1, Waiting
    <2>3. Fits(bot)
      BY <1>0, <1>a, <2>1, <2>2, FitsNow
    <2>4. Booked(bot) /\ bot.pend = "none" /\ Resting = 0 /\ ApiAgrees
      BY <1>a, <2>1, <2>3 DEF Fits
    <2>5. ~(Naked /\ asked = 0 /\ key # "renewed")
      BY <2>1, <2>2 DEF Answerable, Dressed
    <2> QED BY <1>a, <2>1, <2>4, <2>5, BeginsEntry
  <1> QED BY <1>1, <1>2, <1>3 DEF Starting

\* A step begins with a read.
LEMMA BeginEntry == ASSUME Limits, Undisturbed, StepBegin PROVE EntryFacts'
  <1>0. UNCHANGED <<limitEntry, asked, api>> /\ booked' = booked /\ pc = "idle"
    BY DEF StepBegin
  <1>a. Grounds /\ ApiAgrees /\ Answerable(bot)
        /\ (bot.active => Covers(bot.dir, bot.qty)) /\ (~limitEntry /\ bot.active => booked)
        /\ (~limitEntry /\ xpos.qty > 0 => booked)
    BY <1>0, Waiting
  <1> USE GroundsQuiet
  <1> PICK a \in Answers, v \in {xpos, Flat} : FetchPosition(a, v) /\ reply' = a /\ view' = v
    BY DEF StepBegin, Answers
  <1>1. bot' = bot /\ ret' = ret
        /\ pc' = (IF bot.active THEN "sync" ELSE IF bot.pend # "none" THEN "pendRead"
                  ELSE "adoptRead")
    BY DEF StepBegin, Waits
  <1>2. /\ reply' = "ok" /\ view' = xpos /\ xpos' = xpos /\ orders' = orders /\ key' = key
        /\ streak'.auth = 0 /\ streak'.write = streak.write
    BY <1>a, QuietRead
  <1>3. Resting' = Resting /\ (Naked' <=> Naked) /\ Exposure' = Exposure
    BY <1>2 DEF Resting, Naked, Exposure
  <1>4. Apart'
    BY <1>0, <1>1, <1>2 DEF Apart, Undisturbed, EntryFacts
  <1>5. Believed'
    BY <1>a, <1>1, <1>2 DEF Believed, Managing, Covers
  <1>6. Rests'
    <2>1. bot.pend # "none" => pc' = "pendRead" /\ streak.write = 0 /\ ~bot.active
      BY <1>1 DEF Undisturbed, EntryFacts, Rests
    <2>2. Resting > 0 => bot.pend # "none"
      BY <1>0 DEF Undisturbed, EntryFacts, Rests
    <2>3. pc' \in {"sync", "pendRead", "adoptRead"}
      BY <1>1
    <2>4. ~limitEntry => Resting = 0 /\ bot.pend = "none"
      BY DEF Undisturbed, EntryFacts, Rests
    <2> QED BY <1>0, <1>1, <1>2, <1>3, <2>1, <2>2, <2>3, <2>4 DEF Rests
  <1>7. Answered'
    <2>1. bot.active => Covers(bot.dir, bot.qty)
      BY <1>a
    <2>2. pc' \in {"sync", "pendRead", "adoptRead"}
      BY <1>1
    <2> QED BY <1>a, <1>1, <1>2, <2>1, <2>2 DEF Answered, Reading, Covers
  <1>8. Adopted'
    <2>1. pc' \in {"sync", "pendRead", "adoptRead"}
      BY <1>1
    <2>2. AdoptsNaked' => Naked
      BY <1>2, <2>1 DEF AdoptsNaked, Naked
    <2>3. AdoptsNaked' => ~bot.active
      BY <1>1 DEF AdoptsNaked
    <2> QED BY <1>a, <1>2, <1>3, <2>1, <2>2, <2>3
            DEF Adopted, ApiAgrees, ClosedByUser, Answerable, Dressed
  <1>9. Clothed'
    BY <1>a, <1>1, <1>2, <1>3 DEF Clothed, Answerable, Dressed, Shut
  <1>10. Recorded'
    BY <1>a, <1>0, <1>1, <1>2 DEF Recorded
  <1>11. Within'
    BY <1>3 DEF Within, Undisturbed, EntryFacts
  <1> QED BY <1>4, <1>5, <1>6, <1>7, <1>8, <1>9, <1>10, <1>11 DEF EntryFacts

\* _sync_position_state
LEMMA SyncEntry == ASSUME Limits, Undisturbed, Sync PROVE EntryFacts'
  <1>0. UNCHANGED <<limitEntry, asked, api>> /\ pc = "sync" /\ reply = "ok"
    <2>1. pc \in {"sync", "syncClose"}
      BY DEF Sync, SyncUnknown, SyncAgrees, SyncGone, SyncMismatch, SyncClosed
    <2>2. pc = "sync" /\ reply = "ok"
      BY <2>1 DEF Undisturbed, EntryFacts, Believed, Answered
    <2> QED BY <2>2 DEF Sync, SyncUnknown, SyncAgrees, SyncGone, SyncMismatch, SyncClosed,
                        Keeps, Books
  <1>a. bot \in Memories /\ Knows(bot) /\ Answerable(bot)
    BY <1>0, Waiting
  <1>b. booked' = booked => Fits(bot)
    BY <1>0, <1>a, FitsNow
  <1>1. CASE SyncAgrees
    BY <1>a, <1>b, <1>1, ContinuesEntry DEF SyncAgrees, Keeps
  <1>2. CASE SyncGone
    <2>1. CASE bot.active /\ Continues(Forgets(bot)) /\ Books(FALSE)
      <3>1. xpos.qty = 0
        <4>1. Covers(view.dir, view.qty) /\ view = Flat
          BY <1>0, <1>2, <2>1 DEF SyncGone, Undisturbed, EntryFacts, Answered
        <4>2. xpos.qty \in Nat
          BY HoldingTyped DEF Undisturbed, Types, VenueTypes
        <4> QED BY <4>1, <4>2 DEF Covers, Flat
      <3>2. /\ Forgets(bot) \in Memories /\ Forgets(bot).active = FALSE
            /\ Forgets(bot).pend = bot.pend /\ Knows(Forgets(bot))
        BY <1>a, ForgetsTyped
      <3>3. Answerable(Forgets(bot))
        BY <3>1 DEF Answerable, Dressed, Naked
      <3>4. Fits(Forgets(bot))
        BY <1>0, <1>a, <3>1, <3>2, <3>3, FitsNow
      <3> QED BY <2>1, <3>2, <3>4, ContinuesEntry
    <2>2. CASE Ends(bot) /\ Keeps
      BY <1>b, <2>2, EndsFit DEF Keeps
    <2> QED BY <1>2, <2>1, <2>2 DEF SyncGone
  <1>3. ~SyncMismatch
    <2> SUFFICES ASSUME SyncMismatch PROVE FALSE
      OBVIOUS
    <2>1. bot.active /\ view # Flat /\ view.dir # bot.dir
      BY DEF SyncMismatch
    <2>2. view.qty > 0
      BY <2>1, HoldingTyped DEF Undisturbed, Types, LoopTypes
    <2> QED BY <1>0, <2>1, <2>2 DEF Undisturbed, EntryFacts, Answered
  <1> QED BY <1>0, <1>1, <1>2, <1>3 DEF Sync, SyncUnknown, SyncClosed

\* _handle_pending_limit
LEMMA PendingEntry == ASSUME Limits, Undisturbed, Pending PROVE EntryFacts'
  <1>0. /\ UNCHANGED <<limitEntry, asked, api>>
        /\ pc \in {"pendRead", "pendCancel", "pendAdopt", "pendGone"}
    BY DEF Pending, PendingUnknown, PendingFilled, PendingSwept, PendingEnters, PendingWaits,
           PendingExpires, PendingGone, Keeps, Books
  <1>b. ~bot.active
    BY <1>0 DEF Undisturbed, EntryFacts, Believed
  <1>e. Answerable(bot)
    BY <1>0, Waiting
  <1>a. /\ bot \in Memories /\ Knows(bot) /\ Dressed /\ Grounds /\ ApiAgrees
        /\ (pc \notin {"idle", "pendRead", "limit"} => Resting = 0)
        /\ (pc \notin {"idle", "pendRead", "pendGone"} => bot.pend = "none")
        /\ (~limitEntry /\ xpos.qty > 0 => booked)
    BY <1>0, <1>b, <1>e, Waiting DEF Answerable
  <1>f. \A b : Answerable(b)
    BY <1>a DEF Answerable
  <1>c. /\ bot.pend # "none" => streak.write = 0 /\ limitEntry
        /\ Resting > 0 => bot.pend # "none"
    <2>1. Resting > 0 => bot.pend # "none"
      BY <1>0 DEF Undisturbed, EntryFacts, Rests
    <2> QED BY <2>1 DEF Undisturbed, EntryFacts, Rests
  <1>d. booked' = booked => Booked(bot)
    BY <1>a, <1>b DEF Booked
  <1>1. CASE PendingUnknown
    BY <1>1 DEF PendingUnknown, Undisturbed, EntryFacts, Answered
  <1>2. CASE PendingFilled
    <2> DEFINE c == [bot EXCEPT !.pend = "none"]
    <2>1. Cancels("pendCancel", c) /\ booked' = booked
      BY <1>2 DEF PendingFilled, Keeps
    <2>2. c \in Memories /\ c.active = bot.active /\ c.pend = "none"
      BY <1>a, PendTyped DEF Sides
    <2> HIDE DEF c
    <2>3. Booked(c)
      BY <1>b, <1>d, <2>1, <2>2 DEF Booked
    <2> QED BY <1>a, <1>b, <2>1, <2>2, <2>3, CancelsEntry
  <1>3. CASE PendingSwept
    <2>1. pc = "pendCancel" /\ Reads("pendAdopt", bot) /\ booked' = booked
      BY <1>3 DEF PendingSwept, Keeps
    <2>2. Fits(bot)
      BY <1>0, <1>a, <1>f, <2>1, FitsNow
    <2> QED BY <1>b, <2>1, <2>2, ReadsEntry
  <1>4. CASE PendingEnters
    <2>1. CASE reply = "ok" /\ view # Flat /\ Protects("pend", Adopts(bot, view)) /\ Books(TRUE)
      <3>1. pc = "pendAdopt" /\ booked' = TRUE
        BY <1>4, <2>1 DEF PendingEnters, Books
      <3> DEFINE c == Adopts(bot, view)
      <3>2. Fits(c) /\ c.dir # "none" /\ c.stop >= 1 /\ Covers(c.dir, c.qty)
        BY <1>0, <2>1, <3>1, AdoptsFit
      <3> HIDE DEF c
      <3>3. Protects("pend", c)
        BY <2>1 DEF c
      <3> QED BY <1>a, <3>2, <3>3, ProtectsEntry DEF Callers
    <2>2. CASE Reads("adoptRead", bot) /\ Keeps
      <3>1. pc = "pendAdopt" /\ booked' = booked
        BY <1>4, <2>2 DEF PendingEnters, Keeps
      <3>2. Fits(bot)
        BY <1>0, <1>a, <1>f, <3>1, FitsNow
      <3> QED BY <1>b, <2>2, <3>2, ReadsEntry
    <2> QED BY <1>b, <1>4, <2>1, <2>2 DEF PendingEnters
  <1>5. CASE PendingWaits
    <2>1. Ends(bot) /\ booked' = booked
      BY <1>b, <1>5 DEF PendingWaits, Keeps
    <2>2. Naked /\ asked = 0 /\ key # "renewed" => FALSE
      BY <1>a DEF Dressed
    <2> QED BY <1>a, <1>b, <1>c, <1>d, <2>1, <2>2, EndsEntry
  <1>6. CASE PendingExpires
    <2>1. Cancels("pendGone", bot) /\ booked' = booked
      BY <1>6 DEF PendingExpires, Keeps
    <2> QED BY <1>a, <1>b, <1>c, <1>d, <2>1, CancelsEntry
  <1>7. CASE PendingGone
    <2> DEFINE c == [bot EXCEPT !.pend = "none"]
    <2>1. c \in Memories /\ c.active = bot.active /\ c.pend = "none"
      BY <1>a, PendTyped DEF Sides
    <2>2. Reads("adoptRead", c) /\ booked' = booked /\ pc = "pendGone"
      BY <1>b, <1>7, <2>1 DEF PendingGone, Keeps
    <2> HIDE DEF c
    <2>3. Fits(c)
      BY <1>0, <1>a, <1>b, <1>f, <2>1, <2>2, FitsNow
    <2> QED BY <1>b, <2>1, <2>2, <2>3, ReadsEntry
  <1> QED BY <1>1, <1>2, <1>3, <1>4, <1>5, <1>6, <1>7 DEF Pending

\* A position the bot does not know of.
LEMMA AdoptionEntry == ASSUME Limits, Undisturbed, Adoption PROVE EntryFacts'
  <1>0. UNCHANGED <<limitEntry, asked, api>> /\ pc \in {"adoptRead", "stopExit"}
    BY DEF Adoption, Adopt, AdoptNothing, StopExited, Keeps, Books
  <1>a. /\ bot \in Memories /\ Knows(bot) /\ Answerable(bot) /\ Grounds /\ ApiAgrees
        /\ (~limitEntry /\ xpos.qty > 0 => booked)
    BY <1>0, Waiting
  <1>b. booked' = booked => Fits(bot)
    BY <1>0, <1>a, FitsNow
  <1>1. CASE Adopt
    <2> DEFINE c == Adopts(bot, view)
    <2>1. pc = "adoptRead" /\ reply = "ok" /\ view # Flat /\ booked' = booked
      BY <1>1 DEF Adopt, Keeps
    <2>2. view.qty > 0
      BY <2>1, HoldingTyped DEF Undisturbed, Types, LoopTypes
    <2>3. ~limitEntry => booked'
      BY <2>1, <2>2 DEF Undisturbed, EntryFacts, Recorded
    <2>4. /\ Fits(c) /\ Knows(c) /\ c.active /\ c.dir # "none" /\ c.stop >= 1
          /\ Covers(c.dir, c.qty) /\ c.qty \in Nat
          /\ c.synced = (view.sl > 0)
      BY <1>0, <2>1, <2>3, AdoptsFit
    <2>5. \/ Manages(c)
          \/ ~c.synced /\ Closes("stopExit", c)
          \/ ~c.synced /\ Protects("adopt", c)
      BY <1>1 DEF Adopt
    <2> HIDE DEF c
    <2>6. CASE Manages(c)
      BY <2>4, <2>6, ManagesEntry
    <2>7. CASE Closes("stopExit", c)
      <3> PICK a \in Answers : ReduceOnly(c.dir, c.qty, a) /\ reply' = a
        BY <2>7 DEF Closes, Reduces, Answers
      <3>1. Waits("stopExit", c)
        BY <2>7 DEF Closes, Reduces
      <3> QED BY <2>4, <3>1, SalesEntry DEF Fits, Answerable
    <2>8. CASE ~c.synced /\ Protects("adopt", c)
      <3> PICK a \in Answers : SetStop(c.dir, c.stop, a) /\ reply' = a
        BY <2>8 DEF Protects, Answers
      <3>1. Waits("protect", c) /\ ret' = "adopt"
        BY <2>8 DEF Protects
      <3>2. AdoptsNaked
        <4>1. view.sl \in Nat
          BY HoldingTyped DEF Undisturbed, Types, LoopTypes
        <4>2. view.sl = 0
          <5>1. CASE view.sl > 0
            <6>1. c.synced = TRUE
              BY <2>4, <5>1
            <6> QED BY <2>8, <6>1
          <5> QED BY <4>1, <5>1
        <4> QED BY <2>1, <2>2, <4>2 DEF AdoptsNaked
      <3>3. /\ key = "renewed" \/ asked > 0
            /\ ClosedByUser => xpos.qty = 0
            /\ api.pc = "uiRead" /\ xpos.dir = api.view.dir => xpos.qty <= api.view.qty
        BY <3>2 DEF Undisturbed, EntryFacts, Adopted
      <3>4. Dressed
        BY <3>3 DEF Dressed
      <3> QED BY <2>4, <3>1, <3>3, <3>4, StopsEntry DEF Fits
    <2> QED BY <2>5, <2>6, <2>7, <2>8
  <1>2. CASE AdoptNothing
    <2>1. pc = "adoptRead" /\ booked' = booked /\ Idles(bot)
      BY <1>2 DEF AdoptNothing, Keeps
    <2>2. view = Flat
      BY <1>2, <2>1 DEF AdoptNothing, Undisturbed, EntryFacts, Answered, Reading
    <2>3. xpos.qty = 0
      BY <2>1, <2>2, NothingThere DEF Reading
    <2>4. ~bot.active
      BY <2>1 DEF Undisturbed, EntryFacts, Believed
    <2> QED BY <1>b, <2>1, <2>3, <2>4, IdlesEntry
  <1>3. CASE StopExited
    <2>1. pc = "stopExit"
      BY <1>3 DEF StopExited
    <2>2. CASE reply = "ok" /\ Ends(Forgets(bot)) /\ Books(FALSE)
      <3>1. xpos.qty = 0
        BY <2>1, <2>2 DEF Undisturbed, EntryFacts, Answered
      <3>2. /\ Forgets(bot) \in Memories /\ Forgets(bot).active = FALSE
            /\ Forgets(bot).pend = bot.pend
        BY <1>a, ForgetsTyped
      <3>3. Answerable(Forgets(bot))
        BY <3>1 DEF Answerable, Dressed, Naked
      <3>4. Fits(Forgets(bot))
        BY <1>0, <1>a, <2>1, <3>1, <3>2, <3>3, FitsNow
      <3> QED BY <2>2, <3>4, EndsFit
    <2>3. CASE Ends(bot) /\ Keeps
      BY <1>b, <2>3, EndsFit DEF Keeps
    <2> QED BY <1>3, <2>2, <2>3 DEF StopExited
  <1> QED BY <1>1, <1>2, <1>3 DEF Adoption

\* _apply_protective_sl
LEMMA ProtectionEntry == ASSUME Limits, Undisturbed, Protection PROVE EntryFacts'
  <1>0. UNCHANGED <<limitEntry, asked, api>> /\ pc \in {"protect", "emergency"}
    BY DEF Protection, Protected, ProtectRetries, ProtectGivesUp, EmergencyClosed, Keeps, Books
  <1>a. /\ bot \in Memories /\ Knows(bot) /\ Grounds /\ ApiAgrees
        /\ bot.pend = "none" /\ Resting = 0
        /\ (~limitEntry /\ xpos.qty > 0 => booked) /\ (~limitEntry /\ bot.active => booked)
        /\ asked \in Nat
    BY <1>0, Waiting, GroundsQuiet
  <1>b. Covers(bot.dir, bot.qty) /\ bot.dir # "none" /\ bot.stop >= 1
    BY <1>0, <1>a DEF Undisturbed, EntryFacts, Believed, Managing, StopInv, Knows
  <1>c. booked' = booked => Booked(bot)
    BY <1>a DEF Booked
  <1>d. booked' = booked /\ Dressed => Fits(bot)
    BY <1>0, <1>a, FitsNow DEF Answerable
  <1>e. \/ Dressed
        \/ /\ pc = "protect" /\ ret = "open" /\ reply = "fail" /\ bot.active
           /\ streak.write + 3 >= WriteStop + tries
        \/ pc = "emergency" /\ ret \in {"open", "manage"} /\ Shut
        \/ pc = "protect" /\ ret = "manage" /\ reply = "fail" /\ bot.active /\ Shut
    BY <1>0, <1>a DEF Dressed, Undisturbed, EntryFacts, Clothed
  <1>f. ret = "adopt" =>
           /\ key = "renewed" \/ asked > 0
           /\ ~bot.active => xpos.qty = 0
           /\ ClosedByUser => xpos.qty = 0
           /\ api.pc = "uiRead" /\ xpos.dir = api.view.dir => xpos.qty <= api.view.qty
    BY <1>0 DEF Undisturbed, EntryFacts, Adopted, AdoptsNaked
  <1>1. CASE Protected
    <2> DEFINE c == [bot EXCEPT !.synced = TRUE]
    <2>1. pc = "protect" /\ reply = "ok" /\ Returns(c) /\ booked' = booked
      BY <1>1 DEF Protected, Keeps
    <2>2. Dressed
      BY <1>e, <2>1
    <2>3. c \in Memories /\ c.active = bot.active /\ c.dir = bot.dir /\ c.qty = bot.qty
          /\ c.pend = bot.pend /\ Knows(c)
      BY <1>a, SyncedTyped
    <2> HIDE DEF c
    <2>4. Fits(c)
      BY <1>0, <2>1, <2>2, <2>3, FitsNow DEF Answerable
    <2> QED BY <1>f, <2>1, <2>3, <2>4, ReturnsEntry
  <1>2. CASE ProtectRetries
    <2> PICK a \in Answers : SetStop(bot.dir, bot.stop, a) /\ reply' = a
      BY <1>2 DEF ProtectRetries, Answers
    <2>1. /\ pc = "protect" /\ tries = 1 /\ Waits("protect", bot) /\ ret' = ret /\ tries' = 2
          /\ booked' = booked
      BY <1>2 DEF ProtectRetries, Waits, Keeps
    <2>2. \/ Dressed
          \/ bot.active /\ Shut /\ ret' = "manage"
          \/ ret' = "open" /\ bot.active /\ streak.write + 4 >= WriteStop + tries'
      <3>1. streak.write \in Nat
        BY <1>a, GroundsQuiet
      <3> QED BY <1>e, <2>1, <3>1, Settled
    <2> QED BY <1>a, <1>b, <1>c, <1>f, <2>1, <2>2, StopsEntry DEF Alone
  <1>3. CASE ProtectGivesUp
    <2>1. pc = "protect" /\ reply = "fail" /\ tries = 2 /\ booked' = booked
      BY <1>3 DEF ProtectGivesUp, Keeps
    <2>2. CASE bot.active /\ Closes("emergency", bot)
      <3> PICK a \in Answers : ReduceOnly(bot.dir, bot.qty, a) /\ reply' = a
        BY <2>2 DEF Closes, Reduces, Answers
      <3>1. Waits("emergency", bot) /\ ret' = ret /\ bot.qty \in Nat
        BY <1>a, <2>2 DEF Closes, Reduces, Memories
      <3>2. \/ Dressed
            \/ bot.active /\ Shut /\ ret' = "manage"
            \/ ret' = "open" /\ streak.write + 1 >= WriteStop
        <4>1. streak.write \in Nat
          BY <1>a, GroundsQuiet
        <4> QED BY <1>e, <2>1, <3>1, <4>1, Settled
      <3> QED BY <1>a, <1>b, <1>c, <1>f, <2>1, <3>1, <3>2, SalesEntry DEF Alone
    <2>3. CASE ~bot.active /\ Returns(bot)
      BY <1>a, <1>d, <1>e, <1>f, <2>1, <2>3, ReturnsEntry
    <2> QED BY <1>3, <2>2, <2>3 DEF ProtectGivesUp
  <1>4. CASE EmergencyClosed
    <2> DEFINE c == Forgets(bot)
    <2>1. pc = "emergency" /\ Returns(c) /\ booked' = (booked /\ reply = "fail")
      BY <1>4 DEF EmergencyClosed, Books
    <2>2. c \in Memories /\ c.active = FALSE /\ c.pend = bot.pend /\ Knows(c)
      BY <1>a, ForgetsTyped
    <2> HIDE DEF c
    <2>3. /\ reply = "ok" => xpos.qty = 0
          /\ ret = "adopt" => xpos.qty = 0
          /\ reply \in Answers
      BY <2>1 DEF Undisturbed, EntryFacts, Answered, Adopted, Types, LoopTypes
    <2>4. ~limitEntry /\ booked /\ xpos.qty > 0 => booked'
      <3> SUFFICES ASSUME booked, xpos.qty > 0 PROVE booked'
        OBVIOUS
      <3>1. xpos.qty # 0
        BY <1>a, GroundsQuiet
      <3>2. reply = "fail"
        BY <2>3, <3>1 DEF Answers
      <3> QED BY <2>1, <3>2, Zenon
    <2>5. CASE Dressed
      <3>1. Fits(c)
        BY <1>0, <2>1, <2>2, <2>4, <2>5, FitsNow DEF Answerable
      <3> QED BY <2>1, <2>2, <2>3, <3>1, ReturnsEntry
    <2>6. CASE ~Dressed
      <3>1. ret \in {"open", "manage"} /\ Shut
        BY <1>e, <2>1, <2>6
      <3>2. Ends(c)
        BY <2>1, <2>2, <3>1 DEF Returns
      <3>3. Booked(c)
        BY <1>a, <2>2, <2>4 DEF Booked
      <3> QED BY <1>a, <2>2, <3>1, <3>2, <3>3, EndsEntry
    <2> QED BY <2>5, <2>6
  <1> QED BY <1>1, <1>2, <1>3, <1>4 DEF Protection
\* Targets.
LEMMA TargetEntry == ASSUME Limits, Undisturbed, TargetDone PROVE EntryFacts'
  <1>0. UNCHANGED <<limitEntry, asked, api>> /\ pc = "target"
    BY DEF TargetDone, Keeps, Books
  <1>a. /\ bot \in Memories /\ Knows(bot) /\ Answerable(bot) /\ Grounds /\ ApiAgrees
        /\ Resting = 0 /\ bot.pend = "none"
        /\ (~limitEntry /\ xpos.qty > 0 => booked) /\ (~limitEntry /\ bot.active => booked)
    BY <1>0, Waiting
  <1>b. /\ Covers(bot.dir, bot.qty)
        /\ reply = "ok" => Covers(bot.dir, bot.qty - Part(bot))
        /\ reply \in Answers /\ Types /\ StopInv
    BY <1>0 DEF Undisturbed, EntryFacts, Believed, Managing, Answered, Types, LoopTypes
  <1>c. bot.dir # "none" /\ bot.stop >= 1
    BY <1>0, <1>b DEF StopInv, Managing, Knows
  <1>d. xpos.qty \in Nat
    BY <1>a, GroundsQuiet
  <1> DEFINE k == NextDue(bot)
             sold == [bot EXCEPT !.qty = @ - Part(bot),
                                 !.filled = IF Whole(bot) THEN Targets ELSE @ \cup {k}]
             kept == [bot EXCEPT !.filled = @ \cup {k}]
  <1>1. /\ sold \in Memories /\ sold.dir = bot.dir /\ sold.qty = bot.qty - Part(bot)
        /\ sold.active = bot.active /\ sold.pend = bot.pend /\ sold.stop = bot.stop
        /\ kept \in Memories /\ kept.dir = bot.dir /\ kept.qty = bot.qty
        /\ kept.active = bot.active /\ kept.pend = bot.pend /\ kept.stop = bot.stop
    BY <1>0, <1>b, TargetMemories
  <1>2. \/ reply = "ok" /\ Sells(sold, see.gain) /\ Books(booked /\ sold.qty > 0)
        \/ Sells(kept, see.gain) /\ Keeps
    BY DEF TargetDone
  <1> HIDE DEF k, sold, kept
  <1>3. CASE reply = "ok" /\ Sells(sold, see.gain) /\ Books(booked /\ sold.qty > 0)
    <2>1. booked' = (booked /\ sold.qty > 0)
      BY <1>3 DEF Books
    <2>2. Covers(sold.dir, sold.qty)
      BY <1>1, <1>3, <1>b
    <2>3. ~limitEntry => (xpos.qty > 0 => booked')
      <3> SUFFICES ASSUME ~limitEntry, xpos.qty > 0 PROVE booked'
        OBVIOUS
      <3>1. booked
        BY <1>a
      <3>2. sold.qty > 0
        <4>1. sold.qty \in Nat /\ xpos.qty <= sold.qty
          BY <1>1, <2>2 DEF Covers, Memories
        <4> QED BY <1>d, <4>1
      <3> QED BY <2>1, <3>1, <3>2, Zenon
    <2>4. ~limitEntry => (sold.active /\ sold.qty > 0 => booked')
      <3> SUFFICES ASSUME ~limitEntry, sold.active, sold.qty > 0 PROVE booked'
        OBVIOUS
      <3>1. booked
        BY <1>1, <1>a
      <3> QED BY <2>1, <3>1, Zenon
    <2>5. Alone(sold)
      BY <1>1, <1>a DEF Alone
    <2> QED BY <1>1, <1>3, <1>a, <1>c, <2>2, <2>3, <2>4, <2>5, SellsEntry DEF Answerable
  <1>4. CASE Sells(kept, see.gain) /\ Keeps
    <2>1. booked' = booked
      BY <1>4 DEF Keeps
    <2>2. Alone(kept) /\ Covers(kept.dir, kept.qty)
      BY <1>1, <1>a, <1>b DEF Alone
    <2> QED BY <1>1, <1>4, <1>a, <1>c, <2>1, <2>2, SellsEntry DEF Answerable
  <1> QED BY <1>2, <1>3, <1>4

\* The ladder and reversals.
LEMMA ReverseEntry ==
  ASSUME Limits, Undisturbed, LadderMoved \/ ReverseRefused \/ ReverseClosed \/ ReverseEnters
  PROVE  EntryFacts'
  <1>0. UNCHANGED <<limitEntry, asked, api>> /\ pc \in {"ladder", "reverse", "revRead"}
    BY DEF LadderMoved, ReverseRefused, ReverseClosed, ReverseEnters, Keeps, Books
  <1>a. bot \in Memories /\ Knows(bot) /\ Answerable(bot)
    BY <1>0, Waiting
  <1>b. booked' = booked => Fits(bot)
    BY <1>0, <1>a, FitsNow
  <1>1. CASE LadderMoved
    <2>0. bot.dir # "none" /\ Covers(bot.dir, bot.qty) /\ bot.stop >= 1
      BY <1>1, <1>a DEF LadderMoved, StopInv, Managing, Undisturbed, EntryFacts, Believed, Knows
    <2> DEFINE t == bot.synced /\ reply = "ok"
               c == [bot EXCEPT !.synced = t]
    <2>1. t \in BOOLEAN
      OBVIOUS
    <2>2. Guards(c) /\ booked' = booked /\ pc = "ladder"
      BY <1>1 DEF LadderMoved, Keeps
    <2> PICK u \in BOOLEAN : u = t
      BY <2>1
    <2>3. c = [bot EXCEPT !.synced = u]
      OBVIOUS
    <2> HIDE DEF t, c
    <2>4. c \in Memories /\ c.active = bot.active /\ c.dir = bot.dir /\ c.qty = bot.qty
          /\ c.stop = bot.stop /\ c.pend = bot.pend
      BY <1>a, <2>3, SyncedTyped
    <2>5. Fits(c)
      BY <1>0, <1>a, <2>2, <2>4, FitsNow DEF Answerable
    <2> QED BY <2>0, <2>2, <2>4, <2>5, GuardsEntry
  <1>2. CASE ReverseRefused
    BY <1>2, <1>b, EndsFit DEF ReverseRefused, Keeps
  <1>3. CASE ReverseClosed
    <2>1. pc = "reverse" /\ reply = "ok" /\ Reads("revRead", Forgets(bot))
      BY <1>3 DEF ReverseClosed
    <2>2. xpos.qty = 0
      BY <2>1 DEF Undisturbed, EntryFacts, Answered
    <2>3. /\ Forgets(bot) \in Memories /\ Forgets(bot).active = FALSE
          /\ Forgets(bot).pend = bot.pend
      BY <1>a, ForgetsTyped
    <2>4. Answerable(Forgets(bot))
      BY <2>2 DEF Answerable, Dressed, Naked
    <2>5. Fits(Forgets(bot))
      BY <1>0, <1>a, <2>1, <2>2, <2>3, <2>4, FitsNow
    <2> QED BY <2>1, <2>3, <2>5, ReadsEntry
  <1>4. CASE ReverseEnters
    <2>1. pc = "revRead" /\ booked' = booked
      BY <1>4 DEF ReverseEnters, Keeps
    <2>2. CASE Ends(bot)
      BY <1>b, <2>1, <2>2, EndsFit
    <2>3. CASE reply = "ok" /\ view = Flat /\ Enters(see.sig, bot)
      <3>1. xpos.qty = 0
        BY <2>1, <2>3, NothingThere DEF Reading
      <3>2. see.sig # "none" /\ ~bot.active
        BY <2>1 DEF Undisturbed, StopInv, EntryFacts, Believed
      <3> QED BY <1>b, <2>1, <2>3, <3>1, <3>2, EntersEntry
    <2> QED BY <1>4, <2>2, <2>3 DEF ReverseEnters
  <1> QED BY <1>1, <1>2, <1>3, <1>4

\* _open
LEMMA OpenEntry ==
  ASSUME Limits, Undisturbed, EntryRefused \/ EntryFilled \/ EntryRests
  PROVE  EntryFacts'
  <1>0. UNCHANGED <<limitEntry, asked, api>> /\ pc \in {"market", "limit"}
    BY DEF EntryRefused, EntryFilled, EntryRests, Keeps, Books
  <1>a. /\ bot \in Memories /\ Knows(bot) /\ Grounds
        /\ (pc # "market" => ApiAgrees /\ Answerable(bot))
        /\ (pc = "market" => Resting = 0) /\ bot.pend = "none"
        /\ (~limitEntry /\ bot.active => booked)
    BY <1>0, Waiting
  <1>b. ~bot.active
    BY <1>0 DEF Undisturbed, EntryFacts, Believed
  <1>c. xpos.qty \in Nat /\ Resting \in Nat
    BY <1>a, GroundsQuiet, RestingTyped
  <1>d. see.sig \in Directions /\ see.sig # "none"
    BY <1>0 DEF Undisturbed, StopInv, Types, LoopTypes, Bars
  <1>1. CASE EntryRefused
    <2>1. reply = "fail" /\ Ends(bot) /\ booked' = booked
      BY <1>1 DEF EntryRefused, Keeps
    <2>2. CASE pc = "market"
      <3>1. xpos.qty = 0
        BY <2>1, <2>2 DEF Undisturbed, EntryFacts, Rests
      <3>2. ApiAgrees
        BY <3>1 DEF ApiAgrees, Naked
      <3>3. Booked(bot) /\ ~Naked
        BY <1>b, <3>1 DEF Booked, Naked
      <3> QED BY <1>a, <1>b, <2>1, <2>2, <3>2, <3>3, EndsEntry
    <2>3. CASE pc = "limit"
      <3>1. limitEntry /\ Resting = 0
        BY <1>a, <1>c, <2>1, <2>3 DEF Undisturbed, EntryFacts, Rests
      <3>2. Booked(bot)
        BY <3>1 DEF Booked
      <3>3. Naked /\ asked = 0 /\ key # "renewed" => FALSE
        BY <1>a, <1>b, <2>3 DEF Answerable, Dressed
      <3> QED BY <1>a, <1>b, <2>1, <2>3, <3>1, <3>2, <3>3, EndsEntry
    <2> QED BY <1>0, <2>2, <2>3
  <1>2. CASE EntryFilled
    <2> DEFINE p == [dir |-> see.sig, qty |-> EntryQty, sl |-> 0]
               c == [Adopts(bot, p) EXCEPT !.pend = bot.pend]
    <2>1. Protects("open", c) /\ booked' = TRUE /\ pc = "market"
      BY <1>2 DEF EntryFilled, Books
    <2>2. p.dir \in Sides /\ p.qty \in Nat /\ p.sl \in Nat /\ p.sl = 0 /\ p.dir = see.sig
          /\ p.qty = EntryQty
      BY <1>d, Settled DEF Sides
    <2> HIDE DEF p
    <2>3. /\ Adopts(bot, p) \in Memories /\ Adopts(bot, p).dir = see.sig
          /\ Adopts(bot, p).stop = 1 /\ Adopts(bot, p).qty = EntryQty
          /\ Adopts(bot, p).active = TRUE
      <3>1. /\ Adopts(bot, p) \in Memories /\ Adopts(bot, p).dir = p.dir
            /\ Adopts(bot, p).stop = (IF p.sl > 0 THEN p.sl ELSE 1)
            /\ Adopts(bot, p).qty = p.qty /\ Adopts(bot, p).active = TRUE
        BY <1>a, <2>2, AdoptsTyped
      <3> QED BY <2>2, <3>1
    <2>4. c \in Memories /\ c.dir = see.sig /\ c.stop = 1 /\ c.qty = EntryQty /\ c.active = TRUE
          /\ c.pend = "none"
      BY <1>a, <2>3, PendTyped DEF Memories
    <2> HIDE DEF c
    <2>5. Covers(c.dir, c.qty)
      BY <2>1, <2>4 DEF Undisturbed, EntryFacts, Rests
    <2>6. Alone(c) /\ Booked(c)
      BY <1>a, <2>1, <2>4 DEF Alone, Booked
    <2> PICK a \in Answers : SetStop(c.dir, c.stop, a) /\ reply' = a
      BY <2>1 DEF Protects, Answers
    <2>7. Waits("protect", c) /\ ret' = "open" /\ tries' = 1
      BY <2>1 DEF Protects
    <2>8. streak.write + 4 >= WriteStop + tries'
      <3>1. streak.write \in Nat /\ WriteStop \in 1..3
        BY <1>a, GroundsQuiet DEF Limits
      <3> QED BY <2>7, <3>1
    <2> QED BY <1>a, <1>d, <2>4, <2>5, <2>6, <2>7, <2>8, StopsEntry
  <1>3. CASE EntryRests
    <2> PICK d \in Sides : d = see.sig
      BY <1>d DEF Sides
    <2> DEFINE c == [bot EXCEPT !.pend = see.sig]
    <2>0. c = [bot EXCEPT !.pend = d]
      OBVIOUS
    <2>1. c \in Memories /\ c.active = bot.active /\ c.pend = d
      BY <1>a, <2>0, PendTyped
    <2>2. Ends(c) /\ pc = "limit" /\ reply = "ok" /\ booked' = booked
      BY <1>3 DEF EntryRests
    <2> HIDE DEF c
    <2>3. limitEntry /\ streak.write = 0
      BY <2>2 DEF Undisturbed, EntryFacts, Rests
    <2>4. Booked(c) /\ c.pend # "none" /\ ~c.active
      BY <1>b, <1>d, <2>1, <2>3 DEF Booked
    <2>5. Naked /\ asked = 0 /\ key # "renewed" => FALSE
      BY <1>a, <1>b, <2>2 DEF Answerable, Dressed
    <2> QED BY <1>a, <2>1, <2>2, <2>3, <2>4, <2>5, EndsEntry
  <1> QED BY <1>1, <1>2, <1>3

\* Targets, reversals and openings keep the entry facts.
LEMMA TradingEntry == ASSUME Limits, Undisturbed, Trading PROVE EntryFacts'
  BY TargetEntry, ReverseEntry, OpenEntry DEF Trading

-----------------------------------------------------------------------------
(* What others do in quiet states *)

\* A fill leaves no more lots than there were, and none without a stop.
LEMMA NettedQuiet ==
  ASSUME NEW p \in Holdings, NEW d \in Directions, NEW n \in Nat \ {0}
  PROVE  LET N == Netted(p, d, n) IN
         /\ N.qty \in Nat /\ N.qty <= p.qty + n
         /\ N.qty > 0 /\ N.dir # d => p.qty > 0 /\ N.sl = p.sl
  <1> DEFINE N == Netted(p, d, n)
  <1>0. p.qty \in Nat
    BY HoldingTyped
  <1>1. CASE p.qty = 0
    <2>1. N = [dir |-> d, qty |-> n, sl |-> 0]
      BY <1>1 DEF Netted
    <2> QED BY <1>1, <2>1
  <1>2. CASE p.qty # 0
    <2>0. p \in [dir : Directions, qty : Nat \ {0}, sl : Nat]
      BY <1>2 DEF Holdings, Flat
    <2>1. CASE p.dir = d
      <3>1. N = [p EXCEPT !.qty = @ + n]
        BY <1>2, <2>1 DEF Netted
      <3> QED BY <1>0, <2>0, <2>1, <3>1
    <2>2. CASE p.dir # d /\ p.qty > n
      <3>1. N = [p EXCEPT !.qty = @ - n]
        BY <1>2, <2>2 DEF Netted
      <3> QED BY <1>0, <2>0, <2>2, <3>1
    <2>3. CASE p.dir # d /\ p.qty = n
      <3>1. N = Flat
        BY <1>2, <2>3 DEF Netted
      <3> QED BY <1>0, <3>1 DEF Flat
    <2>4. CASE p.dir # d /\ ~(p.qty > n) /\ p.qty # n
      <3>1. N = [dir |-> d, qty |-> n - p.qty, sl |-> 0]
        BY <1>2, <2>4 DEF Netted
      <3> QED BY <1>0, <2>4, <3>1
    <2> QED BY <2>1, <2>2, <2>3, <2>4
  <1> QED BY <1>1, <1>2

\* A resting entry fills.
LEMMA FillEntry ==
  ASSUME Limits, Undisturbed, NEW d \in Directions, Fill(d),
         UNCHANGED <<limitEntry, bot, age, booked, loop, asked, api>>
  PROVE  EntryFacts'
  <1>0. VenueTypes /\ VenueTypes' /\ xpos.qty \in Nat /\ xpos'.qty \in Nat
        /\ orders["long"] \in Nat /\ orders["short"] \in Nat
        /\ orders'["long"] \in Nat /\ orders'["short"] \in Nat
    <2>1. VenueTypes /\ VenueTypes'
      BY DEF Undisturbed, Types
    <2> QED BY <2>1, HoldingTyped DEF VenueTypes, Directions
  <1> PICK n \in {orders[d], orders[d] \div 2} \ {0} :
           LET p == Netted(xpos, d, n) IN
           /\ orders' = [orders EXCEPT ![d] = @ - n]
           /\ xpos' = IF p.dir = d /\ p.sl = 0 THEN [p EXCEPT !.sl = 1] ELSE p
    BY DEF Fill
  <1> DEFINE p == Netted(xpos, d, n)
  <1>1. orders[d] \in Nat /\ n \in Nat \ {0} /\ n <= orders[d]
    BY <1>0 DEF VenueTypes
  <1>2. Resting' = Resting - n /\ Resting > 0
    BY <1>0, <1>1 DEF Resting, Directions, VenueTypes
  <1>3. /\ p \in Holdings /\ p.qty \in Nat /\ p.qty <= xpos.qty + n
        /\ p.qty > 0 /\ p.dir # d => xpos.qty > 0 /\ p.sl = xpos.sl
    BY <1>0, <1>1, NettedTyped, NettedQuiet DEF VenueTypes
  <1>4. xpos' = IF p.dir = d /\ p.sl = 0 THEN [p EXCEPT !.sl = 1] ELSE p
    OBVIOUS
  <1> HIDE DEF p
  <1>5. xpos'.qty = p.qty /\ (Naked' => Naked)
    <2>1. CASE p.dir = d /\ p.sl = 0
      <3>1. p \in [dir : Directions, qty : Nat \ {0}, sl : Nat]
        BY <1>3, <2>1 DEF Holdings, Flat, Directions
      <3>2. xpos'.qty = p.qty /\ xpos'.sl = 1
        BY <1>4, <2>1, <3>1
      <3> QED BY <3>2 DEF Naked
    <2>2. CASE ~(p.dir = d /\ p.sl = 0)
      <3>1. xpos' = p
        BY <1>4, <2>2
      <3> QED BY <1>3, <2>2, <3>1 DEF Naked
    <2> QED BY <2>1, <2>2
  <1>6. /\ key' = key /\ streak' = streak /\ bot' = bot /\ limitEntry' = limitEntry
        /\ asked' = asked /\ api' = api /\ pc' = pc /\ reply' = reply /\ view' = view
        /\ see' = see /\ tries' = tries /\ ret' = ret /\ booked' = booked
    BY DEF Fill, loop
  <1>7. /\ limitEntry /\ asked = 0 /\ api = NoRequest /\ ~bot.active
        /\ \/ bot.pend # "none" /\ pc \in {"idle", "pendRead"}
           \/ pc = "limit" /\ reply = "ok"
    BY <1>2 DEF Undisturbed, EntryFacts, Rests, Quiet, Apart, Believed
  <1>8. Apart'
    BY <1>6 DEF Undisturbed, EntryFacts, Apart
  <1>9. Believed'
    BY <1>6, <1>7 DEF Believed, Managing
  <1>10. Rests'
    BY <1>6, <1>7 DEF Undisturbed, EntryFacts, Rests
  <1>11. Answered'
    BY <1>6, <1>7 DEF Undisturbed, EntryFacts, Answered, Reading
  <1>12. Adopted'
    BY <1>6, <1>7 DEF Adopted, AdoptsNaked, ClosedByUser, NoRequest
  <1>13. Clothed'
    BY <1>5, <1>6 DEF Undisturbed, EntryFacts, Clothed, Shut
  <1>14. Recorded'
    BY <1>6, <1>7 DEF Recorded
  <1>15. Within'
    <2>1. Exposure = xpos.qty + Resting /\ Exposure' = xpos'.qty + Resting'
      BY <1>0 DEF Exposure, Resting
    <2>2. Resting \in Nat
      BY <1>0 DEF Resting
    <2> QED BY <1>0, <1>1, <1>2, <1>3, <1>5, <2>1, <2>2, Settled
            DEF Undisturbed, EntryFacts, Within
  <1> QED BY <1>8, <1>9, <1>10, <1>11, <1>12, <1>13, <1>14, <1>15 DEF EntryFacts

\* The position ends at the exchange.
LEMMA ClosedEntry ==
  ASSUME Limits, Undisturbed, ExchangeClose,
         UNCHANGED <<limitEntry, bot, age, booked, loop, asked, api>>
  PROVE  EntryFacts'
  <1>1. xpos' = Flat /\ xpos'.qty = 0 /\ ~Naked' /\ Resting' = Resting
    BY DEF ExchangeClose, Flat, Naked, Resting
  <1>2. /\ key' = key /\ streak' = streak /\ bot' = bot /\ limitEntry' = limitEntry
        /\ asked' = asked /\ api' = api /\ pc' = pc /\ reply' = reply /\ view' = view
        /\ see' = see /\ tries' = tries /\ ret' = ret /\ booked' = booked
        /\ orders' = orders
    BY DEF ExchangeClose, loop
  <1>3. Apart'
    BY <1>2 DEF Undisturbed, EntryFacts, Apart
  <1>4. Believed'
    BY <1>1, <1>2 DEF Undisturbed, EntryFacts, Believed, Covers
  <1>5. Rests'
    BY <1>1, <1>2 DEF Undisturbed, EntryFacts, Rests, Covers
  <1>6. Answered'
    BY <1>1, <1>2 DEF Undisturbed, EntryFacts, Answered, Covers, Reading
  <1>7. Adopted'
    <2>1. AdoptsNaked' <=> AdoptsNaked
      BY <1>2 DEF AdoptsNaked
    <2>2. api.view.qty \in Nat
      BY DEF Undisturbed, Types, RestTypes
    <2> QED BY <1>1, <1>2, <2>1, <2>2 DEF Undisturbed, EntryFacts, Adopted
  <1>8. Clothed'
    BY <1>1 DEF Clothed
  <1>9. Recorded'
    BY <1>1, <1>2 DEF Undisturbed, EntryFacts, Recorded
  <1>10. Within'
    <2>1. VenueTypes
      BY DEF Undisturbed, Types
    <2>2. Exposure = xpos.qty + Resting /\ xpos.qty \in Nat /\ Resting \in Nat
      BY <2>1, RestingTyped
    <2>3. Exposure' = Resting
      BY <1>1, <1>2, <2>1 DEF Exposure, Resting, VenueTypes, Directions
    <2> QED BY <2>2, <2>3, Settled DEF Undisturbed, EntryFacts, Within
  <1> QED BY <1>3, <1>4, <1>5, <1>6, <1>7, <1>8, <1>9, <1>10 DEF EntryFacts

\* The key changes before the first request only.
LEMMA KeyEntry ==
  ASSUME Limits, Undisturbed, KeyChange,
         UNCHANGED <<limitEntry, bot, age, booked, loop, asked, api>>
  PROVE  EntryFacts'
  <1>1. /\ xpos' = xpos /\ orders' = orders /\ streak' = streak /\ bot' = bot
        /\ limitEntry' = limitEntry
        /\ asked' = asked /\ api' = api /\ pc' = pc /\ reply' = reply /\ view' = view
        /\ see' = see /\ tries' = tries /\ ret' = ret /\ booked' = booked
    BY DEF KeyChange, loop
  <1>0. asked \in Nat
    BY DEF Undisturbed, Types, RestTypes
  <1>2. asked = 0
    BY <1>0 DEF KeyChange, May, Limits, Undisturbed, EntryFacts, Apart
  <1>3. \/ key = "good" /\ key' = "denied"
        \/ key' = "renewed"
    BY DEF KeyChange
  <1>a. /\ Naked' <=> Naked
        /\ AdoptsNaked' <=> AdoptsNaked
        /\ Resting' = Resting /\ Exposure' = Exposure
    BY <1>1 DEF Naked, AdoptsNaked, Resting, Exposure
  <1>4. Apart'
    BY <1>1, <1>2, <1>3 DEF Undisturbed, EntryFacts, Apart
  <1>5. Believed'
    BY <1>1 DEF Undisturbed, EntryFacts, Believed, Covers
  <1>6. Rests'
    BY <1>1, <1>a DEF Undisturbed, EntryFacts, Rests, Covers
  <1>7. Answered'
    <2>1. Part(bot)' = Part(bot)
      BY <1>1 DEF Part, Whole
    <2> QED BY <1>1, <2>1 DEF Undisturbed, EntryFacts, Answered, Covers, Reading
  <1>8. Adopted'
    <2>1. AdoptsNaked => key' = "renewed"
      BY <1>2, <1>3 DEF Undisturbed, EntryFacts, Adopted
    <2>2. ClosedByUser' <=> ClosedByUser
      BY <1>1 DEF ClosedByUser
    <2> QED BY <1>1, <1>a, <2>1, <2>2 DEF Undisturbed, EntryFacts, Adopted
  <1>9. Clothed'
    BY <1>1, <1>2, <1>3, <1>a DEF Undisturbed, EntryFacts, Clothed, Shut
  <1>10. Recorded'
    BY <1>1 DEF Undisturbed, EntryFacts, Recorded
  <1>11. Within'
    BY <1>a DEF Undisturbed, EntryFacts, Within
  <1> QED BY <1>4, <1>5, <1>6, <1>7, <1>8, <1>9, <1>10, <1>11 DEF EntryFacts

\* The exchange acts.
LEMMA ExchangeEntry == ASSUME Limits, Undisturbed, Exchange PROVE EntryFacts'
  BY FillEntry, ClosedEntry, KeyEntry DEF Exchange

\* A bar appears.
LEMMA BarEntry == ASSUME Limits, Undisturbed, NewBar PROVE EntryFacts'
  <1>1. /\ xpos' = xpos /\ orders' = orders /\ streak' = streak /\ key' = key /\ bot' = bot
        /\ limitEntry' = limitEntry
        /\ asked' = asked /\ api' = api /\ pc' = pc /\ reply' = reply /\ view' = view
        /\ see' = see /\ tries' = tries /\ ret' = ret /\ booked' = booked
    BY DEF NewBar, venue, loop
  <1>2. /\ Naked' <=> Naked
        /\ AdoptsNaked' <=> AdoptsNaked
        /\ ClosedByUser' <=> ClosedByUser
        /\ Resting' = Resting /\ Exposure' = Exposure /\ Part(bot)' = Part(bot)
    BY <1>1 DEF Naked, AdoptsNaked, ClosedByUser, Resting, Exposure, Part, Whole
  <1>3. Apart' /\ Believed' /\ Rests'
    BY <1>1, <1>2 DEF Undisturbed, EntryFacts, Apart, Believed, Rests, Covers
  <1>4. Answered'
    BY <1>1, <1>2 DEF Undisturbed, EntryFacts, Answered, Covers, Reading
  <1>5. Adopted' /\ Clothed' /\ Recorded' /\ Within'
    BY <1>1, <1>2 DEF Undisturbed, EntryFacts, Adopted, Clothed, Shut, Recorded, Within
  <1> QED BY <1>3, <1>4, <1>5 DEF EntryFacts

\* The user presses close: from then on no entry is a limit order and the key
\* is good.
LEMMA ComesQuiet ==
  ASSUME Limits, Undisturbed, NEW r, Comes(r), limitEntry' = limitEntry
  PROVE  ~limitEntry /\ asked' \in Nat /\ asked' > 0 /\ key = "good"
  <1>1. asked \in Nat
    BY DEF Undisturbed, Types, RestTypes
  <1>2. asked' \in Nat /\ asked' > 0 /\ key = "good"
    BY <1>1 DEF Comes, Limits
  <1> QED BY <1>2 DEF Undisturbed, Quiet

\* A close button pressed in a quiet state keeps the entry facts.
LEMMA CloseAskedEntry == ASSUME Limits, Undisturbed, RequestClose PROVE EntryFacts'
  <1>0. ~limitEntry /\ asked' > 0 /\ key = "good"
    BY ComesQuiet DEF RequestClose, Asked
  <1>a. api = NoRequest /\ pc \notin {"off", "recRead", "sweep"}
    BY DEF RequestClose, Asked
  <1>b. VenueTypes /\ faults' = 0 /\ xpos.qty \in Nat /\ bot.qty \in Nat
    BY HoldingTyped DEF Undisturbed, Types, Quiet, VenueTypes, LoopTypes, Memories
  <1> PICK a \in Answers, v \in {xpos, Flat} :
          /\ FetchPosition(a, v)
          /\ api' = [pc |-> "uiRead", reply |-> a,
                     view |-> IF v = Flat THEN [dir |-> bot.dir, qty |-> bot.qty, sl |-> 0]
                              ELSE v]
    BY DEF RequestClose, Answers
  <1>1. /\ v = xpos /\ xpos' = xpos /\ orders' = orders /\ key' = key
        /\ streak'.auth = 0 /\ streak'.write = streak.write
    BY <1>b, QuietRead
  <1>2. /\ api'.pc = "uiRead"
        /\ xpos.dir = api'.view.dir => xpos.qty <= api'.view.qty
    <2>1. CASE xpos = Flat
      <3>1. xpos.qty = 0 /\ api'.view.qty = bot.qty
        BY <1>1, <2>1 DEF Flat
      <3> QED BY <1>b, <3>1
    <2>2. CASE xpos # Flat
      <3>1. api'.view = xpos
        BY <1>1, <2>2
      <3> QED BY <1>b, <3>1
    <2> QED BY <2>1, <2>2
  <1>3. /\ limitEntry' = limitEntry /\ bot' = bot
        /\ pc' = pc /\ reply' = reply /\ view' = view
        /\ see' = see /\ tries' = tries /\ ret' = ret /\ booked' = booked
    BY DEF RequestClose, loop
  <1>4. /\ Naked' <=> Naked
        /\ AdoptsNaked' <=> AdoptsNaked
        /\ ~ClosedByUser'
        /\ Resting' = Resting /\ Exposure' = Exposure /\ Part(bot)' = Part(bot)
    BY <1>1, <1>2, <1>3 DEF Naked, AdoptsNaked, ClosedByUser, Resting, Exposure, Part, Whole
  <1>5. Apart'
    BY <1>0, <1>1, <1>3, <1>a DEF Undisturbed, EntryFacts, Apart
  <1>6. Believed'
    BY <1>1, <1>3 DEF Undisturbed, EntryFacts, Believed, Covers
  <1>7. Rests'
    BY <1>0, <1>1, <1>3, <1>4 DEF Undisturbed, EntryFacts, Rests, Covers
  <1>8. Answered'
    BY <1>1, <1>3, <1>4 DEF Undisturbed, EntryFacts, Answered, Covers, Reading
  <1>9. Adopted'
    BY <1>0, <1>1, <1>2, <1>3, <1>4 DEF Undisturbed, EntryFacts, Adopted
  <1>10. Clothed'
    BY <1>0 DEF Clothed
  <1>11. Recorded'
    BY <1>1, <1>3 DEF Undisturbed, EntryFacts, Recorded
  <1>12. Within'
    BY <1>4 DEF Undisturbed, EntryFacts, Within
  <1> QED BY <1>5, <1>6, <1>7, <1>8, <1>9, <1>10, <1>11, <1>12 DEF EntryFacts

\* A request under way: it came first, with a good key and market entries.
LEMMA RequestQuiet ==
  ASSUME Limits, Undisturbed, api # NoRequest
  PROVE  asked \in Nat /\ asked > 0 /\ key = "good" /\ ~limitEntry /\ pc # "off"
  <1>1. asked \in Nat
    BY DEF Undisturbed, Types, RestTypes
  <1>2. asked > 0
    BY <1>1 DEF Undisturbed, EntryFacts, Apart
  <1> QED BY <1>1, <1>2 DEF Undisturbed, EntryFacts, Apart, Quiet

\* The close is sent.
LEMMA CloseSentEntry == ASSUME Limits, Undisturbed, RequestCloses PROVE EntryFacts'
  <1>a. api # NoRequest /\ api.pc = "uiRead"
    BY DEF RequestCloses, NoRequest
  <1>0. asked > 0 /\ key = "good" /\ ~limitEntry /\ asked' = asked /\ pc # "off"
    BY <1>a, RequestQuiet DEF RequestCloses
  <1>b. /\ VenueTypes /\ VenueTypes' /\ faults' = 0 /\ xpos.qty \in Nat /\ xpos'.qty \in Nat
        /\ api.view.dir \in Sides /\ api.view.qty \in Nat /\ bot \in Memories
    BY HoldingTyped DEF Undisturbed, Types, Quiet, VenueTypes, LoopTypes, RestTypes
  <1> PICK a \in Answers :
          /\ ReduceOnly(api.view.dir, api.view.qty, a)
          /\ api' = [pc |-> "uiClose", reply |-> a, view |-> Flat]
    BY DEF RequestCloses, Answers
  <1>1. /\ orders' = orders /\ key' = key /\ streak'.auth = streak.auth /\ Shrinks
        /\ \/ /\ a = "ok" /\ xpos.dir = api.view.dir /\ streak'.write = 0
              /\ xpos'.qty = (IF api.view.qty >= xpos.qty THEN 0 ELSE xpos.qty - api.view.qty)
           \/ a = "fail" /\ streak'.write = streak.write
    <2>1. key # "denied"
      BY <1>0
    <2> QED BY <1>b, <2>1, QuietReduce
  <1>2. /\ limitEntry' = limitEntry /\ bot' = bot
        /\ pc' = pc /\ reply' = reply /\ view' = view
        /\ see' = see /\ tries' = tries /\ ret' = ret /\ booked' = booked
        /\ api'.pc = "uiClose" /\ api'.reply = a /\ api' # NoRequest
    BY DEF RequestCloses, loop, NoRequest
  <1>3. /\ Naked' => Naked
        /\ AdoptsNaked' <=> AdoptsNaked
        /\ Resting' = Resting /\ Part(bot)' = Part(bot)
    BY <1>1, <1>2, <1>b, ShrinksClothed DEF AdoptsNaked, Resting, Part, Whole
  <1>4. \A d, n : n \in Nat /\ Covers(d, n) => (xpos'.qty > 0 => xpos'.dir = d /\ xpos'.qty <= n)
    BY <1>1, <1>b DEF Covers, Shrinks
  <1>5. xpos'.qty > 0 => xpos.qty > 0
    BY <1>1, <1>b DEF Shrinks
  <1>6. xpos.qty = 0 => xpos'.qty = 0
    BY <1>1, <1>b DEF Shrinks
  <1>7. Apart'
    BY <1>0, <1>1, <1>2 DEF Undisturbed, EntryFacts, Apart
  <1>8. Believed'
    <2>1. bot.qty \in Nat
      BY <1>b DEF Memories
    <2>2. Covers(bot.dir, bot.qty) => Covers(bot.dir, bot.qty)'
      BY <1>2, <1>4, <2>1 DEF Covers
    <2> QED BY <1>2, <2>2 DEF Undisturbed, EntryFacts, Believed, Covers
  <1>9. Rests'
    <2>1. Covers(see.sig, EntryQty) => Covers(see.sig, EntryQty)'
      BY <1>2, <1>4, Settled DEF Covers
    <2> QED BY <1>0, <1>2, <1>3, <1>6, <2>1 DEF Undisturbed, EntryFacts, Rests, Covers
  <1>10. Answered'
    <2>1. view.qty \in Nat /\ bot.qty \in Nat /\ Part(bot) \in Nat /\ bot.qty - Part(bot) \in Nat
      BY <1>b, HoldingTyped, PartBound DEF Undisturbed, Types, LoopTypes, Memories
    <2>2. Covers(view.dir, view.qty) => Covers(view.dir, view.qty)'
      BY <1>2, <1>4, <2>1 DEF Covers
    <2>3. Covers(bot.dir, bot.qty - Part(bot)) => Covers(bot.dir, bot.qty - Part(bot))'
      BY <1>2, <1>3, <1>4, <2>1 DEF Covers
    <2>4. (pc \in Reading \cup {"pendRead", "sync"} => reply = "ok")'
      BY <1>2 DEF Undisturbed, EntryFacts, Answered, Reading
    <2>5. (pc \in Reading => Covers(view.dir, view.qty))'
      BY <1>2, <2>2 DEF Undisturbed, EntryFacts, Answered, Covers, Reading
    <2>6. (pc = "sync" /\ bot.active =>
              Covers(view.dir, view.qty) /\ (view.qty > 0 => view.dir = bot.dir))'
      BY <1>2, <2>2 DEF Undisturbed, EntryFacts, Answered, Covers
    <2>7. (pc \in {"reverse", "emergency", "stopExit"} /\ reply = "ok" => xpos.qty = 0)'
      BY <1>2, <1>6 DEF Undisturbed, EntryFacts, Answered
    <2>8. (pc = "target" /\ reply = "ok" => Covers(bot.dir, bot.qty - Part(bot)))'
      BY <1>2, <2>3 DEF Undisturbed, EntryFacts, Answered
    <2> QED BY <2>4, <2>5, <2>6, <2>7, <2>8 DEF Answered
  <1>11. Adopted'
    <2>1. ClosedByUser' => a = "ok"
      BY <1>2 DEF ClosedByUser
    <2>2. a = "ok" /\ ((Naked /\ pc # "market") \/ AdoptsNaked) => xpos'.qty = 0
      BY <1>1, <1>a, <1>b DEF Undisturbed, EntryFacts, Adopted
    <2>3. (ClosedByUser => ~Naked \/ pc = "market")'
      BY <1>2, <1>3, <2>1, <2>2 DEF Naked
    <2>4. (ClosedByUser /\ AdoptsNaked => xpos.qty = 0)'
      BY <1>3, <2>1, <2>2
    <2> QED BY <1>0, <1>2, <1>3, <1>6, <2>3, <2>4 DEF Undisturbed, EntryFacts, Adopted
  <1>12. Clothed'
    BY <1>0 DEF Clothed
  <1>13. Recorded'
    BY <1>2, <1>5 DEF Undisturbed, EntryFacts, Recorded
  <1>14. Within'
    <2>1. Exposure = xpos.qty + Resting /\ Exposure' = xpos'.qty + Resting /\ Resting \in Nat
      <3>1. orders["long"] \in Nat /\ orders["short"] \in Nat
        BY <1>b DEF VenueTypes, Directions
      <3> QED BY <1>1, <1>b, <3>1 DEF Exposure, Resting
    <2> QED BY <1>1, <1>b, <2>1, Settled DEF Undisturbed, EntryFacts, Within, Shrinks
  <1> QED BY <1>7, <1>8, <1>9, <1>10, <1>11, <1>12, <1>13, <1>14 DEF EntryFacts

\* The answer to the close clears the memory.
LEMMA CloseDoneEntry == ASSUME Limits, Undisturbed, RequestClosed PROVE EntryFacts'
  <1>a. api # NoRequest /\ api.pc = "uiClose" /\ api' = NoRequest /\ NoRequest.pc = "none"
    BY DEF RequestClosed, NoRequest
  <1>0. asked > 0 /\ key = "good" /\ ~limitEntry /\ asked' = asked
    BY <1>a, RequestQuiet DEF RequestClosed
  <1>b. bot \in Memories /\ api.reply \in Answers
    BY DEF Undisturbed, Types, LoopTypes, RestTypes
  <1>1. /\ xpos' = xpos /\ orders' = orders /\ key' = key /\ streak' = streak
        /\ limitEntry' = limitEntry
        /\ pc' = pc /\ reply' = reply /\ view' = view
        /\ see' = see /\ tries' = tries /\ ret' = ret /\ booked' = booked
    BY DEF RequestClosed, loop, venue
  <1>2. /\ bot'.pend = bot.pend
        /\ bot'.active => bot' = bot
        /\ pc # "idle" => bot'.dir = bot.dir /\ bot'.qty = bot.qty /\ bot'.init = bot.init
        /\ bot.active /\ ~bot'.active => ClosedByUser
    <2>1. CASE bot' = bot
      BY <2>1
    <2>2. CASE pc = "idle" /\ bot' = [NoBot EXCEPT !.pend = bot.pend] /\ api.reply # "fail"
      <3>1. bot'.active = FALSE /\ bot'.pend = bot.pend
        BY <1>b, <2>2, EndsTyped DEF Memories
      <3> QED BY <1>a, <1>b, <2>2, <3>1 DEF ClosedByUser, Answers
    <2>3. CASE bot' = [bot EXCEPT !.active = FALSE] /\ api.reply # "fail"
      BY <1>a, <1>b, <2>3 DEF Memories, ClosedByUser, Answers
    <2> QED BY <2>1, <2>2, <2>3 DEF RequestClosed
  <1>3. /\ Naked' <=> Naked
        /\ AdoptsNaked' <=> AdoptsNaked
        /\ Resting' = Resting /\ Exposure' = Exposure
        /\ pc # "idle" => Part(bot)' = Part(bot)
    BY <1>1, <1>2 DEF Naked, AdoptsNaked, Resting, Exposure, Part, Whole
  <1>4. Apart'
    BY <1>0, <1>1, <1>a DEF Undisturbed, EntryFacts, Apart
  <1>5. Believed'
    BY <1>1, <1>2 DEF Undisturbed, EntryFacts, Believed, Covers, Managing
  <1>6. Rests'
    BY <1>0, <1>1, <1>2, <1>3 DEF Undisturbed, EntryFacts, Rests, Covers
  <1>7. Answered'
    BY <1>1, <1>2, <1>3 DEF Undisturbed, EntryFacts, Answered, Covers, Reading
  <1>8. Adopted'
    <2>1. pc = "protect" /\ ret = "adopt" /\ ~bot'.active => xpos.qty = 0
      BY <1>2 DEF Undisturbed, EntryFacts, Adopted, AdoptsNaked
    <2> QED BY <1>0, <1>1, <1>3, <1>a, <2>1 DEF Undisturbed, EntryFacts, Adopted, ClosedByUser
  <1>9. Clothed'
    BY <1>0 DEF Clothed
  <1>10. Recorded'
    BY <1>1, <1>2 DEF Undisturbed, EntryFacts, Recorded
  <1>11. Within'
    BY <1>3 DEF Undisturbed, EntryFacts, Within
  <1> QED BY <1>4, <1>5, <1>6, <1>7, <1>8, <1>9, <1>10, <1>11 DEF EntryFacts

\* The object is dropped: nothing rests, and what the exchange holds is recorded.
LEMMA DroppedEntry ==
  ASSUME Limits, Undisturbed, TearDown, ~limitEntry, asked' > 0, key = "good"
  PROVE  EntryFacts'
  <1>1. /\ xpos' = xpos /\ orders' = orders /\ key' = key /\ streak'.auth = 0 /\ streak'.write = 0
        /\ limitEntry' = limitEntry /\ booked' = booked
        /\ pc' = "off" /\ bot' = NoBot /\ api' = NoRequest /\ ~bot'.active /\ bot'.pend = "none"
        /\ api'.pc = "none"
    BY DEF TearDown, NoBot, NoRequest
  <1>2. Resting' = Resting /\ Exposure' = Exposure
    BY <1>1 DEF Resting, Exposure
  <1>3. Apart'
    BY <1>1 DEF Undisturbed, EntryFacts, Apart
  <1>4. Believed' /\ Answered' /\ Adopted' /\ Clothed' /\ Recorded'
    BY <1>1 DEF Believed, Answered, Adopted, Clothed, Recorded, Managing, Reading, AdoptsNaked,
                ClosedByUser
  <1>5. Rests'
    BY <1>1, <1>2 DEF Undisturbed, EntryFacts, Rests
  <1>6. Within'
    BY <1>2 DEF Undisturbed, EntryFacts, Within
  <1> QED BY <1>3, <1>4, <1>5, <1>6 DEF EntryFacts

\* Stops and crashes.
LEMMA DropsEntry ==
  ASSUME Limits, Undisturbed, RequestStop \/ StopCancelled \/ Crash
  PROVE  EntryFacts'
  <1>1. CASE RequestStop
    <2>1. limitEntry' = limitEntry
      BY <1>1 DEF RequestStop, TearDown
    <2>2. ~limitEntry /\ asked' > 0 /\ key = "good"
      BY <1>1, <2>1, ComesQuiet DEF RequestStop, Asked
    <2>3. bot.pend = "none"
      BY <2>2 DEF Undisturbed, EntryFacts, Rests
    <2> QED BY <1>1, <2>2, <2>3, DroppedEntry DEF RequestStop
  <1>2. CASE StopCancelled
    <2>1. api # NoRequest /\ asked' = asked
      BY <1>2 DEF StopCancelled, NoRequest
    <2> QED BY <1>2, <2>1, RequestQuiet, DroppedEntry DEF StopCancelled
  <1>3. CASE Crash
    <2>1. limitEntry' = limitEntry
      BY <1>3 DEF Crash, TearDown
    <2> QED BY <1>3, <2>1, ComesQuiet, DroppedEntry DEF Crash
  <1> QED BY <1>1, <1>2, <1>3

\* All requests keep the entry facts.
LEMMA RequestsEntry == ASSUME Limits, Undisturbed, Requests PROVE EntryFacts'
  BY CloseAskedEntry, CloseSentEntry, CloseDoneEntry, DropsEntry DEF Requests

-----------------------------------------------------------------------------
(* OneEntry, Accounted *)

\* Nothing that has failed is undone.
LEMMA QuietBefore ==
  ASSUME Types, Types', Next, faults' >= faults, Quiet'
  PROVE  Quiet
  <1>1. limitEntry' = limitEntry
    BY DEF Next, Exchange, NewBar, Start, LoopRuns, StepBegin, Starting, StartAdopts, StartSweeps,
           Started, Sync, SyncUnknown, SyncAgrees, SyncGone, SyncMismatch, SyncClosed, Pending,
           PendingUnknown, PendingFilled, PendingSwept, PendingEnters, PendingWaits,
           PendingExpires, PendingGone, Adoption, Adopt, AdoptNothing, StopExited, Protection,
           Protected, ProtectRetries, ProtectGivesUp, EmergencyClosed, Trading, TargetDone,
           LadderMoved, ReverseRefused, ReverseClosed, ReverseEnters, EntryRefused, EntryFilled,
           EntryRests, Requests, RequestClose, RequestCloses, RequestClosed, RequestStop,
           StopCancelled, Crash, TearDown, Keeps, Books
  <1>2. asked' = asked \/ asked' = asked + 1
    BY DEF Next, Exchange, NewBar, Start, LoopRuns, StepBegin, Starting, StartAdopts, StartSweeps,
           Started, Sync, SyncUnknown, SyncAgrees, SyncGone, SyncMismatch, SyncClosed, Pending,
           PendingUnknown, PendingFilled, PendingSwept, PendingEnters, PendingWaits,
           PendingExpires, PendingGone, Adoption, Adopt, AdoptNothing, StopExited, Protection,
           Protected, ProtectRetries, ProtectGivesUp, EmergencyClosed, Trading, TargetDone,
           LadderMoved, ReverseRefused, ReverseClosed, ReverseEnters, EntryRefused, EntryFilled,
           EntryRests, Requests, RequestClose, RequestCloses, RequestClosed, RequestStop,
           StopCancelled, Crash, Asked, Comes, Keeps, Books
  <1>3. asked \in Nat /\ faults \in Nat /\ faults' \in Nat
    BY DEF Types, VenueTypes, RestTypes
  <1> QED BY <1>1, <1>2, <1>3 DEF Quiet

\* Every step keeps what holds while nothing fails unseen.
LEMMA NextEntry == ASSUME Limits, Undisturbed, Next PROVE EntryFacts'
  BY ExchangeEntry, BarEntry, StartEntry, BeginEntry, StartingEntry, SyncEntry, PendingEntry,
     AdoptionEntry, ProtectionEntry, TradingEntry, RequestsEntry DEF Next, LoopRuns

\* So do the first states.
LEMMA InitEntry == Init => EntryInv
  <1> SUFFICES ASSUME Init PROVE EntryFacts
    BY DEF EntryInv
  <1>1. /\ ~bot.active /\ bot.pend = "none" /\ api.pc = "none" /\ api = NoRequest
        /\ xpos.qty = 0 /\ pc = "off" /\ Resting = 0 /\ Exposure = 0
    BY DEF Init, NoBot, NoRequest, Flat, Resting, Exposure, Directions
  <1>2. Apart
    BY <1>1 DEF Init, Apart
  <1>3. Believed /\ Answered /\ Adopted /\ Clothed /\ Recorded
    BY <1>1 DEF Believed, Answered, Adopted, Clothed, Recorded, Managing, Reading, AdoptsNaked,
                ClosedByUser, Naked
  <1>4. Rests
    BY <1>1 DEF Rests
  <1>5. Within
    BY <1>1, Settled DEF Within
  <1> QED BY <1>2, <1>3, <1>4, <1>5 DEF EntryFacts

\* What OneEntry and Accounted need holds in every reachable state.
LEMMA EntryInvariant == ASSUME Limits PROVE Spec => [](Types /\ StopInv /\ EntryInv)
  <1>1. Types /\ StopInv /\ EntryInv /\ [Next]_vars => (Types /\ StopInv /\ EntryInv)'
    <2> SUFFICES ASSUME Types, StopInv, EntryInv, [Next]_vars
                 PROVE  (Types /\ StopInv /\ EntryInv)'
      OBVIOUS
    <2>1. CASE Next
      <3>1. Types' /\ StopInv' /\ faults' >= faults
        BY <2>1, NextKept DEF Stands, Kept, Types
      <3>2. EntryInv'
        <4> SUFFICES ASSUME Quiet' PROVE EntryFacts'
          BY DEF EntryInv
        <4>1. Quiet
          BY <2>1, <3>1, QuietBefore
        <4> QED BY <2>1, <3>1, <4>1, NextEntry DEF Undisturbed, EntryInv
      <3> QED BY <3>1, <3>2
    <2>2. CASE UNCHANGED vars
      <3>1. Types' /\ StopInv'
        BY <2>2 DEF vars, Types, VenueTypes, LoopTypes, RestTypes, StopInv, Knows, Reading,
                    Managing, Due
      <3>2. /\ Quiet' <=> Quiet
            /\ Apart' <=> Apart
            /\ Believed' <=> Believed
            /\ Rests' <=> Rests
        BY <2>2 DEF vars, Quiet, Apart, Believed, Rests, Covers, Managing, Resting
      <3>3. /\ Answered' <=> Answered
            /\ Adopted' <=> Adopted
        BY <2>2 DEF vars, Answered, Adopted, Covers, Reading, AdoptsNaked, ClosedByUser, Naked,
                    Part, Whole
      <3>4. /\ Clothed' <=> Clothed
            /\ Recorded' <=> Recorded
            /\ Within' <=> Within
        BY <2>2 DEF vars, Clothed, Recorded, Within, Naked, Exposure, Shut
      <3> QED BY <3>1, <3>2, <3>3, <3>4 DEF EntryInv, EntryFacts
    <2> QED BY <2>1, <2>2
  <1>2. Init => Types /\ StopInv /\ EntryInv
    BY InitKept, InitEntry
  <1> QED BY <1>1, <1>2, PTL DEF Spec

\* The bot never stands twice for one signal: whatever fills, reverses, is
\* refused, restarted or closed by the user, position and resting entries
\* together stay within one entry, as long as no read fails, no answer is lost
\* and no cancel of a resting entry is refused (_open, _handle_pending_limit,
\* _recover_position_from_exchange).
THEOREM OneEntryHolds == ASSUME Limits PROVE Spec => []OneEntry
  <1>1. EntryInv => OneEntry
    BY DEF EntryInv, EntryFacts, OneEntry, Quiet, Within
  <1> QED BY <1>1, EntryInvariant, PTL

\* A position held between two steps has its opening in the trades store: an
\* adoption is silent only where the position was recorded before (_record_open,
\* _recover_position_from_exchange).
THEOREM AccountedHolds == ASSUME Limits PROVE Spec => []Accounted
  <1>1. EntryInv => Accounted
    BY DEF EntryInv, EntryFacts, Accounted, Quiet, Recorded
  <1> QED BY <1>1, EntryInvariant, PTL

=============================================================================
