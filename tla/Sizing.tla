-------------------------------- MODULE Sizing --------------------------------
(***************************************************************************)
(* How much an entry buys (_execute_setup 2197-2340 and                    *)
(* bot/margin_guard.py): the bots of an account's symbols size their       *)
(* entries from the same balance and throttle them by the same             *)
(* peak_equity.json, each with an await between what it reads and its      *)
(* order.  Orders are positions at once, at the price of the setup.        *)
(***************************************************************************)
EXTENDS Integers, FiniteSets

CONSTANTS
    Symbols,      \* the symbols of the account
    Price,        \* entry of every setup
    Leverage,
    Distances,    \* distances of the stop from the entry
    Widening,     \* sl_dist_mult, percent
    Percents,     \* risk_per_trade_* or position_pct_* for the scores of the setups
    PositionMax,  \* position_pct_max
    Votes,        \* how many of the three quality signals agree
    DdPct,        \* dd_throttle_pct
    DdFactor,     \* dd_throttle_factor, percent
    MinQty,       \* least order, and the step orders are rounded to
    MinRatio,     \* min_entry_qty_ratio, percent
    Deposit,      \* the account's money at first
    Results,      \* bound: profits a position may show
    MaxEntries    \* bound: signals per behaviour

ASSUME SizingAssumption ==
    /\ {Price, Leverage, DdFactor, MinQty, Deposit} \cup Distances \subseteq Nat \ {0}
    /\ {Widening, PositionMax, DdPct, MinRatio, MaxEntries} \cup Percents \subseteq Nat
    /\ Votes \subseteq 0..3 /\ Results \subseteq Int
    /\ \A d \in Distances : d * Widening >= 100     \* no stop is at the entry
    /\ IsFiniteSet(Symbols)

VARIABLES
    account,    \* [symbols that run, riskBased (risk_based_sizing), unified: unrealised
                \* profit counts (REGULAR_MARGIN, PORTFOLIO_MARGIN) or ISOLATED_MARGIN]
    wallet,     \* the exchange's totals: realised money, unrealised profits of all
                \* positions, margin bound by them
    position,   \* per symbol: [qty, profit] of its position
    sizing,     \* per symbol: the coroutine and its bot's _peak_equity
    peakFile,   \* peak_equity.json, 0 when there is none
    signals,    \* bound
    top,        \* history: the highest equity entries have been sized from
    mishap,     \* history: a balance could not be read or the file not written
    changed,    \* history: symbols for which the account has changed since they read
                \* what is available
    refused     \* history: symbols whose last order the exchange refused

funds == <<account, wallet, position, sizing, peakFile, signals, top, mishap, changed, refused>>

Flat == [qty |-> 0, profit |-> 0]
Unknown == -1
Fallback == 1000     \* _fetch_equity's answer when the balance cannot be read
Waits(peak) == [at |-> "waits", peak |-> peak, equity |-> 0, qty |-> 0, factor |-> 100, free |-> 0]

SizingTypeOK ==
    /\ account \in [symbols : SUBSET Symbols, riskBased : BOOLEAN, unified : BOOLEAN]
    /\ wallet \in [money : Int, profits : Int, bound : Int] /\ position \in [Symbols -> [qty : Nat, profit : Results \cup {0}]]
    /\ sizing \in [Symbols -> [at : {"waits", "read", "sized"}, peak : Nat, equity : Nat,
                               qty : Nat, factor : {DdFactor, 100}, free : Nat \cup {Unknown}]]
    /\ {peakFile, top} \subseteq Nat /\ signals \in 0..MaxEntries /\ mishap \in BOOLEAN
    /\ changed \subseteq Symbols /\ refused \subseteq Symbols

SizingInit ==
    /\ account \in [symbols : (SUBSET Symbols) \ {{}}, riskBased : BOOLEAN, unified : BOOLEAN]
    /\ wallet = [money |-> Deposit, profits |-> 0, bound |-> 0]
    /\ position = [s \in Symbols |-> Flat]
    /\ sizing = [s \in Symbols |-> Waits(0)]
    /\ peakFile = 0 /\ signals = 0
    /\ top = 0 /\ mishap = FALSE
    /\ changed = {} /\ refused = {}

-----------------------------------------------------------------------------
(* The account at the exchange. *)

Highest(a, b) == IF a > b THEN a ELSE b
Lowest(a, b) == IF a < b THEN a ELSE b

Margin(qty) == (qty * Price) \div Leverage
Equity == wallet.money + wallet.profits

\* What new orders may use: totalAvailableBalance, or the wallet less what is bound.
Available == Highest(0, (IF account.unified THEN Equity ELSE wallet.money) - wallet.bound)

\* A position's profit changes.
PriceMoves(s, profit) ==
    /\ position[s].qty > 0 /\ profit # position[s].profit
    /\ position' = [position EXCEPT ![s].profit = profit]
    /\ wallet' = [wallet EXCEPT !.profits = @ + profit - position[s].profit]
    /\ changed' = Symbols
    /\ UNCHANGED <<account, sizing, peakFile, signals, top, mishap, refused>>

PositionEnds(s) ==
    /\ position[s].qty > 0
    /\ wallet' = [money |-> wallet.money + position[s].profit,
                  profits |-> wallet.profits - position[s].profit,
                  bound |-> wallet.bound - Margin(position[s].qty)]
    /\ position' = [position EXCEPT ![s] = Flat]
    /\ changed' = Symbols
    /\ UNCHANGED <<account, sizing, peakFile, signals, top, mishap, refused>>

-----------------------------------------------------------------------------
(* The size. *)

\* _execute_setup: the stop is moved away from the entry, but not beyond 80 % of the
\* way to the liquidation unless the setup's own stop is.
Widened(distance) ==
    LET wide == (distance * Widening) \div 100
        cap == (Price * 8) \div (10 * Leverage)
    IN IF wide > cap THEN Highest(distance, cap) ELSE wide

\* _set_smart_size, percent.
SmartSize(votes) == 70 + 20 * votes

\* round_amount of the adapter.
Rounded(qty) == qty - (qty % MinQty)

\* _calc_qty_risk_based and the other branch of _calc_qty.
ByRisk(equity, percent, factor, votes, distance) ==
    Lowest((equity * percent * factor * SmartSize(votes)) \div (1000000 * Widened(distance)),
           (equity * Leverage * PositionMax) \div (100 * Price))
ByShare(equity, percent, votes) ==
    (equity * Lowest(percent, PositionMax) * SmartSize(votes) * Leverage) \div (10000 * Price)

InDrawdown(equity, peak) == (peak - equity) * 100 > DdPct * peak

\* _dd_throttle_scale: a new bot reads the file, and knows its own peak from then on.
\* Mutant: the file is written and never read.
PeakSince(s) == sizing[s].peak
PeakOf(s) == IF sizing[s].peak = 0 THEN peakFile ELSE sizing[s].peak

-----------------------------------------------------------------------------
(* _execute_setup from the balance to the order. *)

\* fetch_balance answers; it says {} when it fails, and equity below 0 is none.
Signals(s) ==
    /\ s \in account.symbols /\ sizing[s].at = "waits" /\ position[s].qty = 0
    /\ signals < MaxEntries /\ signals' = signals + 1
    /\ \/ /\ Equity > 0
          /\ sizing' = [sizing EXCEPT ![s].at = "read", ![s].equity = Equity]
          /\ UNCHANGED mishap
       \/ /\ sizing' = [sizing EXCEPT ![s].at = "read", ![s].equity = Fallback]
          /\ mishap' = TRUE
    /\ refused' = refused \ {s}
    /\ UNCHANGED <<account, wallet, position, peakFile, top, changed>>

\* fetch_available_usdt answers, or cannot tell.
\* Mutant: the whole balance is taken for available.
ReadsTotal == {Highest(0, Equity), Unknown}
ReadsAvailable == {Available, Unknown}

\* _calc_qty, then margin_guard asks what is available.
Plans(s, percent, votes, distance) ==
    LET e == sizing[s].equity
        risky == account.riskBased
        peak == IF risky THEN Highest(PeakOf(s), e) ELSE sizing[s].peak
        factor == IF risky /\ InDrawdown(e, peak) THEN DdFactor ELSE 100
        qty == Rounded(IF risky THEN ByRisk(e, percent, factor, votes, distance)
                                ELSE ByShare(e, percent, votes))
    IN  /\ sizing[s].at = "read"
        /\ IF risky /\ e > PeakOf(s)
           THEN \/ peakFile' = e /\ UNCHANGED mishap
                \/ UNCHANGED peakFile /\ mishap' = TRUE
           ELSE UNCHANGED <<peakFile, mishap>>
        /\ top' = Highest(top, e)
        /\ \E free \in ReadsAvailable :
              sizing' = [sizing EXCEPT ![s] = [@ EXCEPT !.at = "sized", !.peak = peak,
                                                !.qty = qty, !.factor = factor, !.free = free]]
        /\ changed' = changed \ {s}
        /\ UNCHANGED <<account, wallet, position, signals, refused>>

\* cap_qty_to_available: nothing when it is not known what is available, and nothing
\* when little of the plan is left.
Capped(qty, free) ==
    LET most == (free * Leverage * 90) \div (100 * Price)
        rest == Rounded(most)
    IN IF free = Unknown \/ qty = 0 THEN 0
       ELSE IF qty <= most THEN qty
       ELSE IF rest * 100 < qty * MinRatio THEN 0 ELSE rest

\* place_order, or the entry is skipped.
Orders(s) ==
    LET qty == Capped(sizing[s].qty, sizing[s].free)
    IN  /\ sizing[s].at = "sized"
        /\ sizing' = [sizing EXCEPT ![s] = Waits(@.peak)]
        /\ IF qty > 0 /\ Margin(qty) <= Available
           THEN /\ position' = [position EXCEPT ![s] = [qty |-> qty, profit |-> 0]]
                /\ wallet' = [wallet EXCEPT !.bound = @ + Margin(qty)]
                /\ changed' = Symbols
                /\ UNCHANGED refused
           ELSE /\ refused' = IF qty > 0 THEN refused \cup {s} ELSE refused
                /\ UNCHANGED <<position, wallet, changed>>
        /\ UNCHANGED <<account, peakFile, signals, top, mishap>>

\* The bot is stopped or its process dies; a new object takes its place.
Restarts(s) ==
    /\ sizing[s] # Waits(0)
    /\ sizing' = [sizing EXCEPT ![s] = Waits(0)]
    /\ UNCHANGED <<account, wallet, position, peakFile, signals, top, mishap, changed, refused>>

SizingNext ==
    \E s \in Symbols :
        \/ Signals(s) \/ Orders(s) \/ Restarts(s) \/ PositionEnds(s)
        \/ \E p \in Percents, v \in Votes, d \in Distances : Plans(s, p, v, d)
        \/ \E r \in Results : PriceMoves(s, r)

-----------------------------------------------------------------------------
(* Properties *)

\* "peak is persisted (shared by all symbols, only its maximum is updated): survives
\* restarts" (_dd_throttle_scale).  While no balance and no write has failed, the only
\* bot of an account throttles its entries exactly when equity is DdPct below the
\* highest it ever sized an entry from, in whichever life.
ThrottleSurvives ==
    \A s \in Symbols :
        account.symbols = {s} /\ account.riskBased /\ ~mishap /\ sizing[s].at = "sized"
            => (sizing[s].factor = DdFactor <=> InDrawdown(sizing[s].equity, top))

\* "After the read, another order or a price move may still make the exchange refuse"
\* (margin_guard): nothing else can; a refused order was sized from an account that has
\* changed since.
RefusedOnlyByRace == refused \subseteq changed
=============================================================================
