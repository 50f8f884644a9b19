-------------------------------- MODULE Venue --------------------------------
(***************************************************************************)
(* The derivatives exchange as one bot sees it: one symbol in one-way      *)
(* mode, reached through AuroraClientAdapter.  The exchange itself is      *)
(* external; what is modelled is its net position, the bot's resting limit *)
(* orders, and how the adapter turns an exchange answer (or the lack of    *)
(* one) into what the bot is told.                                         *)
(*                                                                         *)
(* A position is a set of lots: each bot entry contributes its setup, a    *)
(* trade made by hand contributes the model value User.  Quantities and    *)
(* prices are abstracted to these lots and to "a stop loss is registered". *)
(***************************************************************************)
EXTENDS Naturals, FiniteSets

CONSTANTS
    Setups,         \* trade setups the strategy can produce (one order each)
    DirOf,          \* the direction of each setup
    User,           \* origin of a lot the user opened by hand
    FaultKinds,     \* which API failures may happen in this instance
    MaxFaults,      \* bound: API failures per behaviour
    MaxUserTrades   \* bound: positions the user opens by hand

Directions == {"long", "short"}

\* auth:   a read is refused and raises AuthenticationError
\* net:    a read fails on the network; the adapter reports "no position"
\* write:  an order or a stop-loss request is refused, nothing happens
\* ack:    an order takes effect but its answer is lost and the call raises
\* cancel: cancelling resting orders fails; the adapter swallows it
\* strip:  the position's stop loss disappears at the exchange
AllFaults == {"auth", "net", "write", "ack", "cancel", "strip"}

ASSUME VenueAssumption ==
    /\ DirOf \in [Setups -> Directions]
    /\ User \notin Setups
    /\ FaultKinds \subseteq AllFaults
    /\ MaxFaults \in Nat
    /\ MaxUserTrades \in Nat

VARIABLES
    pos,        \* the net position: direction, lots, stop loss registered
    orders,     \* setups whose limit entry order rests at the exchange
    closed,     \* setups whose lot the exchange has closed (closed-pnl)
    faults,     \* API failures so far
    userTrades  \* positions the user has opened by hand so far

venueVars == <<pos, orders, closed, faults, userTrades>>

Lots == Setups \cup {User}

Flat == [dir |-> "none", lots |-> {}, sl |-> FALSE]

Positions == [dir : Directions \cup {"none"}, lots : SUBSET Lots, sl : BOOLEAN]

VenueTypeOK ==
    /\ pos \in Positions
    /\ orders \subseteq Setups
    /\ closed \subseteq Setups
    /\ faults \in 0..MaxFaults
    /\ userTrades \in 0..MaxUserTrades

VenueInit ==
    /\ pos = Flat
    /\ orders = {}
    /\ closed = {}
    /\ faults = 0
    /\ userTrades = 0

-----------------------------------------------------------------------------
(* Helpers *)

\* An API failure of kind k happens now.
Fault(k) ==
    /\ k \in FaultKinds
    /\ faults < MaxFaults
    /\ faults' = faults + 1

\* The whole position is closed; its bot lots appear in the closed-pnl list.
CloseAll ==
    /\ pos' = Flat
    /\ closed' = closed \cup (pos.lots \cap Setups)

\* A lot of direction d joins the net position: it opens or enlarges it, or
\* is netted against one lot of the opposite direction.
Join(lot, d) ==
    \/ /\ pos = Flat
       /\ pos' = [dir |-> d, lots |-> {lot}, sl |-> FALSE]
       /\ UNCHANGED closed
    \/ /\ pos.dir = d
       /\ pos' = [pos EXCEPT !.lots = @ \cup {lot}]
       /\ UNCHANGED closed
    \/ /\ pos.dir \notin {d, "none"}
       /\ \E out \in pos.lots :
             /\ pos' = IF pos.lots = {out} THEN Flat
                       ELSE [pos EXCEPT !.lots = @ \ {out}]
             /\ closed' = closed \cup ({lot, out} \cap Setups)

-----------------------------------------------------------------------------
(* What happens at the exchange without the bot *)

\* The market reaches the price of a resting entry order.
Fill(s) ==
    /\ s \in orders
    /\ orders' = orders \ {s}
    /\ Join(s, DirOf[s])
    /\ UNCHANGED <<faults, userTrades>>

\* The position ends: stop loss, take profit, trailing stop, liquidation, or
\* the user closes it in the exchange's own interface.
ExchangeClose ==
    /\ pos # Flat
    /\ CloseAll
    /\ UNCHANGED <<orders, faults, userTrades>>

\* The user opens a position by hand on the symbol the bot trades.
UserOpen(d) ==
    /\ pos = Flat
    /\ userTrades < MaxUserTrades
    /\ userTrades' = userTrades + 1
    /\ Join(User, d)
    /\ UNCHANGED <<orders, faults>>

\* The conditional stop-loss order of the position is removed.
StripStop ==
    /\ pos.sl
    /\ Fault("strip")
    /\ pos' = [pos EXCEPT !.sl = FALSE]
    /\ UNCHANGED <<orders, closed, userTrades>>

Market ==
    \/ \E s \in Setups : Fill(s)
    \/ ExchangeClose
    \/ \E d \in Directions : UserOpen(d)
    \/ StripStop

-----------------------------------------------------------------------------
(* The adapter's calls: each says what the exchange does and what the bot  *)
(* is told (answer "ok" or "fail", and the position seen by a read).       *)

\* fetch_position: an authentication failure raises; any other failure of
\* both lookups returns None, which the callers read as "no position".
FetchPosition(answer, view) ==
    /\ \/ answer = "ok" /\ view = pos /\ UNCHANGED faults
       \/ answer = "ok" /\ view = Flat /\ Fault("net")
       \/ answer = "fail" /\ view = Flat /\ Fault("auth")
    /\ UNCHANGED <<pos, orders, closed, userTrades>>

\* place_order for an entry: a limit order comes to rest.
PlaceEntry(s, answer) ==
    /\ \/ answer = "ok" /\ orders' = orders \cup {s} /\ UNCHANGED faults
       \/ answer = "fail" /\ orders' = orders \cup {s} /\ Fault("ack")
       \/ answer = "fail" /\ UNCHANGED orders /\ Fault("write")
    /\ UNCHANGED <<pos, closed, userTrades>>

\* place_order with reduce_only against a position of direction d: refused
\* when there is no such position.
ReduceOnly(d, answer) ==
    /\ \/ /\ pos.dir = d
          /\ CloseAll
          /\ \/ answer = "ok" /\ UNCHANGED faults
             \/ answer = "fail" /\ Fault("ack")
       \/ /\ pos.dir = d
          /\ answer = "fail"
          /\ Fault("write")
          /\ UNCHANGED <<pos, closed>>
       \/ /\ pos.dir # d
          /\ answer = "fail"
          /\ UNCHANGED <<pos, closed, faults>>
    /\ UNCHANGED <<orders, userTrades>>

\* set_position_tpsl with a stop loss for direction d: refused when there is
\* no such position; every failure comes back as an empty answer.
SetStop(d, answer) ==
    /\ \/ /\ pos # Flat
          /\ pos.dir = d
          /\ answer = "ok"
          /\ pos' = [pos EXCEPT !.sl = TRUE]
          /\ UNCHANGED faults
       \/ pos # Flat /\ pos.dir = d /\ answer = "fail" /\ Fault("write") /\ UNCHANGED pos
       \/ (pos = Flat \/ pos.dir # d) /\ answer = "fail" /\ UNCHANGED <<pos, faults>>
    /\ UNCHANGED <<orders, closed, userTrades>>

\* cancel_bot_orders: the bot's own resting orders go; a failure is swallowed
\* and looks like success.
CancelBotOrders ==
    /\ \/ orders' = {} /\ UNCHANGED faults
       \/ UNCHANGED orders /\ Fault("cancel")
    /\ UNCHANGED <<pos, closed, userTrades>>
=============================================================================
