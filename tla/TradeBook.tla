------------------------------- MODULE TradeBook -------------------------------
(***************************************************************************)
(* What the trade records promise: every trade of the bot is booked as     *)
(* entered at most once and as exited at most once, never before it        *)
(* happened, its result is its own or an estimate, never that of another   *)
(* trade, and what is booked stays booked.                                 *)
(***************************************************************************)
EXTENDS Naturals

CONSTANTS Trades, Nothing

VARIABLES
    filled,    \* trades whose entry was filled
    over,      \* trades the exchange has closed
    entries,   \* how often each trade is booked as entered
    exits,     \* how often each trade is booked as exited
    result     \* whose close the price and profit of a booked exit are, or Nothing

book == <<filled, over, entries, exits, result>>

Init ==
    /\ filled = {}
    /\ over = {}
    /\ entries = [t \in Trades |-> 0]
    /\ exits = [t \in Trades |-> 0]
    /\ result = [t \in Trades |-> Nothing]

Open(t) ==
    /\ filled = over /\ t \notin filled
    /\ filled' = filled \cup {t}
    /\ UNCHANGED <<over, entries, exits, result>>

Close(t) ==
    /\ t \in filled \ over
    /\ over' = over \cup {t}
    /\ UNCHANGED <<filled, entries, exits, result>>

BookEntry(t) ==
    /\ t \in filled /\ entries[t] = 0
    /\ entries' = [entries EXCEPT ![t] = 1]
    /\ UNCHANGED <<filled, over, exits, result>>

BookExit(t) ==
    /\ t \in over /\ exits[t] = 0
    /\ exits' = [exits EXCEPT ![t] = 1]
    /\ result' = [result EXCEPT ![t] = t] \/ result' = result
    /\ UNCHANGED <<filled, over, entries>>

Next == \E t \in Trades : Open(t) \/ Close(t) \/ BookEntry(t) \/ BookExit(t)

Spec == Init /\ [][Next]_book
=============================================================================
