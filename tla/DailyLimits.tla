------------------------------ MODULE DailyLimits ------------------------------
(***************************************************************************)
(* The daily loss and profit limits of a bot: a baseline and a realized    *)
(* result per New York day, read at the exchange, and flags that stay up   *)
(* once a limit was reached.  Results are in units of the baseline.        *)
(***************************************************************************)
EXTENDS Integers

CONSTANTS
    PairLimit,   \* daily_pair_loss_limit_r
    ProfitLimit  \* daily_profit_limit_pct

ASSUME DailyLimitsAssumption ==
    {PairLimit, ProfitLimit} \subseteq Nat \ {0}

Limits == {"loss", "pair", "profit"}

VARIABLES
    date,      \* the New York date
    closed,    \* the exchange: what was realized today, [all, pair]
    book,      \* the bot: [date, base, all, pair], base: _today_start_equity > 0
    limit,     \* daily_loss_limit_pct, 0: off
    flags,     \* _daily_limit_hit, _daily_pair_limit_hit, _daily_profit_hit
    reached    \* history: limits the bot has seen reached since its last reset

limitVars == <<date, closed, book, limit, flags, reached>>

NoBook == [date |-> 0, base |-> FALSE, all |-> 0, pair |-> 0]
Nought == [all |-> 0, pair |-> 0]

LimitsInit(lossLimits) ==
    /\ date = 1 /\ closed = Nought /\ book = NoBook
    /\ limit \in lossLimits
    /\ flags = {} /\ reached = {}

\* _is_daily_loss_limit_hit, _is_daily_pair_loss_limit_hit, _is_daily_profit_limit_hit
Hit(b, l) ==
    IF ~b.base THEN {}
    ELSE {x \in Limits : \/ x = "loss" /\ l > 0 /\ -b.all >= l
                         \/ x = "pair" /\ -b.pair >= PairLimit
                         \/ x = "profit" /\ b.all >= ProfitLimit}

\* _maybe_reset_daily_pnl: a new day begins with the first balance that is read.
ResetsNow(read) == date # book.date /\ read
Reset(b, read) == IF ResetsNow(read) THEN [date |-> date, base |-> TRUE, all |-> 0, pair |-> 0] ELSE b
Kept(f, read) == IF ResetsNow(read) THEN {} ELSE f

\* _sync_today_realized_pnl, given the answer of fetch_closed_positions: today's
\* result, nothing (a failure the adapter swallows) or an exception.
Synced(b, answer) ==
    CASE answer = "today" -> [b EXCEPT !.all = closed.all, !.pair = closed.pair]
      [] answer = "empty" -> [b EXCEPT !.all = 0, !.pair = 0]
      [] answer = "raises" -> b

\* The beginning of a step.
LookAtDay(read, answer) ==
    LET b == Synced(Reset(book, read), answer)
        hit == IF answer = "raises" THEN {} ELSE Hit(b, limit)
    IN /\ book' = b
       /\ flags' = Kept(flags, read) \cup hit
       /\ reached' = Kept(reached, read) \cup hit
       /\ UNCHANGED <<date, closed, limit>>

\* Mutant: the limits as they are now.
BarredNow(read) == Hit(Reset(book, read), limit)

\* The check before an order, in three steps of the code: what counts is that one
\* limit that is up stops the order before the later ones are looked at.
Barred(read) == Kept(flags, read) \cup Hit(Reset(book, read), limit)

CheckDay(read) ==
    /\ book' = Reset(book, read)
    /\ flags' = IF Barred(read) = {} THEN {}
                ELSE LET first == CHOOSE x \in Barred(read) :
                             \/ x = "loss"
                             \/ x = "pair" /\ "loss" \notin Barred(read)
                             \/ Barred(read) = {"profit"}
                     IN Kept(flags, read) \cup {first}
    /\ reached' = Kept(reached, read) \cup Hit(book', limit)
    /\ UNCHANGED <<date, closed, limit>>

-----------------------------------------------------------------------------
(* The day *)

Midnight ==
    /\ date' = date + 1 /\ closed' = Nought
    /\ UNCHANGED <<book, limit, flags, reached>>

\* Positions of the pair, or of another pair of the account, are closed.
Realizes(pnl, own) ==
    /\ closed' = [all |-> closed.all + pnl,
                  pair |-> IF own THEN closed.pair + pnl ELSE closed.pair]
    /\ UNCHANGED <<date, book, limit, flags, reached>>

\* /ict/daily_loss_limit: a flag the new limit does not justify is lowered.
SetLossLimit(l) ==
    /\ limit' = l
    /\ flags' = IF "loss" \in Hit(book, l) THEN flags ELSE flags \ {"loss"}
    /\ reached' = IF "loss" \in Hit(book, l) THEN reached ELSE reached \ {"loss"}
    /\ UNCHANGED <<date, closed, book>>

\* A restart forgets all of it.
ForgetDay ==
    /\ book' = NoBook /\ flags' = {} /\ reached' = {}
    /\ UNCHANGED <<date, closed, limit>>
=============================================================================
