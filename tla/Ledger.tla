-------------------------------- MODULE Ledger --------------------------------
(***************************************************************************)
(* The trade records of one bot: trades.jsonl (TradesStore), the events    *)
(* that could not be written and wait in memory, and the reconciliation of *)
(* a start with the exchange's list of closed positions.                   *)
(*                                                                         *)
(* A trade is its setup: ENTRY and closing events carry its timestamp.     *)
(* The exchange's part (what fills and closes) is reduced to one position  *)
(* at a time; IctBot models how the bot gets and manages it.  Time counts  *)
(* ticks, Tol of which are the 10 minutes within which an opening time is  *)
(* taken for the same.                                                     *)
(***************************************************************************)
EXTENDS Integers, Sequences, FiniteSets

CONSTANTS
    Trades,      \* the trades of a behaviour, numbered in the order of their fills
    MaxTime,     \* bound: ticks
    Tol,         \* _PNL_MATCH_OPENED_TOLERANCE_MS
    Gap,         \* bound: ticks between two entries
    FaultKinds,  \* failures that may happen
    MaxFaults,   \* bound: failures per behaviour
    MaxCrashes,  \* bound: crashes, stops and presses of the close button per behaviour
    Mixed,       \* bound: whether a crash or press may follow a failure and a failed write
                 \* a crash or press, and a crash between a fill and its record an exit
                 \* this life of the bot has forgotten
    QuietStart   \* bound: the exchange closes nothing while a start is under way

\* write: appending to trades.jsonl fails three times
\* torn:  an append fails halfway; the line that follows is unreadable
\* fetch: the list of closed positions cannot be read, the adapter says []
\* read:  a start cannot read the position: the call raises, or the adapter
\*        says that there is none
ASSUME LedgerAssumption ==
    /\ Trades = 1..Cardinality(Trades) /\ IsFiniteSet(Trades)
    /\ {MaxTime, Tol, Gap, MaxFaults, MaxCrashes} \subseteq Nat
    /\ FaultKinds \subseteq {"write", "torn", "fetch", "read"}
    /\ {Mixed, QuietStart} \subseteq BOOLEAN

VARIABLES
    now,               \* time
    opened, shut,      \* per trade: tick of its fill and of its end (0: not yet)
    dir,               \* per trade: direction
    entries, exits,    \* trades.jsonl: readable ENTRY and closing lines per trade
    of,                \* trades.jsonl: whose close gave a closing line its price and profit
                       \* (Nothing: an estimate, or no line)
    torn,              \* the file ends in half a line
    queue,             \* _failed_trade_events
    retry,             \* queued events the current flush has not tried yet
    mem,               \* active_position: its trade, Nothing, or Stray (setup unknown)
    pc,                \* where the bot is
    todo,              \* the reconciliation: unclosed trades it still looks at, the closed
                       \* list it has read and the opening times it has used
    button,            \* the close button's order is done, its handler not yet
    lost,              \* history: events reported written in an unreadable line
    dropped,           \* history: trades this life of the bot forgot without a record
    deaf,              \* history: a reconciliation could not read the closed list
    faults, crashes    \* bounds

bot == <<queue, retry, mem, pc, todo>>
world == <<now, opened, shut, dir>>
file == <<entries, exits, of, torn>>
hands == <<button, dropped>>
records == <<world, file, bot, hands, lost, deaf, faults, crashes>>

Directions == {"long", "short"}
Nothing == 0
Stray == -1
Entry(t) == [kind |-> "entry", trade |-> t, of |-> Nothing]
Exit(t, c) == [kind |-> "exit", trade |-> t, of |-> c]
NoTodo == [orphans |-> {}, list |-> {}, used |-> {}]
Events == [kind : {"entry"}, trade : Trades, of : {Nothing}]
          \cup [kind : {"exit"}, trade : Trades, of : Trades \cup {Nothing}]

LedgerTypeOK ==
    /\ now \in 1..MaxTime
    /\ opened \in [Trades -> 0..MaxTime] /\ shut \in [Trades -> 0..MaxTime]
    /\ dir \in [Trades -> Directions]
    /\ entries \in [Trades -> 0..2] /\ exits \in [Trades -> 0..2]
    /\ of \in [Trades -> Trades \cup {Nothing}]
    /\ torn \in BOOLEAN
    /\ queue \in Seq(Events) /\ Len(queue) <= 2 * Cardinality(Trades)
    /\ retry \in 0..Len(queue)
    /\ mem \in Trades \cup {Nothing, Stray}
    /\ pc \in {"down", "reconcile", "booking", "idle", "filled", "gone"}
    /\ todo \in [orphans : SUBSET Trades, list : SUBSET Trades, used : SUBSET (1..MaxTime)]
    /\ lost \subseteq Events /\ deaf \in BOOLEAN
    /\ button \in BOOLEAN /\ dropped \subseteq Trades
    /\ faults \in 0..MaxFaults /\ crashes \in 0..MaxCrashes

LedgerInit ==
    /\ now = 1
    /\ opened = [t \in Trades |-> 0] /\ shut = [t \in Trades |-> 0]
    /\ dir = [t \in Trades |-> "long"]
    /\ entries = [t \in Trades |-> 0] /\ exits = [t \in Trades |-> 0]
    /\ of = [t \in Trades |-> Nothing]
    /\ torn = FALSE
    /\ queue = <<>> /\ retry = 0
    /\ mem = Nothing /\ pc = "down" /\ todo = NoTodo
    /\ button = FALSE /\ dropped = {}
    /\ lost = {} /\ deaf = FALSE
    /\ faults = 0 /\ crashes = 0

Held == {t \in Trades : opened[t] > 0 /\ shut[t] = 0}
Closed == {t \in Trades : shut[t] > 0}
Fresh == {t \in Trades : opened[t] = 0}

Fault(k) ==
    /\ k \in FaultKinds /\ faults < MaxFaults
    /\ k \in {"fetch", "read"} \/ Mixed \/ crashes = 0
    /\ faults' = faults + 1

-----------------------------------------------------------------------------
(* TradesStore.record *)

\* all_events: what the file tells of a trade.
Unclosed(t) == entries[t] > 0 /\ exits[t] = 0

\* A line is appended.  After half a line it is unreadable, and nobody notices.
Appended(e) ==
    /\ IF torn THEN /\ lost' = lost \cup {e}
                    /\ UNCHANGED <<entries, exits, of>>
       ELSE /\ entries' = IF e.kind = "entry" THEN [entries EXCEPT ![e.trade] = @ + 1] ELSE entries
            /\ exits' = IF e.kind = "exit" THEN [exits EXCEPT ![e.trade] = @ + 1] ELSE exits
            /\ of' = IF e.kind = "exit" THEN [of EXCEPT ![e.trade] = e.of] ELSE of
            /\ UNCHANGED lost
    /\ torn' = FALSE

\* One of the three attempts writes half a line and a later one succeeds: the
\* event is reported written.
AppendedTorn(e) ==
    /\ Fault("torn")
    /\ lost' = lost \cup {e}
    /\ torn' = FALSE
    /\ UNCHANGED <<entries, exits, of>>

\* All three attempts fail; the last may have written half a line.
AppendFails ==
    /\ Fault("write")
    /\ torn' \in {torn, "torn" \in FaultKinds}
    /\ UNCHANGED <<entries, exits, of, lost>>

Written(e) == (Appended(e) /\ UNCHANGED faults) \/ AppendedTorn(e)

\* Mutant: an event that cannot be written is only logged.
RecordForgets(e) ==
    /\ Written(e) \/ AppendFails
    /\ retry' = Len(queue)
    /\ UNCHANGED queue

\* _record_trade: a written event makes the bot retry the ones that wait, one
\* that fails joins them.
Record(e) ==
    \/ /\ Written(e)
       /\ retry' = Len(queue)
       /\ UNCHANGED queue
    \/ /\ AppendFails
       /\ queue' = Append(queue, e)
       /\ UNCHANGED retry

\* _flush_failed_trades: the next waiting event; one that fails again stays.
FlushOne ==
    /\ retry > 0
    /\ LET e == queue[1] IN
       \/ Written(e) /\ queue' = Tail(queue)
       \/ AppendFails /\ queue' = Append(Tail(queue), e)
    /\ retry' = retry - 1
    /\ UNCHANGED <<world, mem, pc, todo, hands, deaf, crashes>>

\* The bot's coroutine is at l and no flush is under way.
At(l) == pc = l /\ retry = 0

-----------------------------------------------------------------------------
(* The position of the bot *)

\* The bot's order is filled; place_order returns.
Fill(t, d) ==
    /\ At("idle") /\ mem = Nothing /\ Held = {}
    /\ t \in Fresh /\ \A u \in Fresh : t <= u
    /\ \A u \in Trades \ Fresh : now >= opened[u] + Gap
    /\ opened' = [opened EXCEPT ![t] = now]
    /\ dir' = [dir EXCEPT ![t] = d]
    /\ pc' = "filled"
    /\ UNCHANGED <<now, shut, file, queue, retry, mem, todo, hands, lost, deaf, faults, crashes>>

\* _execute_setup books the entry and the position becomes active.
BookEntry ==
    /\ At("filled")
    /\ LET t == CHOOSE u \in Trades \ Fresh : \A v \in Trades \ Fresh : v <= u IN
       Record(Entry(t)) /\ mem' = t
    /\ pc' = "idle"
    /\ UNCHANGED <<world, todo, hands, deaf, crashes>>

Starting == pc \in {"reconcile", "booking"}

\* Stop, take profit, liquidation or a close by hand at the exchange.
ExchangeCloses(t) ==
    /\ t \in Held
    /\ QuietStart => ~Starting
    /\ shut' = [shut EXCEPT ![t] = now]
    /\ UNCHANGED <<now, opened, dir, file, bot, hands, lost, deaf, faults, crashes>>

\* _emergency_close, _maybe_flip: the bot's own order closes the position, and
\* the bot books it next (SyncBooks, with an estimate).
OwnClose(t) ==
    /\ At("idle") /\ mem # Nothing /\ t \in Held
    /\ shut' = [shut EXCEPT ![t] = now]
    /\ pc' = "gone"
    /\ UNCHANGED <<now, opened, dir, file, queue, retry, mem, todo, hands, lost, deaf, faults,
                   crashes>>

\* The close button: its order closes what the exchange holds, or the read
\* shows that nothing is held.
PressClose ==
    /\ crashes < MaxCrashes /\ ~button
    /\ Mixed \/ faults = 0
    /\ mem # Nothing
    /\ QuietStart => ~Starting
    /\ shut' = [t \in Trades |-> IF t \in Held THEN now ELSE shut[t]]
    /\ button' = TRUE /\ crashes' = crashes + 1
    /\ UNCHANGED <<now, opened, dir, file, bot, dropped, lost, deaf, faults>>

\* Its handler then sets active_position to None, whatever the loop has done
\* meanwhile, and records nothing; _emergency_close does the same when its read
\* shows nothing held.  A sync that asks for the close holds the position itself.
ButtonClears ==
    /\ button
    /\ button' = FALSE
    /\ IF pc = "gone" THEN UNCHANGED <<mem, dropped>>
       ELSE mem' = Nothing /\ dropped' = dropped \cup ({mem} \cap Trades)
    /\ UNCHANGED <<world, file, queue, retry, pc, todo, lost, deaf, faults, crashes>>

Tick ==
    /\ now < MaxTime
    /\ now' = now + 1
    /\ UNCHANGED <<opened, shut, dir, file, bot, hands, lost, deaf, faults, crashes>>

\* _sync_position_state finds no position and asks for the closed list.  (A read
\* that fails and looks like this is left to Manage and IctBot.)
SyncGone ==
    /\ At("idle") /\ mem # Nothing /\ Held = {}
    /\ pc' = "gone"
    /\ UNCHANGED <<world, file, queue, retry, mem, todo, hands, lost, deaf, faults, crashes>>

\* The closed list of the exchange from a time on.
ClosedSince(since) == {c \in Closed : shut[c] >= since}

\* Closed positions that may be the end of trade t.
Candidates(t, list, used) ==
    {c \in list : /\ dir[c] = dir[t]
                  /\ opened[c] \notin used
                  /\ opened[c] - opened[t] \in -Tol..Tol}

\* The list begins with the last close.
First(cs) == CHOOSE c \in cs : \A d \in cs : shut[d] <= shut[c]

\* Mutant: any close of the direction is taken for the trade's.
RecentCloseOfAny(t) ==
    LET found == {c \in ClosedSince(opened[t]) : dir[c] = dir[t]}
    IN IF found = {} THEN {Nothing} ELSE {Nothing, First(found)}

\* _fetch_recent_close: the first that fits, unless the list lags or cannot be read.
RecentCloseOf(t) ==
    LET found == Candidates(t, ClosedSince(opened[t]), {})
    IN IF found = {} THEN {Nothing} ELSE {Nothing, First(found)}

\* ... and books the close, with an estimate when the list does not show it; without
\* a setup the event belongs to no trade.
SyncBooks ==
    /\ At("gone")
    /\ IF mem = Stray THEN UNCHANGED <<file, queue, retry, lost, faults>>
       ELSE \E c \in RecentCloseOf(mem) : Record(Exit(mem, c))
    /\ mem' = Nothing
    /\ pc' = "idle"
    /\ UNCHANGED <<world, todo, hands, deaf, crashes>>

-----------------------------------------------------------------------------
(* Crash and start *)

\* The process dies, or the bot is stopped and its object dropped.
Crash ==
    /\ crashes < MaxCrashes
    /\ Mixed \/ (faults = 0 /\ (pc = "filled" => dropped = {}))
    /\ pc # "down"
    /\ crashes' = crashes + 1
    /\ pc' = "down" /\ mem' = Nothing /\ queue' = <<>> /\ retry' = 0 /\ todo' = NoTodo
    /\ button' = FALSE /\ dropped' = {}
    /\ UNCHANGED <<world, file, lost, deaf, faults>>

\* _recover_position_from_exchange: a held position is the latest unclosed
\* ENTRY of its direction when their prices agree.
Recovers ==
    IF Held = {} THEN mem' = Nothing
    ELSE \E t \in Held :
         LET own == {u \in Trades : Unclosed(u) /\ dir[u] = dir[t]}
             last == {u \in own : \A v \in own : opened[v] <= opened[u]}
         IN mem' \in last \cup (IF t \in last THEN {} ELSE {Stray})

\* A start whose read of the position fails goes on without it.
Start ==
    /\ pc = "down"
    /\ \/ Recovers /\ UNCHANGED <<dropped, faults>>
       \/ Fault("read") /\ mem' = Nothing /\ dropped' = Held
    /\ pc' = "reconcile"
    /\ UNCHANGED <<world, file, queue, retry, todo, button, lost, deaf, crashes>>

\* _reconcile_orphan_entries: a failed read looks like an empty list.
Reconcile ==
    /\ At("reconcile")
    /\ LET orphans == {t \in Trades : Unclosed(t)}
       IN IF orphans = {} THEN pc' = "idle" /\ UNCHANGED <<todo, deaf, faults>>
          ELSE \/ \E t \in orphans :
                     /\ \A u \in orphans : opened[t] <= opened[u]
                     /\ todo' = [orphans |-> orphans, list |-> ClosedSince(opened[t]), used |-> {}]
                     /\ pc' = "booking" /\ deaf' = FALSE /\ UNCHANGED faults
               \/ /\ Fault("fetch")
                  /\ pc' = "idle" /\ deaf' = TRUE /\ UNCHANGED todo
    /\ UNCHANGED <<world, file, queue, retry, mem, hands, lost, crashes>>

\* The orphans in the order of the file, each with one unused closed position.
ReconcileBooks ==
    /\ At("booking")
    /\ IF todo.orphans = {}
       THEN pc' = "idle" /\ todo' = NoTodo /\ UNCHANGED <<file, queue, retry, lost, faults>>
       ELSE \E t \in todo.orphans :
            LET found == Candidates(t, todo.list, todo.used)
                rest == [todo EXCEPT !.orphans = @ \ {t}]
            IN /\ \A u \in todo.orphans : t <= u
               /\ IF found = {}
                  THEN todo' = rest /\ UNCHANGED <<file, queue, retry, lost, faults>>
                  ELSE /\ Record(Exit(t, First(found)))
                       /\ todo' = [rest EXCEPT !.used = @ \cup {opened[First(found)]}]
               /\ UNCHANGED pc
    /\ UNCHANGED <<world, mem, hands, deaf, crashes>>

-----------------------------------------------------------------------------

Exchange == Tick \/ (\E t \in Trades : ExchangeCloses(t))
            \/ \E t \in Trades, d \in Directions : Fill(t, d)

Hands == PressClose \/ ButtonClears

OwnCloses == \E t \in Trades : OwnClose(t)

BotRuns == BookEntry \/ SyncGone \/ SyncBooks \/ FlushOne
           \/ Start \/ Reconcile \/ ReconcileBooks

LedgerNext == Exchange \/ Hands \/ OwnCloses \/ BotRuns \/ Crash

-----------------------------------------------------------------------------
(* Properties *)

\* The promise of the records, with the lines that can be read as the book:
\* through write failures, retries out of order, crashes and reconciliation
\* every entry and every exit is booked at most once and only when it happened.
Book == INSTANCE TradeBook WITH
            filled <- Trades \ Fresh,
            over <- Closed,
            result <- of
KeepsBook == Book!Spec

\* A trade that is booked as entered and that the exchange has closed is booked
\* as exited, unless the event waits in memory, its line was torn, a start could
\* not read the closed list, or this life of the bot has forgotten the trade: the
\* close button records nothing, and a start whose read fails does not know it.
\* What one life forgot, the start of the next one books.
ExitOf(t, es) == \E e \in es : e.kind = "exit" /\ e.trade = t
Waiting(t) == ExitOf(t, {queue[i] : i \in 1..Len(queue)})
ExitBooked ==
    \A t \in Trades :
        (entries[t] > 0 /\ shut[t] > 0)
            ~> (exits[t] > 0 \/ Waiting(t) \/ deaf \/ ExitOf(t, lost) \/ t \in dropped)

\* A trade booked as exited is not held any more: "the ENTRY of the position
\* that is open now is not in closed-pnl and is excluded by itself"
\* (_reconcile_orphan_entries).
ExitIsReal == \A t \in Trades : exits[t] > 0 => shut[t] > 0
=============================================================================
