-------------------------------- MODULE Candles --------------------------------
(***************************************************************************)
(* The bars of one symbol and timeframe that all bots share                *)
(* (bot/shared_ohlcv_cache.py and the coroutines of BotIctInstance that    *)
(* fill it): each bot's prefetch, the first look of a chart, the full      *)
(* history fetched behind it and the refresh of every later look, under    *)
(* one lock.  A bar is its number.                                         *)
(***************************************************************************)
EXTENDS Integers, FiniteSets, FiniteSetsExt

CONSTANTS
    Sharers,    \* the bots
    Depth,      \* _UI_OHLCV_TF_LIMITS of the timeframe
    RefreshTail,    \* _UI_OHLCV_REFRESH_TAIL, and the first look of a chart
    LastBar     \* bound: bars of a behaviour

ASSUME CandlesAssumption ==
    /\ {Depth, RefreshTail, LastBar} \subseteq Nat \ {0} /\ RefreshTail <= Depth
    /\ IsFiniteSet(Sharers)

VARIABLES
    newest,    \* the newest bar of the exchange
    cache,     \* SharedOhlcvCache: the bars kept, {} when there is no entry
    lock,      \* the task that holds the lock
    task,      \* per task: "off", "waits" (not yet past the lock) or "fetches"
    answer     \* the rows on their way to a task

candles == <<newest, cache, lock, task, answer>>

Kinds == {"prefetch", "look", "history", "refresh"}
Tasks == Kinds \X Sharers
Free == <<"free", "">>
Bars == 1..LastBar

CandlesTypeOK ==
    /\ newest \in Bars /\ cache \subseteq Bars /\ lock \in Tasks \cup {Free}
    /\ task \in [Tasks -> {"off", "waits", "fetches"}]
    /\ answer \in [Tasks -> SUBSET Bars]

CandlesInit ==
    /\ newest = 1 /\ cache = {} /\ lock = Free
    /\ task = [t \in Tasks |-> "off"] /\ answer = [t \in Tasks |-> {}]

NewestBars(n) == {b \in Bars : b <= newest /\ b > newest - n}

BarEnds ==
    /\ newest < LastBar /\ newest' = newest + 1
    /\ UNCHANGED <<cache, lock, task, answer>>

-----------------------------------------------------------------------------
(* The tasks. *)

Scheduled(t) == task' = [task EXCEPT ![t] = "waits"]

\* ensure_prefetch_started: not while the bot's last one is under way.
Prefetches(b) ==
    /\ task[<<"prefetch", b>>] = "off" /\ Scheduled(<<"prefetch", b>>)
    /\ UNCHANGED <<newest, cache, lock, answer>>

\* stop: the prefetch is cancelled, wherever it is; other tasks live on.
BotStops(b) ==
    LET t == <<"prefetch", b>>
    IN  /\ task[t] # "off" /\ task' = [task EXCEPT ![t] = "off"]
        /\ lock' = IF lock = t THEN Free ELSE lock
        /\ answer' = [answer EXCEPT ![t] = {}]
        /\ UNCHANGED <<newest, cache>>

\* get_ohlcv_cached: a chart is given what there is and a refresh is scheduled, or it
\* waits for the lock.
Looks(b) ==
    /\ LET t == <<IF cache = {} THEN "look" ELSE "refresh", b>>
       IN task[t] = "off" /\ Scheduled(t)
    /\ UNCHANGED <<newest, cache, lock, answer>>

\* A task that finds the cache filled while it waited has nothing to do.
FindsIt(t) ==
    /\ task[t] = "waits" /\ lock = Free /\ cache # {} /\ t[1] \in {"prefetch", "look"}
    /\ task' = [task EXCEPT ![t] = "off"]
    /\ UNCHANGED <<newest, cache, lock, answer>>

Wanted(kind) == IF kind \in {"prefetch", "history"} THEN Depth ELSE RefreshTail

\* Past the lock the exchange is asked; it answers with its newest bars.
Asks(t) ==
    /\ task[t] = "waits" /\ (cache = {} \/ t[1] \in {"history", "refresh"})
    /\ task' = [task EXCEPT ![t] = "fetches"]
    /\ answer' = [answer EXCEPT ![t] = NewestBars(Wanted(t[1]))]
    /\ UNCHANGED <<newest, cache>>

\* Mutant: _refresh_ohlcv_cache_recent does without the lock.
FetchesUnlocked(t) ==
    /\ Asks(t)
    /\ IF t[1] = "refresh" THEN UNCHANGED lock ELSE (lock = Free /\ lock' = t)

Fetches(t) ==
    /\ Asks(t)
    /\ lock = Free /\ lock' = t

\* A refresh that finds the lock taken leaves it to the others.
LeavesIt(t) ==
    /\ task[t] = "waits" /\ lock # Free /\ t[1] = "refresh"
    /\ task' = [task EXCEPT ![t] = "off"]
    /\ UNCHANGED <<newest, cache, lock, answer>>

\* The answer takes the place of what was kept; a refresh adds its bars to it.  The
\* first look of a chart has the full history fetched behind it.
Stores(t) ==
    /\ task[t] = "fetches"
    /\ cache' = IF t[1] = "refresh" THEN cache \cup answer[t] ELSE answer[t]
    /\ task' = [u \in Tasks |-> IF u = t THEN "off"
                                ELSE IF t[1] = "look" /\ u = <<"history", t[2]>> THEN "waits"
                                ELSE task[u]]
    /\ lock' = IF lock = t THEN Free ELSE lock
    /\ answer' = [answer EXCEPT ![t] = {}]
    /\ UNCHANGED newest

\* The call fails: nothing is stored and nobody tries again.
Fails(t) ==
    /\ task[t] = "fetches"
    /\ task' = [task EXCEPT ![t] = "off"]
    /\ lock' = IF lock = t THEN Free ELSE lock
    /\ answer' = [answer EXCEPT ![t] = {}]
    /\ UNCHANGED <<newest, cache>>

CandlesNext ==
    \/ BarEnds
    \/ \E b \in Sharers : Prefetches(b) \/ BotStops(b) \/ Looks(b)
    \/ \E t \in Tasks : FindsIt(t) \/ Fetches(t) \/ LeavesIt(t) \/ Stores(t) \/ Fails(t)

-----------------------------------------------------------------------------

\* A bar that bots have been given is not taken from them while it is among the Depth
\* newest: fetches that started earlier, of other bots and of other depths, never put
\* older bars in the place of newer ones ("rows are only replaced", shared_ohlcv_cache.py).
KeepsBars == [][\A b \in cache : b > newest - Depth => b \in cache']_candles
=============================================================================
