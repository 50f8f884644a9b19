------------------------------- MODULE IctBot -------------------------------
(***************************************************************************)
(* The position lifecycle of one BotIctInstance.  asyncio runs one task at *)
(* a time and switches only where a coroutine awaits, so an action is the  *)
(* code between two awaits.  A task waits at pc[t]; if that is a call to   *)
(* the exchange, a Serve action decides the answer (resp, seen) and the    *)
(* next action of the task continues with it, however stale it has become. *)
(*                                                                         *)
(* "loop" is start() followed by the step loop it creates.  "api" is one   *)
(* HTTP request at a time that touches the bot: an admin or model-switch   *)
(* close, the user's close button, cancelling a pending entry, stop.       *)
(***************************************************************************)
EXTENDS Venue

CONSTANTS
    NoSetup,        \* "no setup": no pending entry, or an unknown origin
    ApiRequests     \* which HTTP requests this instance makes

AllRequests == {"emergency", "uiClose", "cancel", "stop"}

ASSUME BotAssumption ==
    /\ NoSetup \notin Lots
    /\ ApiRequests \subseteq AllRequests

VARIABLES
    active,          \* active_position: direction, setup, has a stop price
    pending,         \* _pending_entry, by its setup
    recoveryFailed,  \* _recovery_failed
    cur,             \* the setup the loop is executing or promoting
    declined,        \* _declined_manual_sig: the position last taken for the user's
    tried,           \* bound: every setup is executed at most once
    entered,         \* setups with an ENTRY event in the trades store
    closes,          \* how many closing events each setup has
    pc, resp, seen,  \* per task: where it waits, the answer, the position read
    held,            \* per task: its local reference to active_position
    ret              \* per task: where a shared subroutine returns to

memory == <<active, pending, recoveryFailed, cur>>
ledger == <<entered, closes>>
control == <<pc, resp, seen, held, ret>>
vars == <<pos, orders, closed, faults, userTrades, active, pending,
          recoveryFailed, cur, declined, tried, entered, closes, pc, resp, seen, held, ret>>

Tasks == {"loop", "api"}

NoPosition == [dir |-> "none", setup |-> NoSetup, sl |-> FALSE]

Holdings == [dir : Directions \cup {"none"}, setup : Setups \cup {NoSetup}, sl : BOOLEAN]

FetchAt  == {"recFetch", "pendFetch", "execFetch", "fillFetch", "syncFetch",
             "emFetch", "uiFetch"}
CancelAt == {"startCancel", "ttlCancel", "userCancel", "stopCancel"}
ReduceAt == {"emClose", "uiClose", "flip1", "flip2"}
SetStopAt == {"protect1", "protect2", "rearm"}
\* awaits whose answer the model does not look at
PlainAt  == {"off", "sleep", "market", "closedPnl", "orphans"}

Labels == FetchAt \cup CancelAt \cup ReduceAt \cup SetStopAt \cup PlainAt \cup {"entry"}

\* where a request waits, and where the loop works on the setup in cur
ApiLabels == {"off", "emFetch", "emClose", "uiFetch", "uiClose", "userCancel", "stopCancel"}
EntryLabels == {"execFetch", "entry", "fillFetch", "pendFetch"}

\* What _pos_sig keeps of a position; that of Flat stands for None.
Signature(p) == <<p.dir, p.lots>>

Signatures == (Directions \cup {"none"}) \X SUBSET Lots

ReturnPoints == {"recovered", "market", "sleep", "off"}

TypeOK ==
    /\ VenueTypeOK
    /\ active \in Holdings
    /\ pending \in Setups \cup {NoSetup}
    /\ recoveryFailed \in BOOLEAN
    /\ cur \in Setups \cup {NoSetup}
    /\ declined \in Signatures
    /\ tried \subseteq Setups
    /\ entered \subseteq Setups
    /\ closes \in [Setups -> Nat]
    /\ pc \in [Tasks -> Labels]
    /\ pc["api"] \in ApiLabels
    /\ pc["loop"] \in EntryLabels => cur # NoSetup
    /\ resp \in [Tasks -> {"wait", "ok", "fail"}]
    /\ seen \in [Tasks -> Positions]
    /\ held \in [Tasks -> Holdings]
    /\ ret \in [Tasks -> ReturnPoints]
    /\ ret["api"] = "off"

Init ==
    /\ VenueInit
    /\ active = NoPosition
    /\ pending = NoSetup
    /\ recoveryFailed = FALSE
    /\ cur = NoSetup
    /\ declined = Signature(Flat)
    /\ tried = {}
    /\ entered = {}
    /\ closes = [s \in Setups |-> 0]
    /\ pc = [t \in Tasks |-> "off"]
    /\ resp = [t \in Tasks |-> "wait"]
    /\ seen = [t \in Tasks |-> Flat]
    /\ held = [t \in Tasks |-> NoPosition]
    /\ ret = [t \in Tasks |-> "off"]

-----------------------------------------------------------------------------
(* Tasks, awaits and answers *)

\* Task t suspends at l.
Await(t, l) ==
    /\ pc' = [pc EXCEPT ![t] = l]
    /\ resp' = [resp EXCEPT ![t] = "wait"]

\* The call of task t at l has been answered with a.
Answered(t, l, a) == pc[t] = l /\ resp[t] = a

\* The exchange answers task t.
Reply(t, a) ==
    /\ resp[t] = "wait"
    /\ resp' = [resp EXCEPT ![t] = a]
    /\ UNCHANGED <<memory, declined, tried, ledger, pc, held, ret>>

\* The direction a closing order of task t is meant for: what the exchange
\* reported when it reported a position, else what the bot believes.
CloseDir(t) ==
    IF pc[t] \in {"flip1", "flip2"} \/ seen[t] = Flat THEN held[t].dir
    ELSE seen[t].dir

Serve(t) == \E a \in {"ok", "fail"} :
    /\ Reply(t, a)
    /\ \/ /\ pc[t] \in FetchAt
          /\ \E view \in {pos, Flat} :
                /\ FetchPosition(a, view)
                /\ seen' = [seen EXCEPT ![t] = view]
       \/ /\ UNCHANGED seen
          /\ \/ pc[t] \in CancelAt /\ a = "ok" /\ CancelBotOrders
             \/ pc[t] = "entry" /\ PlaceEntry(cur, a)
             \/ pc[t] \in ReduceAt /\ ReduceOnly(CloseDir(t), a)
             \/ pc[t] \in SetStopAt /\ SetStop(held[t].dir, a)

-----------------------------------------------------------------------------
(* Events in the trades store *)

RecordEntry(s) == entered' = entered \cup {s} /\ UNCHANGED closes

RecordCloseOf(S) ==
    /\ closes' = [s \in Setups |-> IF s \in S THEN closes[s] + 1 ELSE closes[s]]
    /\ UNCHANGED entered

\* ENTRY events with no closing event.
Unclosed == {s \in entered : closes[s] = 0}

-----------------------------------------------------------------------------
(* _ensure_protective_sl and _emergency_close, shared by both tasks *)

\* Mutant: the startup sweep is forgotten.
ReturnUnswept(t, stillOn) ==
    /\ Await(t, IF ret[t] # "recovered" THEN ret[t] ELSE "orphans")
    /\ pending' = IF ret[t] = "market" THEN NoSetup ELSE pending

\* Return from the subroutine; stillOn says whether a position is held then.
Return(t, stillOn) ==
    /\ Await(t, IF ret[t] # "recovered" THEN ret[t]
                ELSE IF stillOn THEN "orphans" ELSE "startCancel")
    /\ pending' = IF ret[t] = "market" THEN NoSetup ELSE pending

\* Start protecting the position p the loop has just taken into memory.
Protect(p, back) ==
    /\ Await("loop", "protect1")
    /\ held' = [held EXCEPT !["loop"] = p]
    /\ ret' = [ret EXCEPT !["loop"] = back]

\* One of the two set_position_tpsl calls was accepted.  The price goes into
\* the position object, which is no longer active_position if a request has
\* erased that meanwhile.
ProtectAccepted ==
    /\ \E l \in {"protect1", "protect2"} : Answered("loop", l, "ok")
    /\ \/ /\ active # NoPosition
          /\ active' = [active EXCEPT !.sl = TRUE]
          /\ Return("loop", TRUE)
       \/ /\ active = NoPosition /\ ret["loop"] # "market"
          /\ UNCHANGED active
          /\ Return("loop", FALSE)
       \/ \* _check_pending_entry dereferences None: the step ends, pending stays
          /\ active = NoPosition /\ ret["loop"] = "market"
          /\ Await("loop", "sleep")
          /\ UNCHANGED <<active, pending>>
    /\ UNCHANGED <<venueVars, recoveryFailed, cur, declined, tried, ledger, seen, held,
        ret>>

ProtectRetry ==
    /\ Answered("loop", "protect1", "fail")
    /\ Await("loop", "protect2")
    /\ UNCHANGED <<venueVars, memory, declined, tried, ledger, seen, held, ret>>

\* Refused twice: no position may stay without a stop, so it is closed.
ProtectGivesUp ==
    /\ Answered("loop", "protect2", "fail")
    /\ IF active = NoPosition
       THEN Return("loop", FALSE) /\ UNCHANGED held
       ELSE /\ Await("loop", "emFetch")
            /\ held' = [held EXCEPT !["loop"] = active]
            /\ UNCHANGED pending
    /\ UNCHANGED <<venueVars, active, recoveryFailed, cur, declined, tried, ledger, seen,
        ret>>

\* _emergency_close has asked the exchange for the real direction; a failed
\* read falls back on the bot's own (seen is Flat then).
EmergencyFetched(t) ==
    /\ \E a \in {"ok", "fail"} : Answered(t, "emFetch", a)
    /\ Await(t, "emClose")
    /\ UNCHANGED <<venueVars, memory, declined, tried, ledger, seen, held, ret>>

EmergencyClosed(t) ==
    /\ Answered(t, "emClose", "ok")
    /\ RecordCloseOf({held[t].setup})
    /\ active' = NoPosition
    /\ Return(t, FALSE)
    /\ UNCHANGED <<venueVars, recoveryFailed, cur, declined, tried, seen, held, ret>>

\* A mistake: a refused close is booked as a close.
EmergencyRefusedBooked(t) ==
    /\ Answered(t, "emClose", "fail")
    /\ RecordCloseOf({held[t].setup})
    /\ active' = NoPosition
    /\ Return(t, FALSE)
    /\ UNCHANGED <<venueVars, recoveryFailed, cur, declined, tried, seen, held, ret>>

\* The close was refused: the position is kept for the next sync.
EmergencyRefused(t) ==
    /\ Answered(t, "emClose", "fail")
    /\ Return(t, active # NoPosition)
    /\ UNCHANGED <<venueVars, active, recoveryFailed, cur, declined, tried, ledger, seen,
        held, ret>>

-----------------------------------------------------------------------------
(* start() and _recover_position_from_exchange *)

Start ==
    /\ pc["loop"] = "off"
    /\ Await("loop", "recFetch")
    /\ ret' = [ret EXCEPT !["loop"] = "recovered"]
    /\ UNCHANGED <<venueVars, memory, declined, tried, ledger, seen, held>>

Starting == pc["loop"] # "off" /\ ret["loop"] = "recovered"

RecoverFailed ==
    /\ Answered("loop", "recFetch", "fail")
    /\ recoveryFailed' = TRUE
    /\ Return("loop", active # NoPosition)
    /\ UNCHANGED <<venueVars, active, cur, declined, tried, ledger, seen, held, ret>>

\* An open ENTRY of this direction whose price the position matches.
RecordMatch(p) == {s \in Unclosed \cap p.lots : DirOf[s] = p.dir}

\* The order history holds a filled, tagged order for all of the quantity.
TagMatch(p) == \E s \in Setups : p.lots = {s}

\* Nothing to adopt: no position, or a position that is not the bot's.  The
\* tag query may fail, which counts as "not the bot's".  The position is then
\* remembered, so that sync does not ask about it again.
RecoverNothing ==
    /\ Answered("loop", "recFetch", "ok")
    /\ LET p == seen["loop"] IN
       /\ declined' = IF p = Flat THEN declined ELSE Signature(p)
       /\ \/ (p = Flat \/ (RecordMatch(p) = {} /\ ~TagMatch(p))) /\ UNCHANGED faults
          \/ p # Flat /\ RecordMatch(p) = {} /\ TagMatch(p) /\ Fault("net")
    /\ recoveryFailed' = FALSE
    /\ Return("loop", active # NoPosition)
    /\ UNCHANGED <<pos, orders, closed, userTrades, active, cur, tried, ledger, seen, held,
        ret>>

\* The setup of an adopted position is known only from the trades store.
Adopted(p) ==
    {[dir |-> p.dir, setup |-> s, sl |-> p.sl] :
        s \in IF RecordMatch(p) # {} THEN RecordMatch(p) ELSE {NoSetup}}

RecoverAdopts ==
    /\ Answered("loop", "recFetch", "ok")
    /\ LET p == seen["loop"] IN
       /\ p # Flat
       /\ RecordMatch(p) # {} \/ TagMatch(p)
       /\ \E h \in Adopted(p) :
             /\ active' = h
             /\ IF p.sl
                THEN Return("loop", TRUE) /\ UNCHANGED <<held, ret>>
                ELSE Protect(h, ret["loop"]) /\ UNCHANGED pending
    /\ recoveryFailed' = FALSE
    /\ declined' = Signature(Flat)
    /\ UNCHANGED <<venueVars, cur, tried, ledger, seen>>

\* Startup sweep of the orders a previous life left behind.
StartSwept ==
    /\ Answered("loop", "startCancel", "ok")
    /\ Await("loop", "orphans")
    /\ UNCHANGED <<venueVars, memory, declined, tried, ledger, seen, held, ret>>

\* _reconcile_orphan_entries, then the bot runs.  A failed closed-pnl read is
\* an empty list.
StartFinished ==
    /\ pc["loop"] = "orphans"
    /\ \/ RecordCloseOf(Unclosed \cap closed) /\ UNCHANGED faults
       \/ UNCHANGED ledger /\ Fault("net")
    /\ Await("loop", "sleep")
    /\ ret' = [ret EXCEPT !["loop"] = "sleep"]
    /\ UNCHANGED <<pos, orders, closed, userTrades, memory, declined, tried, seen, held>>

-----------------------------------------------------------------------------
(* step(): a pending entry *)

StepBegin ==
    /\ pc["loop"] = "sleep"
    /\ IF pending # NoSetup
       THEN Await("loop", "pendFetch") /\ cur' = pending
       ELSE Await("loop", "market") /\ UNCHANGED cur
    /\ UNCHANGED <<venueVars, active, pending, recoveryFailed, declined, tried, ledger,
        seen, held, ret>>

\* Not known or not filled, and not expired: keep waiting.
PendingWaits ==
    /\ \/ Answered("loop", "pendFetch", "fail")
       \/ Answered("loop", "pendFetch", "ok") /\ seen["loop"] = Flat
    /\ Await("loop", "sleep")
    /\ UNCHANGED <<venueVars, memory, declined, tried, ledger, seen, held, ret>>

\* Not filled and older than entry_limit_ttl_sec.
PendingExpires ==
    /\ Answered("loop", "pendFetch", "ok")
    /\ seen["loop"] = Flat
    /\ Await("loop", "ttlCancel")
    /\ UNCHANGED <<venueVars, memory, declined, tried, ledger, seen, held, ret>>

\* A mistake: the expired entry is not forgotten.
PendingCancelledKept ==
    /\ Answered("loop", "ttlCancel", "ok")
    /\ Await("loop", "market")
    /\ UNCHANGED <<venueVars, memory, declined, tried, ledger, seen, held, ret>>

PendingCancelled ==
    /\ Answered("loop", "ttlCancel", "ok")
    /\ pending' = NoSetup
    /\ Await("loop", "market")
    /\ UNCHANGED <<venueVars, active, recoveryFailed, cur, declined, tried, ledger, seen,
        held, ret>>

\* Take the filled setup s into memory, record it and protect it.
Enter(s, back) ==
    LET p == [dir |-> DirOf[s], setup |-> s, sl |-> TRUE] IN
    /\ active' = p
    /\ RecordEntry(s)
    /\ Protect(p, back)

\* The symbol has a position: the entry counts as filled.
PendingFilled ==
    /\ Answered("loop", "pendFetch", "ok")
    /\ seen["loop"] # Flat
    /\ Enter(cur, "market")
    /\ UNCHANGED <<venueVars, pending, recoveryFailed, cur, declined, tried, seen>>

-----------------------------------------------------------------------------
(* step() without a position: _execute_setup *)

\* No setup in this step.
NoSignal ==
    /\ pc["loop"] = "market"
    /\ active = NoPosition
    /\ Await("loop", "sleep")
    /\ UNCHANGED <<venueVars, memory, declined, tried, ledger, seen, held, ret>>

\* A new setup passes every gate of step(); executing starts by reading the
\* position.
Signal(s) ==
    /\ pc["loop"] = "market"
    /\ active = NoPosition
    /\ ~recoveryFailed
    /\ s \notin tried
    /\ tried' = tried \cup {s}
    /\ cur' = s
    /\ Await("loop", "execFetch")
    /\ UNCHANGED <<venueVars, declined, active, pending, recoveryFailed, ledger, seen,
        held, ret>>

\* Rejected: a position exists or may exist, or a limit, the quantity or the
\* margin forbids the entry.
ExecuteSkips ==
    /\ \E a \in {"ok", "fail"} : Answered("loop", "execFetch", a)
    /\ Await("loop", "sleep")
    /\ UNCHANGED <<venueVars, memory, declined, tried, ledger, seen, held, ret>>

ExecuteOrders ==
    /\ Answered("loop", "execFetch", "ok")
    /\ seen["loop"] = Flat
    /\ Await("loop", "entry")
    /\ UNCHANGED <<venueVars, memory, declined, tried, ledger, seen, held, ret>>

OrderRefused ==
    /\ Answered("loop", "entry", "fail")
    /\ Await("loop", "sleep")
    /\ UNCHANGED <<venueVars, memory, declined, tried, ledger, seen, held, ret>>

\* The adapter asks for the position to learn whether the order has filled.
OrderPlaced ==
    /\ Answered("loop", "entry", "ok")
    /\ Await("loop", "fillFetch")
    /\ UNCHANGED <<venueVars, memory, declined, tried, ledger, seen, held, ret>>

OrderRests ==
    /\ \/ Answered("loop", "fillFetch", "fail")
       \/ Answered("loop", "fillFetch", "ok") /\ seen["loop"] = Flat
    /\ pending' = cur
    /\ Await("loop", "sleep")
    /\ UNCHANGED <<venueVars, active, recoveryFailed, cur, declined, tried, ledger, seen,
        held, ret>>

\* A mistake: an accepted order counts as a filled one.
OrderFilledBlind ==
    /\ Answered("loop", "fillFetch", "ok")
    /\ Enter(cur, "sleep")
    /\ UNCHANGED <<venueVars, pending, recoveryFailed, cur, declined, tried, seen>>

OrderFilled ==
    /\ Answered("loop", "fillFetch", "ok")
    /\ seen["loop"] # Flat
    /\ Enter(cur, "sleep")
    /\ UNCHANGED <<venueVars, pending, recoveryFailed, cur, declined, tried, seen>>

-----------------------------------------------------------------------------
(* step() with a position: flip close and _sync_position_state *)

ManagePosition ==
    /\ pc["loop"] = "market"
    /\ active # NoPosition
    /\ Await("loop", "syncFetch")
    /\ UNCHANGED <<venueVars, memory, declined, tried, ledger, seen, held, ret>>

\* The price is inside the opposite higher-timeframe gap: close, no reversal.
FlipBegins ==
    /\ pc["loop"] = "market"
    /\ active # NoPosition
    /\ held' = [held EXCEPT !["loop"] = active]
    /\ Await("loop", "flip1")
    /\ UNCHANGED <<venueVars, memory, declined, tried, ledger, seen, ret>>

FlipClosed ==
    /\ \E l \in {"flip1", "flip2"} : Answered("loop", l, "ok")
    /\ RecordCloseOf({held["loop"].setup})
    /\ active' = NoPosition
    /\ Await("loop", "syncFetch")
    /\ UNCHANGED <<venueVars, pending, recoveryFailed, cur, declined, tried, seen, held,
        ret>>

FlipRetries ==
    /\ Answered("loop", "flip1", "fail")
    /\ Await("loop", "flip2")
    /\ UNCHANGED <<venueVars, memory, declined, tried, ledger, seen, held, ret>>

\* Both attempts failed: an alarm without a setup is recorded, sync follows.
FlipGivesUp ==
    /\ Answered("loop", "flip2", "fail")
    /\ Await("loop", "syncFetch")
    /\ UNCHANGED <<venueVars, memory, declined, tried, ledger, seen, held, ret>>

SyncUnknown ==
    /\ Answered("loop", "syncFetch", "fail")
    /\ Await("loop", "sleep")
    /\ UNCHANGED <<venueVars, memory, declined, tried, ledger, seen, held, ret>>

\* A successful read always clears _recovery_failed, and "no position" forgets
\* the declined one.
SyncRead ==
    /\ Answered("loop", "syncFetch", "ok")
    /\ recoveryFailed' = FALSE
    /\ declined' = IF seen["loop"] = Flat THEN Signature(Flat) ELSE declined

\* A position the bot does not know, has not declined, and waits for no entry
\* to become: try to adopt it.
SyncAdopts ==
    /\ SyncRead
    /\ seen["loop"] # Flat /\ active = NoPosition /\ pending = NoSetup
    /\ Signature(seen["loop"]) # declined
    /\ Await("loop", "recFetch")
    /\ ret' = [ret EXCEPT !["loop"] = "sleep"]
    /\ UNCHANGED <<venueVars, active, pending, cur, tried, ledger, seen, held>>

\* The wrong direction, or a lost stop the price has already passed.
SyncEmergency ==
    /\ SyncRead
    /\ seen["loop"] # Flat /\ active # NoPosition
    /\ \/ seen["loop"].dir # active.dir
       \/ active.sl /\ ~seen["loop"].sl
    /\ held' = [held EXCEPT !["loop"] = active]
    /\ ret' = [ret EXCEPT !["loop"] = "sleep"]
    /\ Await("loop", "emFetch")
    /\ UNCHANGED <<venueVars, active, pending, cur, tried, ledger, seen>>

\* The exchange has no stop although the bot remembers one: put it back.
SyncRearms ==
    /\ SyncRead
    /\ seen["loop"].dir = active.dir /\ active # NoPosition
    /\ active.sl /\ ~seen["loop"].sl
    /\ held' = [held EXCEPT !["loop"] = active]
    /\ Await("loop", "rearm")
    /\ UNCHANGED <<venueVars, active, pending, cur, tried, ledger, seen, ret>>

RearmDone ==
    /\ \E a \in {"ok", "fail"} : Answered("loop", "rearm", a)
    /\ Await("loop", "sleep")
    /\ UNCHANGED <<venueVars, memory, declined, tried, ledger, seen, held, ret>>

\* A mistake: the stop at the exchange is not verified.
SyncAgreesBlind ==
    /\ SyncRead
    /\ \/ seen["loop"] = Flat /\ active = NoPosition
       \/ seen["loop"] # Flat /\ active = NoPosition /\ pending # NoSetup
       \/ /\ seen["loop"] # Flat /\ active = NoPosition
          /\ Signature(seen["loop"]) = declined
       \/ seen["loop"].dir = active.dir /\ active # NoPosition
    /\ Await("loop", "sleep")
    /\ UNCHANGED <<venueVars, active, pending, cur, tried, ledger, seen, held, ret>>

\* Nothing to repair: both flat, or the position is as remembered.
SyncAgrees ==
    /\ SyncRead
    /\ \/ seen["loop"] = Flat /\ active = NoPosition
       \/ seen["loop"] # Flat /\ active = NoPosition /\ pending # NoSetup
       \/ /\ seen["loop"] # Flat /\ active = NoPosition
          /\ Signature(seen["loop"]) = declined
       \/ /\ seen["loop"].dir = active.dir /\ active # NoPosition
          /\ active.sl => seen["loop"].sl
    /\ Await("loop", "sleep")
    /\ UNCHANGED <<venueVars, active, pending, cur, tried, ledger, seen, held, ret>>

\* The exchange reports no position: ask closed-pnl what became of it.
SyncGone ==
    /\ SyncRead
    /\ seen["loop"] = Flat /\ active # NoPosition
    /\ held' = [held EXCEPT !["loop"] = active]
    /\ Await("loop", "closedPnl")
    /\ UNCHANGED <<venueVars, active, pending, cur, tried, ledger, seen, ret>>

SyncRecordsClose ==
    /\ pc["loop"] = "closedPnl"
    /\ RecordCloseOf({held["loop"].setup})
    /\ active' = NoPosition
    /\ Await("loop", "sleep")
    /\ UNCHANGED <<venueVars, pending, recoveryFailed, cur, declined, tried, seen, held,
        ret>>

-----------------------------------------------------------------------------
(* HTTP requests that touch the bot while the loop runs *)

Idle(request) ==
    /\ request \in ApiRequests
    /\ pc["api"] = "off"
    /\ pc["loop"] # "off"

\* Admin close, or a model switch that closes the position.
RequestEmergency ==
    /\ Idle("emergency")
    /\ active # NoPosition
    /\ held' = [held EXCEPT !["api"] = active]
    /\ Await("api", "emFetch")
    /\ UNCHANGED <<venueVars, memory, declined, tried, ledger, seen, ret>>

\* The close button: like _emergency_close, but nothing is recorded.
RequestUiClose ==
    /\ Idle("uiClose")
    /\ active # NoPosition
    /\ held' = [held EXCEPT !["api"] = active]
    /\ Await("api", "uiFetch")
    /\ UNCHANGED <<venueVars, memory, declined, tried, ledger, seen, ret>>

UiFetched ==
    /\ \E a \in {"ok", "fail"} : Answered("api", "uiFetch", a)
    /\ Await("api", "uiClose")
    /\ UNCHANGED <<venueVars, memory, declined, tried, ledger, seen, held, ret>>

UiDone ==
    /\ \/ Answered("api", "uiClose", "ok") /\ active' = NoPosition
       \/ Answered("api", "uiClose", "fail") /\ UNCHANGED active
    /\ Await("api", "off")
    /\ UNCHANGED <<venueVars, pending, recoveryFailed, cur, declined, tried, ledger, seen,
        held, ret>>

RequestCancel ==
    /\ Idle("cancel")
    /\ pending # NoSetup
    /\ Await("api", "userCancel")
    /\ UNCHANGED <<venueVars, memory, declined, tried, ledger, seen, held, ret>>

CancelDone ==
    /\ Answered("api", "userCancel", "ok")
    /\ pending' = NoSetup
    /\ Await("api", "off")
    /\ UNCHANGED <<venueVars, active, recoveryFailed, cur, declined, tried, ledger, seen,
        held, ret>>

\* Every task is gone and so is the object; an entry order that was being
\* sent may still arrive.
TearDown ==
    /\ active' = NoPosition
    /\ pending' = NoSetup
    /\ recoveryFailed' = FALSE
    /\ declined' = Signature(Flat)
    /\ cur' = NoSetup
    /\ pc' = [t \in Tasks |-> "off"]
    /\ resp' = [t \in Tasks |-> "wait"]
    /\ seen' = [t \in Tasks |-> Flat]
    /\ held' = [t \in Tasks |-> NoPosition]
    /\ ret' = [t \in Tasks |-> "off"]
    /\ \/ UNCHANGED orders
       \/ pc["loop"] = "entry" /\ resp["loop"] = "wait" /\ orders' = orders \cup {cur}
    /\ UNCHANGED <<pos, closed, faults, userTrades, tried, ledger>>

\* stop() with an entry pending cancels it first; the loop goes on meanwhile.
\* The manager's lock keeps stop out while start runs.
RequestStop ==
    /\ Idle("stop")
    /\ ~Starting
    /\ pending # NoSetup
    /\ Await("api", "stopCancel")
    /\ UNCHANGED <<venueVars, memory, declined, tried, ledger, seen, held, ret>>

StopCancelled == Answered("api", "stopCancel", "ok") /\ TearDown

StopAtOnce ==
    /\ Idle("stop")
    /\ ~Starting
    /\ pending = NoSetup
    /\ TearDown

\* The process dies; the next start() finds only the exchange and the store.
Crash == pc["loop"] # "off" /\ TearDown

-----------------------------------------------------------------------------

Recovery == RecoverFailed \/ RecoverNothing \/ RecoverAdopts \/ StartSwept \/ StartFinished

Entry == PendingWaits \/ PendingExpires \/ PendingCancelled \/ PendingFilled
         \/ NoSignal \/ (\E s \in Setups : Signal(s))
         \/ ExecuteSkips \/ ExecuteOrders \/ OrderRefused \/ OrderPlaced
         \/ OrderRests \/ OrderFilled

Exit == ManagePosition \/ FlipBegins \/ FlipClosed \/ FlipRetries \/ FlipGivesUp
        \/ SyncUnknown \/ SyncAdopts \/ SyncEmergency \/ SyncRearms \/ RearmDone
        \/ SyncAgrees \/ SyncGone \/ SyncRecordsClose

Safeguard == ProtectAccepted \/ ProtectRetry \/ ProtectGivesUp

Emergency(t) == EmergencyFetched(t) \/ EmergencyClosed(t) \/ EmergencyRefused(t)

Requests == RequestEmergency \/ RequestUiClose \/ UiFetched \/ UiDone
            \/ RequestCancel \/ CancelDone \/ RequestStop \/ StopCancelled \/ StopAtOnce

Exchange == Market /\ UNCHANGED <<memory, declined, tried, ledger, control>>

Next ==
    \/ Exchange
    \/ \E t \in Tasks : Serve(t)
    \/ Start
    \/ StepBegin
    \/ Recovery
    \/ Entry
    \/ Exit
    \/ Safeguard
    \/ \E t \in Tasks : Emergency(t)
    \/ Requests
    \/ Crash

Spec == Init /\ [][Next]_vars

\* The asyncio loop keeps scheduling the bot's task, its calls are answered
\* (every HTTP call has a timeout), and time passes: an entry that is read as
\* unfilled again and again is at last older than its TTL.
LoopRuns == StepBegin \/ Recovery \/ Entry \/ Exit \/ Safeguard \/ Emergency("loop")

Fairness == WF_vars(LoopRuns) /\ WF_vars(Serve("loop")) /\ SF_vars(PendingExpires)

FairSpec == Spec /\ Fairness

-----------------------------------------------------------------------------
(* Properties *)

\* Entries of the bot that are alive: being sent, resting, or in the position.
Exposure == orders \cup (pos.lots \cap Setups)
            \cup IF pc["loop"] = "entry" /\ resp["loop"] = "wait" THEN {cur} ELSE {}

\* The bot never has two entries of its own alive at once: no second order is
\* sent while an earlier one rests, is filled but not yet noticed, or survived
\* a stop or a crash.
OneExposure == \A s1, s2 \in Exposure : s1 = s2

\* A closing event in the trades store stands for a lot the exchange really
\* closed.
CloseBacked == \A s \in Setups : closes[s] > 0 => s \in closed

\* Every entry is closed at most once in the trades store, whatever restarts,
\* lost answers and startup reconciliation do.
CloseOnce == \A s \in Setups : closes[s] <= 1

\* What the bot holds for a setup is an entry that was filled and recorded.
NoPhantom == active.setup \in Setups =>
    active.setup \in entered /\ active.setup \in pos.lots \cup closed

NakedBotPosition == pos.lots \cap Setups # {} /\ ~pos.sl

\* An entry order the bot waits for is never waited for forever.
PendingResolves == (pending # NoSetup) ~> (pending = NoSetup)

\* A failed recovery blocks entries only until a read succeeds.
RecoveryRetried == recoveryFailed ~> ~recoveryFailed

\* A position the user opened by hand, and only that, is never closed or given
\* a stop by the bot.
UserPositionRespected ==
    [][\A t \in Tasks : Serve(t) /\ pos.lots = {User} => pos' = pos]_vars

\* A bot lot in the position without a stop is one the bot knows about.
OrphanIsProtected ==
    NakedBotPosition /\ pc["loop"] = "sleep" => pending # NoSetup \/ active # NoPosition

\* A position with a bot lot that the bot manages without a stop gets a stop or
\* is closed, unless the bot is stopped.
NakedGetsProtected ==
    (NakedBotPosition /\ active.dir = pos.dir)
        ~> (~NakedBotPosition \/ pc["loop"] = "off")
=============================================================================
