-------------------------------- MODULE Cursus --------------------------------
(***************************************************************************)
(* BotTrendInstance, the trend-following bot: one step loop, the exchange  *)
(* position it manages (fixed stop, four targets, ladder stop, reverse),   *)
(* its resting limit entry, and the requests that touch it.                *)
(*                                                                         *)
(* The exchange does not act inside the bot's code, so an action takes the *)
(* answer of the loop's last call, runs the code up to the next call and   *)
(* performs that call; what others do before the answer is used happens    *)
(* between two actions.  Prices are abstracted to what the code compares:  *)
(* gain is the last target the current price has reached (0 when it has    *)
(* reached none) and a stop is 0 (none), 1 (the fixed stop) or      *)
(* k + 1 (the price of target k).  Quantities count lots.                  *)
(***************************************************************************)
EXTENDS Integers, FiniteSets

CONSTANTS
    EntryQty,      \* lots of one entry; a quarter of it is sold per target
    Targets,       \* the take-profit targets, 1..4 in the code
    TrailFrom,     \* trail_trigger_target
    Ttl,           \* limit_entry_ttl_bars
    AuthStop,      \* _AUTH_FAIL_STOP_THRESHOLD
    WriteStop,     \* _WRITE_FAIL_STOP_THRESHOLD
    FaultKinds,    \* which API failures may happen in this instance
    MaxFaults,     \* bound: API failures per behaviour
    MaxEntries,    \* bound: entry orders sent per behaviour
    Gains,         \* bound: the prices a step may see
    FirstEntry,    \* bound: directions of the first entry (they are symmetric)
    Mixed,         \* bound: whether requests and API failures meet in a behaviour
    MaxRequests,   \* bound: requests and crashes per behaviour
    ApiRequests    \* which requests of the user touch the bot

\* auth:   a read is refused, the adapter raises
\* net:    a read fails; the adapter reports "no position"
\* write:  the key loses its permission (10005) until the user renews it
\* ack:    an order takes effect but its answer is lost and the call raises
\* cancel: cancelling fails; the adapter swallows it
ASSUME CursusAssumption ==
    /\ EntryQty \in Nat \ {0}
    /\ Targets = 1..4
    /\ Gains \subseteq 0..4
    /\ {TrailFrom, Ttl, AuthStop, WriteStop, MaxEntries, MaxRequests} \subseteq Nat
    /\ MaxFaults \in Nat \ {0}
    /\ FirstEntry \subseteq {"long", "short"}
    /\ Mixed \in BOOLEAN
    /\ FaultKinds \subseteq {"auth", "net", "write", "ack", "cancel"}
    /\ ApiRequests \subseteq {"uiClose", "stop", "crash"}

VARIABLES
    limitEntry,    \* configuration: entries are limit orders at the signal bar
    xpos,          \* the exchange's position: direction, lots, stop
    orders,        \* lots of the bot's entry orders resting, per direction
    faults,        \* API failures so far, refused cancels of a resting order included
    key,           \* the key's permission to write: "good", "denied", "renewed"
    streak,        \* consecutive failures the adapter counts
    sent,          \* entry orders sent so far
    bot,           \* active_position (and whether it is set), _sl_synced, _pending_limit
    age,           \* bars since the pending entry's signal bar
    booked,        \* the trades store has an opening event not closed since
    pc, reply, view, see, tries, ret,  \* the loop: where it waits, the answer, the bar
    asked,         \* requests so far
    api            \* the request under way: where it waits, answer, position read

venue == <<xpos, orders, faults, key, streak, sent>>
loop == <<pc, reply, view, see, tries, ret>>
vars == <<limitEntry, xpos, orders, faults, key, streak, sent, bot, age, booked,
          pc, reply, view, see, tries, ret, asked, api>>

Directions == {"long", "short"}
MaxLots == EntryQty * MaxEntries
Flat == [dir |-> "none", qty |-> 0, sl |-> 0]
Positions == [dir : Directions \cup {"none"}, qty : 0..MaxLots, sl : 0..3]

NoBot == [active |-> FALSE, dir |-> "none", qty |-> 0, init |-> 0, stop |-> 0,
          filled |-> {}, synced |-> FALSE, pend |-> "none"]

\* what the loop uses of the bars it has read; gain only while it sells targets
Bars == [gain : Gains \cup {0}, sig : Directions \cup {"none"}]
NoBar == [gain |-> 0, sig |-> "none"]
NoRequest == [pc |-> "none", reply |-> "ok", view |-> Flat]

Labels == {"off", "recRead", "sweep", "idle", "sync", "syncClose", "pendRead", "pendCancel",
           "pendAdopt", "pendGone", "adoptRead", "stopExit", "protect", "emergency",
           "target", "ladder", "reverse", "revRead", "market", "limit"}

TypeOK ==
    /\ limitEntry \in BOOLEAN
    /\ xpos \in Positions
    /\ orders \in [Directions -> 0..MaxLots]
    /\ faults \in 0..MaxFaults
    /\ key \in {"good", "denied", "renewed"}
    /\ streak \in [auth : 0..MaxFaults, write : 0..WriteStop]
    /\ sent \in 0..MaxEntries
    /\ bot \in [active : BOOLEAN, dir : Directions \cup {"none"}, qty : 0..MaxLots,
                init : 0..MaxLots, stop : 0..3, filled : SUBSET Targets,
                synced : BOOLEAN, pend : Directions \cup {"none"}]
    /\ bot.active => bot.dir # "none" /\ bot.init > 0 /\ bot.stop > 0
    /\ age \in 0..Ttl + 1
    /\ booked \in BOOLEAN
    /\ pc \in Labels
    /\ reply \in {"ok", "fail"}
    /\ view \in Positions
    /\ see \in Bars
    /\ tries \in {1, 2}
    /\ ret \in {"none", "adopt", "pend", "manage", "open"}
    /\ asked \in 0..MaxRequests
    /\ api \in [pc : {"none", "uiRead", "uiClose", "stopCancel"}, reply : {"ok", "fail"},
                view : Positions]

Init ==
    /\ limitEntry \in BOOLEAN
    /\ xpos = Flat
    /\ orders = [d \in Directions |-> 0]
    /\ faults = 0
    /\ key = "good"
    /\ streak = [auth |-> 0, write |-> 0]
    /\ sent = 0
    /\ bot = NoBot
    /\ age = 0
    /\ booked = FALSE
    /\ pc = "off"
    /\ reply = "ok"
    /\ view = Flat
    /\ see = NoBar
    /\ tries = 1
    /\ ret = "none"
    /\ asked = 0
    /\ api = NoRequest

-----------------------------------------------------------------------------
(* The exchange and the adapter *)

Opposite(d) == IF d = "long" THEN "short" ELSE "long"

May(k) == k \in FaultKinds /\ (Mixed \/ asked = 0)

Fault(k) == May(k) /\ (Mixed \/ key = "good") /\ faults < MaxFaults /\ faults' = faults + 1

\* The position p after n lots of direction d are bought into it; a position
\* that changes direction starts without a stop.
Netted(p, d, n) ==
    IF p.qty = 0 THEN [dir |-> d, qty |-> n, sl |-> 0]
    ELSE IF p.dir = d THEN [p EXCEPT !.qty = @ + n]
    ELSE IF p.qty > n THEN [p EXCEPT !.qty = @ - n]
    ELSE IF p.qty = n THEN Flat
    ELSE [dir |-> d, qty |-> n - p.qty, sl |-> 0]

\* fetch_position: refused (raises), failed (None) or answered.
FetchPosition(a, v) ==
    /\ \/ a = "ok" /\ v = xpos /\ UNCHANGED faults /\ streak' = [streak EXCEPT !.auth = 0]
       \/ a = "ok" /\ v = Flat /\ Fault("net") /\ UNCHANGED streak
       \/ a = "fail" /\ v = Flat /\ Fault("auth")
          /\ streak' = [streak EXCEPT !.auth = @ + 1]
    /\ UNCHANGED <<xpos, orders, key, sent>>

Accepted == key # "denied" /\ UNCHANGED faults /\ streak' = [streak EXCEPT !.write = 0]
AckLost == key # "denied" /\ Fault("ack") /\ streak' = [streak EXCEPT !.write = 0]

\* The adapter counts refusals; the loop looks at the count when a step ends.
Denied ==
    /\ key = "denied"
    /\ UNCHANGED faults
    /\ streak' = [streak EXCEPT !.write = IF @ < WriteStop THEN @ + 1 ELSE @]

\* place_order with reduce_only, against n lots of a position of direction d.
ReduceOnly(d, n, a) ==
    /\ \/ /\ xpos.dir = d
          /\ xpos' = IF n >= xpos.qty THEN Flat ELSE [xpos EXCEPT !.qty = @ - n]
          /\ \/ a = "ok" /\ Accepted
             \/ a = "fail" /\ AckLost
       \/ xpos.dir = d /\ a = "fail" /\ Denied /\ UNCHANGED xpos
       \/ xpos.dir # d /\ a = "fail" /\ UNCHANGED <<xpos, faults, streak>>
    /\ UNCHANGED <<orders, key, sent>>

\* set_position_tpsl: an empty answer when it is refused or there is no such
\* position.
SetStop(d, stop, a) ==
    /\ \/ xpos.dir = d /\ a = "ok" /\ Accepted /\ xpos' = [xpos EXCEPT !.sl = stop]
       \/ xpos.dir = d /\ a = "fail" /\ Denied /\ UNCHANGED xpos
       \/ xpos.dir # d /\ a = "fail" /\ UNCHANGED <<xpos, faults, streak>>
    /\ UNCHANGED <<orders, key, sent>>

\* place_order for a market entry.
MarketEntry(d, a) ==
    /\ sent < MaxEntries /\ (sent = 0 => d \in FirstEntry)
    /\ sent' = sent + 1
    /\ \/ a = "ok" /\ Accepted /\ xpos' = Netted(xpos, d, EntryQty)
       \/ a = "fail" /\ AckLost /\ xpos' = Netted(xpos, d, EntryQty)
       \/ a = "fail" /\ Denied /\ UNCHANGED xpos
    /\ UNCHANGED <<orders, key>>

\* place_order for a limit entry with its stop attached.
LimitEntry(d, a) ==
    /\ sent < MaxEntries /\ (sent = 0 => d \in FirstEntry)
    /\ sent' = sent + 1
    /\ \/ a = "ok" /\ Accepted /\ orders' = [orders EXCEPT ![d] = @ + EntryQty]
       \/ a = "fail" /\ AckLost /\ orders' = [orders EXCEPT ![d] = @ + EntryQty]
       \/ a = "fail" /\ Denied /\ UNCHANGED orders
    /\ UNCHANGED <<xpos, key>>

NoOrders == [d \in Directions |-> 0]

\* cancel_bot_orders: the client swallows each refused cancel, the adapter a
\* failed read of the orders; the bot is told that all is well, and neither
\* counts towards the auto-stop.
CancelEntryOrders ==
    /\ \/ key # "denied" /\ orders' = NoOrders /\ UNCHANGED faults
       \/ key = "denied" /\ orders = NoOrders /\ UNCHANGED <<orders, faults>>
       \/ key = "denied" /\ orders # NoOrders /\ UNCHANGED orders
          /\ faults' = IF faults < MaxFaults THEN faults + 1 ELSE faults
       \/ UNCHANGED orders /\ Fault("cancel")
    /\ UNCHANGED <<xpos, streak, key, sent>>

\* A resting entry fills, wholly or in part; the order's stop goes with it.
Fill(d) ==
    /\ orders[d] > 0
    /\ \E n \in {orders[d], orders[d] \div 2} \ {0} :
          LET p == Netted(xpos, d, n) IN
          /\ orders' = [orders EXCEPT ![d] = @ - n]
          /\ xpos' = IF p.dir = d /\ p.sl = 0 THEN [p EXCEPT !.sl = 1] ELSE p
    /\ UNCHANGED <<faults, streak, key, sent>>

\* The position ends at its stop, is liquidated, or is closed by hand.
ExchangeClose ==
    /\ xpos # Flat
    /\ xpos' = Flat
    /\ UNCHANGED <<orders, faults, streak, key, sent>>

\* The user re-registers the key read-only, and later with permission.
KeyChange ==
    /\ \/ May("write") /\ (Mixed \/ faults = 0) /\ key = "good" /\ key' = "denied"
       \/ key = "denied" /\ key' = "renewed"
    /\ UNCHANGED <<xpos, orders, faults, streak, sent>>

Exchange ==
    /\ (\E d \in Directions : Fill(d)) \/ ExchangeClose \/ KeyChange
    /\ UNCHANGED <<limitEntry, bot, age, booked, loop, asked, api>>

\* A new bar appears.
NewBar ==
    /\ bot.pend # "none"
    /\ age <= Ttl
    /\ age' = age + 1
    /\ UNCHANGED <<limitEntry, venue, bot, booked, loop, asked, api>>

-----------------------------------------------------------------------------
(* Awaits: the next call of the loop, with b the bot's memory before it.   *)
(* Each sets venue, bot, age, booked (when it records) and loop.           *)

Waits(l, b) == pc' = l /\ bot' = b

Reads(l, b) ==
    /\ \E a \in {"ok", "fail"}, v \in {xpos, Flat} :
          FetchPosition(a, v) /\ reply' = a /\ view' = v
    /\ Waits(l, b)
    /\ tries' = 1 /\ ret' = "none"
    /\ UNCHANGED see

Cancels(l, b) ==
    /\ CancelEntryOrders
    /\ reply' = "ok" /\ view' = Flat
    /\ Waits(l, b)
    /\ UNCHANGED <<see, tries, ret>>

Reduces(l, n, b) ==
    /\ \E a \in {"ok", "fail"} : ReduceOnly(b.dir, n, a) /\ reply' = a
    /\ Waits(l, b)
    /\ view' = Flat /\ tries' = 1
    /\ see' = [see EXCEPT !.gain = 0]
    /\ UNCHANGED ret

\* The loop sleeps, or is off; nothing refers to a position that is not active.
Rest(l, b) ==
    /\ pc' = l
    /\ bot' = IF b.active THEN b ELSE [NoBot EXCEPT !.pend = b.pend]
    /\ reply' = "ok" /\ view' = Flat /\ see' = NoBar /\ tries' = 1 /\ ret' = "none"
    /\ UNCHANGED venue

\* start is over: the loop begins with a step, whatever the counters say.
Begins(b) == Rest("idle", b)

\* The step is over: the loop looks at the adapter's counters and may stop by
\* itself.
Ends(b) ==
    LET stops == streak.auth >= AuthStop \/ streak.write >= WriteStop IN
    Rest(IF stops THEN "off" ELSE "idle", b)

\* _apply_protective_sl, first attempt; r says who called it.
Protects(r, b) ==
    /\ \E a \in {"ok", "fail"} : SetStop(b.dir, b.stop, a) /\ reply' = a
    /\ Waits("protect", b)
    /\ view' = Flat /\ tries' = 1 /\ ret' = r
    /\ see' = [see EXCEPT !.gain = 0]

\* _emergency_close, _stop_exit
Closes(l, b) == Reduces(l, b.qty, b)

\* active_position = None
Forgets(b) == [b EXCEPT !.active = FALSE, !.synced = FALSE]

\* _recover_position_from_exchange of a position p: its stop, if it has one.
Adopts(b, p) == [b EXCEPT !.active = TRUE, !.dir = p.dir, !.qty = p.qty, !.init = p.qty,
                          !.stop = IF p.sl > 0 THEN p.sl ELSE 1, !.filled = {},
                          !.synced = p.sl > 0]

-----------------------------------------------------------------------------
(* What the loop does next, after the memory has become b *)

\* An entry signal without a position: the daily limit, no margin or a quantity
\* of zero may reject it.
Enters(d, b) ==
    \/ Ends(b)
    \/ /\ limitEntry
       /\ \E a \in {"ok", "fail"} : LimitEntry(d, a) /\ reply' = a
       /\ Waits("limit", b)
       /\ view' = Flat /\ tries' = 1 /\ ret' = "none"
       /\ UNCHANGED see
    \/ /\ ~limitEntry
       /\ \E a \in {"ok", "fail"} : MarketEntry(d, a) /\ reply' = a
       /\ Waits("market", b)
       /\ view' = Flat /\ tries' = 1 /\ ret' = "none"
       /\ UNCHANGED see

\* No position after the reads.
Idles(b) == IF see.sig = "none" THEN Ends(b) ELSE Enters(see.sig, b)

\* A signal against the position closes it first.
Reverses(b) ==
    IF b.active /\ see.sig \notin {"none", b.dir} THEN Reduces("reverse", b.qty, b)
    ELSE Ends(b)

\* Mutant: an unconfirmed stop is left to the next signal.
GuardsLater(b) == IF ~b.synced /\ see.sig # "none" THEN Protects("manage", b) ELSE Reverses(b)

\* A stop that is not confirmed is registered again, whatever happened before.
Guards(b) == IF ~b.synced THEN Protects("manage", b) ELSE Reverses(b)

\* Mutant: the new stop is not compared with the old one.
TrailsAlways(b) ==
    LET hits == Cardinality(b.filled) IN
    IF hits >= TrailFrom /\ hits >= 2
    THEN /\ \E a \in {"ok", "fail"} : SetStop(b.dir, hits, a) /\ reply' = a
         /\ Waits("ladder", [b EXCEPT !.stop = hits])
         /\ view' = Flat /\ tries' = 1 /\ ret' = "none"
         /\ see' = [see EXCEPT !.gain = 0]
    ELSE Guards(b)

\* The ladder: after k targets the stop follows to target k - 1.
Trails(b) ==
    LET hits == Cardinality(b.filled) IN
    IF hits >= TrailFrom /\ hits >= 2 /\ hits > b.stop
    THEN /\ \E a \in {"ok", "fail"} : SetStop(b.dir, hits, a) /\ reply' = a
         /\ Waits("ladder", [b EXCEPT !.stop = hits])
         /\ view' = Flat /\ tries' = 1 /\ ret' = "none"
         /\ see' = [see EXCEPT !.gain = 0]
    ELSE Guards(b)

Due(b, gain) == {k \in Targets \ b.filled : gain >= k}
NextDue(b) == CHOOSE k \in Due(b, see.gain) : \A j \in Due(b, see.gain) : k <= j
Whole(b) == b.init < Cardinality(Targets)
Part(b) == IF Whole(b) \/ b.init \div 4 > b.qty THEN b.qty ELSE b.init \div 4

\* _check_split_tp from the next target the price has reached, then the rest
\* of the step.
Sells(b, gain) ==
    IF Due(b, gain) # {} /\ Part(b) > 0
    THEN /\ \E a \in {"ok", "fail"} : ReduceOnly(b.dir, Part(b), a) /\ reply' = a
         /\ Waits("target", b)
         /\ see' = [see EXCEPT !.gain = gain]
         /\ view' = Flat /\ tries' = 1 /\ ret' = "none"
    ELSE LET c == [b EXCEPT !.filled = @ \cup Due(b, gain)] IN
         IF c.qty = 0 \/ c.filled = Targets THEN Ends(Forgets(c))
         ELSE IF ~c.active THEN Ends(c)
         ELSE Trails(c)

Manages(b) == \E gain \in Gains : Sells(b, gain)

\* After the synchronisation.
Continues(b) ==
    IF b.pend # "none" THEN Reads("pendRead", b)
    ELSE IF b.active THEN Manages(b)
    ELSE Reads("adoptRead", b)

\* Memory the loop's actions leave alone.
Keeps == UNCHANGED <<limitEntry, age, booked, asked, api>>
Books(e) == booked' = e /\ UNCHANGED <<limitEntry, age, asked, api>>

-----------------------------------------------------------------------------
(* start *)

Start ==
    /\ pc = "off"
    /\ api = NoRequest
    /\ Reads("recRead", bot)
    /\ UNCHANGED <<limitEntry, age, booked, asked, api>>

\* Mutant: a restart adopts without a record, like a step.
StartAdoptsSilently ==
    /\ pc = "recRead"
    /\ reply = "ok" /\ view # Flat
    /\ Begins(Adopts(bot, view))
    /\ Keeps

StartAdopts ==
    /\ pc = "recRead"
    /\ reply = "ok" /\ view # Flat
    /\ Begins(Adopts(bot, view))
    /\ Books(TRUE)

\* Nothing there, or the read failed: orders of an earlier life are swept,
\* unless a bot that stopped by itself still remembers a position.
StartSweeps ==
    /\ pc = "recRead"
    /\ reply = "fail" \/ view = Flat
    /\ IF bot.active THEN Begins(bot) ELSE Cancels("sweep", bot)
    /\ Keeps

Started == pc = "sweep" /\ Begins(bot) /\ Keeps

-----------------------------------------------------------------------------
(* step *)

\* The bars are read; every branch starts with a read of the position.
StepBegin ==
    /\ pc = "idle"
    /\ \E d \in Directions \cup {"none"} : see' = [NoBar EXCEPT !.sig = d]
    /\ \E a \in {"ok", "fail"}, v \in {xpos, Flat} :
          FetchPosition(a, v) /\ reply' = a /\ view' = v
    /\ Waits(IF bot.active THEN "sync" ELSE IF bot.pend # "none" THEN "pendRead"
             ELSE "adoptRead", bot)
    /\ UNCHANGED <<limitEntry, age, booked, asked, api, tries, ret>>

\* _sync_position_state
SyncUnknown == pc = "sync" /\ reply = "fail" /\ Continues(bot) /\ Keeps

SyncAgrees ==
    /\ pc = "sync" /\ reply = "ok"
    /\ view # Flat
    /\ view.dir = bot.dir \/ ~bot.active
    /\ Continues(bot)
    /\ Keeps

\* The position is gone: booked as a stop hit.  The request that closed it may
\* have cleared active_position meanwhile; then there is nothing to record.
SyncGone ==
    /\ pc = "sync" /\ reply = "ok" /\ view = Flat
    /\ \/ bot.active /\ Continues(Forgets(bot)) /\ Books(FALSE)
       \/ ~bot.active /\ Ends(bot) /\ Keeps

\* The exchange's direction is not the bot's.
SyncMismatch ==
    /\ pc = "sync" /\ reply = "ok" /\ view # Flat
    /\ bot.active /\ view.dir # bot.dir
    /\ Closes("syncClose", bot)
    /\ Keeps

SyncClosed ==
    /\ pc = "syncClose"
    /\ Continues(Forgets(bot))
    /\ Books(booked /\ reply = "fail")

\* _handle_pending_limit
PendingUnknown ==
    /\ pc = "pendRead" /\ reply = "fail"
    /\ IF bot.active THEN Manages(bot) ELSE Ends(bot)
    /\ Keeps

PendingFilled ==
    /\ pc = "pendRead" /\ reply = "ok" /\ view # Flat
    /\ Cancels("pendCancel", [bot EXCEPT !.pend = "none"])
    /\ Keeps

PendingSwept == pc = "pendCancel" /\ Reads("pendAdopt", bot) /\ Keeps

PendingEnters ==
    /\ pc = "pendAdopt"
    /\ \/ /\ reply = "ok" /\ view # Flat
          /\ Protects("pend", Adopts(bot, view))
          /\ Books(TRUE)
       \/ /\ reply = "fail" \/ view = Flat
          /\ IF bot.active THEN Manages(bot) ELSE Reads("adoptRead", bot)
          /\ Keeps

\* Mutant: the step goes on while the entry rests.
PendingWaitsNot ==
    /\ pc = "pendRead" /\ reply = "ok" /\ view = Flat
    /\ see.sig \in {"none", bot.pend} /\ age <= Ttl
    /\ IF bot.active THEN Manages(bot) ELSE Reads("adoptRead", bot)
    /\ Keeps

PendingWaits ==
    /\ pc = "pendRead" /\ reply = "ok" /\ view = Flat
    /\ see.sig \in {"none", bot.pend} /\ age <= Ttl
    /\ IF bot.active THEN Manages(bot) ELSE Ends(bot)
    /\ Keeps

\* An opposite signal, or the order is too old.
PendingExpires ==
    /\ pc = "pendRead" /\ reply = "ok" /\ view = Flat
    /\ see.sig \notin {"none", bot.pend} \/ age > Ttl
    /\ Cancels("pendGone", bot)
    /\ Keeps

PendingGone ==
    /\ pc = "pendGone"
    /\ LET b == [bot EXCEPT !.pend = "none"] IN
       IF b.active THEN Manages(b) ELSE Reads("adoptRead", b)
    /\ Keeps

\* A position the bot does not know of is adopted without a record.
Adopt ==
    /\ pc = "adoptRead" /\ reply = "ok" /\ view # Flat
    /\ LET b == Adopts(bot, view) IN
       IF b.synced THEN Manages(b)
       ELSE \/ Closes("stopExit", b)    \* the price is past the stop
            \/ Protects("adopt", b)
    /\ Keeps

AdoptNothing ==
    /\ pc = "adoptRead"
    /\ reply = "fail" \/ view = Flat
    /\ Idles(bot)
    /\ Keeps

\* _stop_exit: a refused close leaves the position to the next step.
StopExited ==
    /\ pc = "stopExit"
    /\ \/ reply = "ok" /\ Ends(Forgets(bot)) /\ Books(FALSE)
       \/ reply = "fail" /\ Ends(bot) /\ Keeps

\* _apply_protective_sl
Returns(b) ==
    \/ ret = "open" /\ Ends(b)
    \/ ret = "manage" /\ IF b.active THEN Reverses(b) ELSE Ends(b)
    \/ ret = "pend" /\ IF b.active THEN Manages(b) ELSE Reads("adoptRead", b)
    \/ ret = "adopt" /\ IF b.active THEN Manages(b) ELSE Idles(b)

Protected ==
    /\ pc = "protect" /\ reply = "ok"
    /\ Returns([bot EXCEPT !.synced = TRUE])
    /\ Keeps

ProtectRetries ==
    /\ pc = "protect" /\ reply = "fail" /\ tries = 1
    /\ \E a \in {"ok", "fail"} : SetStop(bot.dir, bot.stop, a) /\ reply' = a
    /\ tries' = 2
    /\ UNCHANGED <<pc, view, see, ret, bot>>
    /\ Keeps

ProtectGivesUp ==
    /\ pc = "protect" /\ reply = "fail" /\ tries = 2
    /\ IF bot.active THEN Closes("emergency", bot) ELSE Returns(bot)
    /\ Keeps

\* The bot forgets the position even when closing it failed.
EmergencyClosed ==
    /\ pc = "emergency"
    /\ Returns(Forgets(bot))
    /\ Books(booked /\ reply = "fail")

\* A target was sold, or given up when its order was refused.
TargetDone ==
    /\ pc = "target"
    /\ LET k == NextDue(bot)
           sold == [bot EXCEPT !.qty = @ - Part(bot),
                               !.filled = IF Whole(bot) THEN Targets ELSE @ \cup {k}]
       IN IF reply = "ok" THEN Sells(sold, see.gain) /\ Books(booked /\ sold.qty > 0)
          ELSE Sells([bot EXCEPT !.filled = @ \cup {k}], see.gain) /\ Keeps

LadderMoved ==
    /\ pc = "ladder"
    /\ Guards([bot EXCEPT !.synced = @ /\ reply = "ok"])
    /\ Keeps

\* _reverse
ReverseRefused == pc = "reverse" /\ reply = "fail" /\ Ends(bot) /\ Keeps

ReverseClosed ==
    /\ pc = "reverse" /\ reply = "ok"
    /\ Reads("revRead", Forgets(bot))
    /\ Books(FALSE)

ReverseEnters ==
    /\ pc = "revRead"
    /\ IF reply = "ok" /\ view = Flat THEN Enters(see.sig, bot) ELSE Ends(bot)
    /\ Keeps

\* _open
EntryRefused == pc \in {"market", "limit"} /\ reply = "fail" /\ Ends(bot) /\ Keeps

EntryFilled ==
    /\ pc = "market" /\ reply = "ok"
    /\ Protects("open", [Adopts(bot, [dir |-> see.sig, qty |-> EntryQty, sl |-> 0])
                         EXCEPT !.pend = bot.pend])
    /\ Books(TRUE)

EntryRests ==
    /\ pc = "limit" /\ reply = "ok"
    /\ Ends([bot EXCEPT !.pend = see.sig])
    /\ age' = 0
    /\ UNCHANGED <<limitEntry, booked, asked, api>>

-----------------------------------------------------------------------------
(* Requests while the loop runs *)

Comes(r) ==
    /\ r \in ApiRequests
    /\ Mixed \/ (faults = 0 /\ key = "good")
    /\ asked < MaxRequests
    /\ asked' = asked + 1

Asked(r) == Comes(r) /\ api = NoRequest /\ pc \notin {"off", "recRead", "sweep"}

\* The close button.
RequestClose ==
    /\ Asked("uiClose")
    /\ bot.active
    /\ \E a \in {"ok", "fail"}, v \in {xpos, Flat} :
          /\ FetchPosition(a, v)
          /\ api' = [pc |-> "uiRead", reply |-> a,
                     view |-> IF v = Flat THEN [dir |-> bot.dir, qty |-> bot.qty, sl |-> 0]
                              ELSE v]
    /\ UNCHANGED <<limitEntry, bot, age, booked, loop>>

RequestCloses ==
    /\ api.pc = "uiRead"
    /\ \E a \in {"ok", "fail"} :
          /\ ReduceOnly(api.view.dir, api.view.qty, a)
          /\ api' = [pc |-> "uiClose", reply |-> a, view |-> Flat]
    /\ UNCHANGED <<limitEntry, bot, age, booked, loop, asked>>

RequestClosed ==
    /\ api.pc = "uiClose"
    /\ bot' = IF api.reply = "fail" THEN bot
              ELSE IF pc = "idle" THEN [NoBot EXCEPT !.pend = bot.pend]
              ELSE [bot EXCEPT !.active = FALSE]
    /\ api' = NoRequest
    /\ UNCHANGED <<limitEntry, venue, age, booked, loop, asked>>

\* The task is cancelled where it waits; the bot and its adapter, with the
\* counters, are dropped.
TearDown ==
    /\ bot' = NoBot
    /\ streak' = [auth |-> 0, write |-> 0]
    /\ age' = 0
    /\ pc' = "off" /\ reply' = "ok" /\ view' = Flat /\ see' = NoBar /\ tries' = 1
    /\ ret' = "none"
    /\ api' = NoRequest
    /\ UNCHANGED <<limitEntry, booked, xpos, orders, faults, key, sent>>

\* stop: a pending limit is cancelled first, while the loop goes on.
RequestStop ==
    /\ Asked("stop")
    /\ \/ bot.pend = "none" /\ TearDown
       \/ /\ bot.pend # "none"
          /\ CancelEntryOrders
          /\ api' = [NoRequest EXCEPT !.pc = "stopCancel"]
          /\ UNCHANGED <<limitEntry, bot, age, booked, loop>>

StopCancelled == api.pc = "stopCancel" /\ TearDown /\ UNCHANGED asked

Crash == Comes("crash") /\ pc # "off" /\ TearDown

-----------------------------------------------------------------------------

Starting == StartAdopts \/ StartSweeps \/ Started

Sync == SyncUnknown \/ SyncAgrees \/ SyncGone \/ SyncMismatch \/ SyncClosed

Pending == PendingUnknown \/ PendingFilled \/ PendingSwept \/ PendingEnters
           \/ PendingWaits \/ PendingExpires \/ PendingGone

Adoption == Adopt \/ AdoptNothing \/ StopExited

Protection == Protected \/ ProtectRetries \/ ProtectGivesUp \/ EmergencyClosed

Trading == TargetDone \/ LadderMoved \/ ReverseRefused \/ ReverseClosed \/ ReverseEnters
           \/ EntryRefused \/ EntryFilled \/ EntryRests

LoopRuns == StepBegin \/ Starting \/ Sync \/ Pending \/ Adoption \/ Protection \/ Trading

Requests == RequestClose \/ RequestCloses \/ RequestClosed \/ RequestStop
            \/ StopCancelled \/ Crash

Next == Exchange \/ NewBar \/ Start \/ LoopRuns \/ Requests

Spec == Init /\ [][Next]_vars

\* The loop's task is scheduled and its calls are answered; bars appear.
FairSpec == Spec /\ WF_vars(LoopRuns) /\ WF_vars(NewBar)

-----------------------------------------------------------------------------
(* Properties *)

\* Lots the bot has bought or may still buy.
Exposure == xpos.qty + orders["long"] + orders["short"]

\* The bot never stands twice for one signal: no entry is sent while an earlier
\* one rests or is held, through fills, reversals, refused stops and closes of
\* the user, as long as no read fails, no answer is lost and no cancel of a
\* resting entry is refused: a refused cancel (a key whose permission is
\* revoked) is swallowed, the bot forgets the order and may order again once
\* the key is renewed.  (With limit entries a stop of the bot can break it too:
\* the order in flight is not cancelled and a start that adopts its first fill
\* leaves the rest.)
OneEntry == faults = 0 /\ (limitEntry => asked = 0) => Exposure <= EntryQty

\* No step takes the stop of a held position back towards a larger loss or
\* removes it, whoever closes, adopts or protects the position.
StopNeverBack ==
    [][faults' = 0 /\ xpos.qty > 0 /\ xpos'.dir = xpos.dir /\ xpos'.qty <= xpos.qty
          => xpos'.sl >= xpos.sl]_vars

\* A position the bot manages between steps has its opening in the trades
\* store (market entries; a fill seen only by the silent adoption has none).
Accounted == pc = "idle" /\ bot.active /\ ~limitEntry /\ faults = 0 => booked

\* A position without a stop gets one or ends, unless the bot is stopped.
NakedGetsProtected == (xpos # Flat /\ xpos.sl = 0) ~> (xpos = Flat \/ xpos.sl > 0 \/ pc = "off")
=============================================================================
