# Verification of Aurora-ICT

Aurora-ICT trades crypto perpetuals for many users. A SaaS process keeps one bot per user and
pair; each bot reads candles, recognises ICT setups, sends a limit entry order, protects the
position with a stop loss and follows it until it ends. A second kind of bot (Cursus) follows a
trend, a desktop program with launcher and updater runs the same bots for one user, and an older
bot ("the first bot", `src/src/aurora`) is still in the repository with its backtest.

Bots run on one `asyncio` loop: a coroutine runs undisturbed until it awaits, and whatever it read
before the await may be stale after it. The specifications are about exactly that: what holds of
orders, positions, stops, trade records, bot slots, files and processes across awaits, refused or
lost calls, requests of the user, and restarts; and, for the functions of price frames, that they do
not look at the future.

Paths are relative to the repository (`src/src/aurora_ict/...` is written `aurora_ict/...`).

## 1. Inventory

| Component | State | Operations | Talks to |
|---|---|---|---|
| **BotIctInstance**, `aurora_ict/bot/bot_ict_instance.py` | `active_position`, `_pending_entry`, `_recovery_failed`, `_last_setup_*`, daily counters, streaks, peak equity | `start`, `stop`, `step`, `_execute_setup`, `_check_pending_entry`, `_ensure_protective_sl`, `_emergency_close`, `_sync_position_state`, `_recover_position_from_exchange`, `_reconcile_*`, `handle_htf_flip`, `force_entry_long` | adapter, trades store; called by manager and API |
| **AuroraClientAdapter / CcxtClient**, `bot/aurora_adapter.py`, `aurora/exchange/ccxt_client.py` | leverage, streak counters | `fetch_position`, `place_order`, `set_position_tpsl`, `cancel_bot_orders`, `fetch_closed_positions`, balances | the exchange |
| **FlipWatcher**, `bot/flip_watcher.py` | mode (WebSocket / polling), last tick | calls `handle_htf_flip` from its own task | bot |
| **BotTrendInstance** (Cursus), `bot/bot_trend_instance.py` | position with four targets and ladder stop, resting limit | as BotIctInstance | adapter |
| **MultiUserBotManager**, `bot/multi_user_manager.py` | `_slots`, one lock per key | `get_or_create_bot`, `ensure_bot_ready`, `start`, `stop`, `start_preferred`, `stop_user`, `reconcile_*` | bots, `users.db`, API, background task |
| **SaaS entry point**, `aurora_ict/saas.py` | none of its own | `auto_resume_running_bots`, ten-minute task | manager |
| **users.db, sessions**, `auth/users_db.py`, `auth/router.py`, `auth/pin.py` | keys, flags, pairs, sessions, daily copies | setters and getters, migrations, quarantine | manager, API |
| **HTTP API**, `api/app.py` | none of its own | start, stop, model, run mode, close, cancel, emergency close, limits | manager, bots |
| **Trades store**, `interfaces/trades_store.py` | `trades.jsonl`, queue of failed events | record, read, reconcile at a start | bots, API |
| **Limits and sizing**, in the bot and `bot/margin_guard.py` | day, flags, `peak_equity.json` | gate, reset, throttle, cap | bot |
| **Shared candles**, `bot/shared_ohlcv_cache.py` | bars and locks per timeframe | prefetch, first look, history, refresh | all bots |
| **Indicators and strategies**, `indicators/`, `strategy/`, `signal/` | none, but the tracker | functions of a frame | bot, replay |
| **Backtests**, `backtest/replay.py`, `aurora/backtest/engine.py` | a simulated trade | walk over a frame | strategies |
| **Launchers, updater, licence**, `aurora_ict_launcher/`, `aurora_launcher/`, `updater.py`, `aurora/interfaces/webview.py` | files, processes, `license.json` | download, swap, spawn, relaunch, verify | servers, body |
| **The first bot**, `aurora/interfaces/bot_instance.py`, `aurora/exchange/execution.py` | plan, position file | loop, partial closes, reversal | exchange |
| **Notices, dashboards, user interfaces, Android, scripts** | see PROJECT.json | | |

What makes each correct, and what makes that hard:

* *Bots.* At most one entry of its own alive; every bot position gets a stop or is closed; a stop only
  tightens; a half is sold once; what the ledger closes, the exchange closed; a pending entry ends
  sometime; a refused key stops the bot. Hard because an answered read can be overtaken by a fill,
  because a request may resume after the loop has moved on, because the adapter turns many failures into
  "no position" or "done", and because after a crash only the exchange and the records are left.
* *Manager.* Every running bot can be stopped; what the user started runs again; bots of a
  replaced model disappear. Hard because slots, flags and the running object change at different
  awaits, not every caller takes the lock, and the background task works on snapshots.
* *Records, limits, sizes, bars.* Each trade booked once with its own result; a limit that was seen
  holds for the day; the throttle outlives a restart; newer bars are not overwritten. Hard because
  writes fail, several bots share an account, a file or a cache, and each reads before it awaits.
* *Desktop.* An update never costs the program; one body serves; a window comes back; the licence gate
  opens exactly when it should. Hard because threads, processes and kills meet at any file operation.
* *Frames.* A marker does not repaint, a backtest uses no later bar, a target is a real draw.

`PROJECT.json` lists every component with its status, and the hazards at their lines.

## 2. Modules and how they correspond to the code

| Module | Models | Used by |
|---|---|---|
| `Venue` | the exchange as one ICT bot sees it through the adapter | `IctBot` |
| `IctBot` | BotIctInstance from entry to end of a position, with requests and restarts | `MCIctBot`, `IctBotProofs` |
| `Manage` | what it does with an open position: locks, halves, trail, flips, and the FlipWatcher | `MCParts`, `PositionProofs` |
| `Decision` (extends `DailyLimits`) | the gates before an entry, the remembered setup, forced entries, the limits of the day | `MCDecision`, `PositionProofs` |
| `Sizing`, `KeyGuard`, `Candles` | quantities and their throttle; automatic stops; the shared bars | `MCAccount`, `RecordsProofs` |
| `Ledger`, `TradeBook` | the trade records, and what they promise (refinement) | `MCAccount`, `RecordsProofs` |
| `Cursus` | BotTrendInstance with its exchange | `MCCursus`, `CursusProofs` |
| `BotManager` | manager, its callers and the background task | `MCBotManager`, `BotManagerProofs` |
| `Accounts`, `UsersFile` | users.db: keys, pairs, sessions, migrations; the file's copies | `MCParts`, `PartsProofs` |
| `Detectors`, `Setups`, `Chart` | patterns of a frame, setups made of them, a frame that grows | `MCChart`, `ChartProofs` |
| `Replay` | `run_backtest` of the ICT bot as a function of a frame | `MCChart`, `ChartProofs` |
| `Ladder`, `Legacy` | the plan of the first bot's trade; the first bot, its exchange and the user | `MCLegacy`, `FirstBotProofs` |
| `Engine` (extends `Ladder`) | the first bot's backtest, minute by minute | `MCParts`, `FirstBotProofs` |
| `Install`, `Supervisor`, `License` | the desktop's files; windows, threads and processes; the licence | `MCParts`, `PartsProofs` |

The `MC` modules give values to constants. `MCAccount` and `MCParts` put components that share no
state side by side: a behaviour is one of one part, chosen at the start, so the state spaces add up.

In every module an action takes the answer of a coroutine's last call, runs the code up to the next
await and performs that call; what others do before the answer is used happens between two
actions. `IctBot` even serves a call in a step of its own. Definitions whose comment begins "A
mistake" or "Mutant" are variants with a plausible bug, used to confirm that the properties can fail.
They are not part of any `Next`.

**Venue, IctBot.** `pos` is the net position as a *set of lots*: the setup of each bot entry in it, or
`User` for a trade made by hand; `orders` are resting entries, `closed` the lots in
closed-pnl. `FaultKinds` names the ways of failing: `auth` (a read raises), `net` (a failed read
reported as no position), `write` (refused), `ack` (done, answer lost), `cancel` (failure swallowed),
`strip` (the stop is lost at the exchange). `loop` is `start()` and the step loop it creates, `api`
one HTTP request at a time; `pc[t]` is the await where task `t` is suspended, `held[t]` a local reference that
survives the attribute being cleared, `ret[t]` where the shared subroutines return to. `TearDown` is the
end of `stop()` and a crash: memory goes, exchange and store stay, an entry being sent may
still arrive.

**Manage** is a long position on six price levels, its stop at the exchange and in memory, the first half
(sold by the bot or left at the exchange), the loop and the watcher's handler under the flip lock.
Restarts guess from the exchange what was done. A read may fail and pass for "no position" (the adapter
returns `None`, `aurora_adapter.py` 424): the sync then books a close and forgets the position (`SyncMisreads`), a
start runs without it (`StartsBlind`), until the process starts again; `blind` remembers it.

**Decision, DailyLimits.** Two coroutines order: the loop and a forced entry. Gates that depend on the
market are nondeterministic, the EMA gate is modelled because it alone leaves no memory.

**Ledger** keeps trades with entry and closing events, the queue of failed events and the exchange's list of
closes. A trade ends at the exchange, by an order of the bot, which books it, or by the close button, which
does not; a start may miss the position. `dropped` is what this life forgot. `TradeBook` says what a reader may rely on: entered at most once, exited at most once, never
before it happened, with its own result or none, and nothing booked disappears. `KeepsBook ==
Book!Spec` is the refinement, with the mapping in `Ledger`.

**Cursus** counts quantities in lots, prices in targets reached; its exchange is in the module.

**BotManager** has one *owner* per HTTP request in progress, and `"boss"`, the background task;
`stage[o][k]` is where its call for key `k` waits, and a call past `waitStart` or `waitStop` holds the
lock of `k`. `ghosts` are bots that run without being in `_slots`; `wanted` is a history variable.

**Detectors, Setups, Replay** are pure: operators of a frame `b`, written once over `Face(b, d)`, the
frame upright or upside down. `Chart` lets a frame grow, bar by bar, the last one still forming.

**Legacy** has no stop order at the exchange: the loop closes. The user trades on the same account,
orders may be lost, refused or time out, the position file outlives crashes.

**Install** takes one file operation per step, each of which may be refused or be the last before a kill.
**Supervisor** is the launcher's threads over bodies that list the others, end them one by one, ask for the
mutex, serve, leave; `found` is what each has still to end, `handles` who has the mutex open, and each list or kill
may fail. **License** is the gate, the daily thread and the code form, each with a request in flight.

## 3. Model checking

| Run | Properties | Distinct states | Shows |
|---|---|---|---|
| `requests` | NoPhantom, OneExposure, CloseBacked | 1,366,298 | Emergency close, close button and stop at every await of the loop, with two refused calls or lost stops and crashes: what the bot holds was filled and recorded, never two live entries, no invented close. |
| `guarded` | NakedGetsProtected | 34,206 | Under the same faults a managed position without a stop gets one or is closed. |
| `rough` | PendingResolves | 298,460 | Every failure kind, a trade by hand and CANCEL: pending entries always end. |
| `recoveryStuck` | RecoveryRetried (refuted) | | A failed recovery blocks entries; only a sync clears the flag, and a flat bot never syncs, against `bot_ict_instance.py` 891-893. |
| `cursus` | OneEntry, Accounted, StopNeverBack, NakedGetsProtected | 652,932 | Market and limit entries, targets and ladder, reverse signals, one failure *or* one request, restarts. |
| `lifecycle` | NoGhost, KeptRunning | 144,480 | Two concurrent requests, among them model switches, a restart, a failed creation, a delisting or a bot stopping itself: no unreachable bot; bots that were started and stopped by nobody, a switch included, run again. |
| `models` | ModelConverges | 110,844 | Starts, model switch, run mode, positions at any time, total limit of two: bots of the old model disappear unless exposed. |
| `decisions` | DailyStop, RepeatNeedsOther, GateIsTemporary | 200,184 | Three setups in either mode of `step()`, and one setup over two days that win and lose, beside a forced entry, with failing reads, limit changes, restarts. |
| `records` | KeepsBook, ExitBooked, ThrottleSurvives, RefusedOnlyByRace, KeepsBars, KeyStops | 522,401 | Records implement TradeBook and every exit is booked unless lost in a named way or forgotten by the button or a failed start, in which case the next start books it; the throttle survives restarts and an order within the cap is refused only when something changed since; no new bar is lost from the cache; a refused key stops the bot. |
| `patterns` | TargetIsDraw, StructureSound, ClosedBarsStand, TradesStand | 51,524 | Every frame of five bars over three prices, and longer ones just before each pattern: targets are open draws, breaks are real, nothing in closed bars is redrawn, the trades of a backtest stand when bars are added. |
| `byHand` | OneEntry, SoldOnce, StopFires | 365,136 | The first bot under two kinds of trouble (lost or refused order, trade by hand, stop or crash). |
| `parts` | HalfOnce, HeldIsKnown, StopOnlyTightens, FlipHappens; BodyKept, UpdateArrives; NotStranded, OneBodyServes; OpensRightly; Remembered; StopFromPast, EntersWithinRisk | 132,747 | Manage; Install; Supervisor; License; Accounts with UsersFile; Engine. |

Each property has a mutant in PROJECT.json: a plausible bug in one definition with which TLC
finds the property violated under the same configuration.

### Bounds

* *IctBot.* Each setup is executed once, so two setups give two orders: enough for a lot to net
  against another and for a stale memory beside a newer one. `MaxFaults` is 2 where protection has two
  attempts, so that the emergency close is reached; `MaxUserTrades` 1, from flat only.
* *Cursus.* `EntryQty` 4 (one lot per target), `MaxEntries` 2, one fault or request; `Ttl` 0 (an unfilled
  limit may be old at once, its age being read only when it is judged), `AuthStop` 1 instead
  of 5, `WriteStop` 3; the first entry is long by symmetry. `Mixed` FALSE: requests and API failures do not
  meet.
* *BotManager.* One user (keys of different users share only the total limit), two or three
  pairs, two requests, one mishap, one restart. `MaxPairsPerUser`, `MaxChoicePairs` have the code's
  values; `MaxTotalBots` is 2 instead of 120 in `models` so that it is reached, `Chunk` 2 there and 6 in
  `lifecycle`. `CHECK_DEADLOCK` is on for these two and all of IctBot: neither can stop.
* *Decision.* The scenes are listed in `MCDecision`; results of a day are in -1..1 with limits 0 and 1, so
  that a limit is met exactly, missed and passed.
* *Ledger.* Three trades, five ticks, of which one is the ten minutes' tolerance; trades of one direction
  are two ticks apart (`Gap`). At most two faults, or two crashes and presses of the close button, and failed
  reads after them (`Mixed` FALSE; nor does the bot die between a fill and its record when an exit was forgotten
  before). Without that, without the gap, or when the bot starts with a position just ended, TLC refutes the refinement (below).
* *Sizing.* Price 100, leverage 10, stops 2 and 5 away, two symbols or one, both branches of sizing and both
  margin modes, two entries of which the first may lose 200 of 500: more than the 25 % that throttle.
  Orders are positions at once. `ThrottleSurvives` is claimed for a single bot whose reads and writes succeed.
* *Candles.* Two bots, five bars of which three are kept by a full fetch and one by a refresh.
* *KeyGuard.* The thresholds are 2; bots of other pairs appear as their notices. `BarsRefused` TRUE: the
  exchange refuses the bars to a refused key, as the tests have it.
* *Chart.* Wing 1, prices 1..3 (longer seeds up to 8), every bar opens where the last closed, the frame does
  not slide; Replay: windows of five bars, TTL 3, hours of four bars.
* *Legacy.* Two targets, one mode (`moving_target`), two kinds of trouble of the three, `Timeouts` FALSE;
  bars end only between steps.
* *Manage.* Six price levels, four moves, one refused write, one failed read or one crash
  (and a start after it that cannot read), one position, two touches; four styles.
  Prices move only once the watcher has seen the last one; one handler at a time.
* *Install.* Two releases, two mishaps of network, lock, kill and a body opened directly. *Supervisor.* Three
  bodies; `Hectic` FALSE: nothing ends a body or asks for a relaunch, and no list or kill fails, while a readiness
  thread or the marker of an earlier request waits (with `Hectic` the invariants hold as well, `NotStranded` does
  not). *License.* One subscription and one referral code, two days of each, grace
  of 2 days instead of 7. *Accounts.* Two keys, pairs and tokens, sessions of two ticks. *UsersFile.* Five
  days, three copies as in the code, one broken file.
* *Engine.* Quotes 1..3, a timeframe of two minutes, two targets, pauses after two losses, ten minutes, one
  gap; signals any; money is additive and free of costs.

### Fairness

* *IctBot*: weak fairness of the loop's own actions (asyncio schedules a ready task) and of answers to it (every
  HTTP call has a timeout), strong fairness of `PendingExpires` (time passes). None for the exchange,
  requests, crashes or the user. *Cursus*, *Legacy*, *Manage*: of the loop, the watcher's handler and, in Manage, of new bars.
* *BotManager*: weak fairness of each owner's calls and of the background task (it sleeps ten minutes,
  not forever). *Decision*: the loop goes on, and some of its steps are in the trading window.
* *records*: the bot's task runs and a stopped bot is started again; the steps of a bot follow each
  other. *Supervisor*, *Install*: threads are scheduled; the user keeps opening the launcher and pressing
  START (strong), which `UpdateArrives` needs and says.

Failures are bounded everywhere, so liveness says: once failures stop, the good thing happens.

## 4. Proofs (TLAPS)

Eight modules hold the theorems, for every value of the constants: any number of setups, users, pairs,
trades, releases, faults, requests and restarts where the runs of section 3 have two or three. They use the
named assumptions of the modules and the hypotheses stated with each theorem. TLC finds a
counterexample when one of these is dropped, but for `AuthStop >= 1` in `Limits`, a bound the proof uses.

| Module | Theorems | Hypothesis |
|---|---|---|
| `IctBotProofs` | `TypeCorrect` | |
| | `OneExposureHolds`, `NoPhantomHolds`, `CloseBackedHolds` | `Quiet` |
| `PositionProofs` (Manage, Decision) | `HalfOnceHolds`, `HeldIsKnownHolds`, `DailyStopHolds`, `RepeatNeedsOtherHolds`, `ManageTypeCorrect`, `DecisionTypeCorrect` | |
| | `StopOnlyTightensHolds` | `Steady` |
| `CursusProofs` | `StopNeverBackHolds` | |
| | `OneEntryHolds`, `AccountedHolds` | `Limits` |
| `BotManagerProofs` | `TypeCorrect` | |
| | `NoGhostHolds` | no run-mode request |
| `RecordsProofs` (Ledger, Sizing, Candles, KeyGuard) | `KeepsBookHolds`, `ExitIsRealHolds` | `~Mixed`, `QuietStart`, `Gap > Tol` |
| | `RefusedOnlyByRaceHolds`, `KeepsBarsHolds`, `RefusalsCountHolds`, `EndsToldHolds`, `SizingTypeCorrect`, `CandlesTypeCorrect`, `KeyGuardTypeCorrect` | |
| | `ThrottleSurvivesHolds` | `DdFactor # 100` |
| `PartsProofs` (Supervisor, License, Install, Accounts, UsersFile) | `OpensRightlyHolds`, `RememberedHolds`, `ProcsTypeCorrect`, `FilesTypeCorrect`, `LicenceTypeCorrect`, `AccountsTypeCorrect`, `StoreTypeCorrect` | |
| | `OneBodyServesHolds` | `Guarded` |
| | `BodyKeptHolds` | no `"meet"` |
| `FirstBotProofs` (Legacy, Engine, Ladder) | `StopFromPastHolds`, `EntersWithinRiskHolds` | |
| | `OneEntryHolds` | `~Timeouts` |
| | `SoldOnceHolds` | `~Timeouts`, `Coarse` |
| `ChartProofs` (Detectors, Setups, Replay, Chart) | `TargetIsDrawHolds`, `StructureSoundHolds`, `ClosedBarsStandHolds`, `TradesStandHolds`, `SetupsSoundHolds`, `TypeCorrect` | |

So every safety property of the passing runs is a theorem. Four theorems state one that no run lists:
`ExitIsReal` (Ledger), `RefusalsCount`, `EndsTold` (KeyGuard) and `SetupsSound` (Chart).

Almost none of the properties is inductive. The strengthened invariants were checked with TLC before they were
proved. What they add, and why:

**IctBot.** `Quiet` rules out `net`, `ack` and `cancel` failures, trades by hand and CANCEL requests; refused
reads and orders, lost stops, emergency closes, the close button, stops and crashes stay in.
`OneExposure` does not say that the loop sends an order only when no other can be alive. `IInv` adds where an
order may rest (`Tracked`), that the read before an order still holds when it is sent (`SendClean`), that a
pending entry lives only at the awaits that handle it and that the shared subroutines return to the point that
called them. The startup sweep is what re-establishes `Tracked` after a crash. `NoPhantom` and `CloseBacked`
need `Backed` besides: everything remembered or read has arrived at the exchange; while an entry is waited for
nothing else is alive, so a position that is read is the entry's; and a close is under way only for a lot
that the exchange lists as closed.

**Manage.** The invariant relates the memory to the exchange through the call under way: `Due` is the
memory as it will be once the answer is used, and `Fits` says that it is not behind the exchange; a position
without a memory is `Hidden` by a failed read, after which what was done with it is blurred too. `Steady`
(no lost answer, no style with both trail and locks) is used for the stop alone: it is what makes the stop that
a sync writes no lower than the exchange's. **Decision.** `DailyStop` needs that flags cover every limit
seen reached *and* every limit but that of the loss the book shows, because a request may lower that one between
two steps; `RepeatNeedsOther` that only the remembered setup can be one ordered before.

**Cursus.** `StopNeverBack` needs that what the bot read is not behind the exchange while it awaits, and that
the stop in memory is the one of the ladder. `EntryInv` holds only while nothing failed unseen; it says what the
bot believes at each await, where a limit may rest, which reads still hold, and when a position may be without a
stop: while it is entered, or while the refused writes are about to stop the bot. `Limits` is
`~Mixed /\ WriteStop \in 1..3 /\ AuthStop >= 1`. The code has 3 and 5 (`bot_trend_instance.py` 59, 56), so this
covers it; with four refused writes, or requests among failures, TLC finds a second entry. `OneEntry` counts the
refused cancel of a resting entry among the failures it excludes (section 5).

**BotManager.** At most one call is inside the lock of a key, and a bot being started is in its slot. The
run-mode route takes no lock, and with it TLC finds the bot nobody can stop.

**Ledger.** `KeepsBook` is proved as a refinement: the initial state maps to one of `TradeBook`, and each action
to a step of it or to a stutter. `LedgerInv` relates file, queue, retries and the exchange's list of closes: which
lines are whole, what the queue may still write, what the bot knows at each await and what a start has
reconciled; that an older exit is missing only while the entry of what is held is in the file (`Foremost`) is what
keeps a start from taking one trade for the other after the close button. Its hypotheses are those of the run (section 3); they are what the ten minutes' tolerance of the match
relies on. **Sizing.** The margin an order needs stays within what was available when the bot read it, and
the peak in the file is the highest equity. A factor of 100 throttles by nothing.

**KeyGuard.** `RefusalsCount` is the safety part of `KeyStops`: with a refused key the pair (adapter's streak, loop's
streak) rises in lexicographic order at every step, both are bounded by the threshold (`KeyGuardTypeCorrect`), and at
the threshold the bot ends; what liveness adds is that steps follow each other. It needs `BarsRefused`, which is a
premise of the property (section 5). `EndsTold` says that no bot ends itself without a notice, or with a wrong one.

**Accounts, UsersFile, Candles.** The given key is the saved one whichever schema wrote the row; a copy per day, all
of them before or since the break; only the task that holds the lock has an answer under way, and
the answer of the history has every bar that must stay.

**Supervisor, License, Install.** Who serves has a handle of the mutex, and a handle goes only with its process:
so who finds none finds nobody serving, whatever was listed, ended or missed. What the file, the
gate and the daily thread hold of a licence is genuine: the server has said it. Of the body's files
`Unharmed` says where the new and the old body are at each point of a swap, `Survives` what one mishap leaves.

**Legacy.** `SoldOnce`: the plan knows every sale, and a file that has missed one does not match the position
that is left, because the code compares quantities to a tenth. This is where `Coarse` comes from: a target
that sells no more than a fifth can be missed, and TLC then finds it sold twice (allocations 1 and 12); the
code's default is a quarter each (`risk.py` 64). `~Timeouts`: a reading that times out counts as "no
position", which admits the second entry. **Engine.** A trade's stop is a level behind the best of the
earlier bars; the counters of losses and the end of the pause agree with the exits. The sums of
shares the plan uses are a recursive function, and that they exist and stay within the whole is proved (`SumsTyped`).

**Chart.** Here the state is a frame and the difficulty is in the functions of it: scans and walks that are recursive
over the bars. The induction theorems of the library cannot be used, but an induction can be written with sets: if a
statement failed for some number, the numbers it fails for would have a least element, as `<` on the naturals is
well-founded (`Climbs`). With it the recursive functions are shown to exist (`ScanIsSeen`, `OrdersAreWalk`,
`SumsExist`) and followed: `ScanSound` says what the scan for breaks holds after each bar, `WalkStands` that the replay's
walk is the same in a frame and in its continuation up to an order that may still be filled. Continuations are the
relation `Begins`, so `ClosedBarsStand` and `TradesStand` hold for whatever follows and not only for the next tick; the
invariant of the specification is no more than that the frame is one (`Framed`). The frames may have any length, any
prices and gaps. `ClosedBarsStand` uses `Wing <= ObWing`, an assumption of `Detectors`: the inducement's bait is a
small swing next to a larger one, and if the small ones needed more bars it could appear later than what it belongs
to (the code's defaults are 1 and 5). `SetupsSound` goes source by source; behind it is that each target is chosen beyond
the entry, so that the absolute value in `_calc_rr` is never that of a loss. That the tracker holds one setup
(`TypeCorrect`) needs that a bar can close across one gap only and that a gap has one nearest target.

### Only model-checked

*Liveness*: NakedGetsProtected, PendingResolves, KeptRunning, ModelConverges, GateIsTemporary, ExitBooked, KeyStops,
StopFires, FlipHappens, UpdateArrives, NotStranded. Fairness and ENABLED are out of the prover's reach. So is what a
hypothesis of the table leaves out: there TLC has a counterexample.

## 5. What the checks taught

`recoveryStuck` is kept as a run because a comment of the code says the opposite of what happens. The
properties of the passing runs hold under the bounds and hypotheses above; the places below are where TLC
refuted a stronger property, or where the model had to follow the code into something its comments do not
say. None of them is hidden by a weaker property: each is named with the constant or the hypothesis that
keeps it out of a passing run.

**IctBot.** An entry that fills between the position read and its TTL cancel leaves a position nobody
protects (`bot_ict_instance.py` 345 and 934-935 say otherwise; `OrphanIsProtected` states it). `CANCEL` may
erase a newer pending entry than the one it was asked for, so that a second one is sent (hence `Quiet`). A
close may be booked by the start's reconciliation and by the first sync, or by the loop while an emergency close
awaits closed-pnl (`CloseOnce`). A failed read that
the adapter reports as "no position" books a close that never happened (`net`). With a trade by hand in the
account a sync may take it for the bot's (930-932).

**BotManager.** Setting the run mode drops a slot without its lock, which can leave a running bot
unreachable; so the passing run has the owners' other requests. The model switch beside a start can stop
what the user started last. A switch clears the flag of each pair it stops, and of a pair whose start then fails,
or that was not running at the moment, nothing is left to resume (`api/app.py` 1048-1052); `KeptRunning` counts
that as stopped, and without the exception TLC finds the loss. The background task decides on a snapshot, and asks for exposure before it takes
the lock.

**Cursus.** In limit mode a stop or restart with a half-filled entry leaves the rest resting: the sweep at
the start happens only when flat (213-215). A refused read at adoption lets a signal open a second entry
(760 says it cannot), and an emergency close refused there falls through to the signal. The emergency close
after a wrong direction is always rejected. A limit that fills between read and TTL cancel is adopted
without an ENTRY record. A refused cancel is swallowed by client and adapter (`ccxt_client.py` 574-579): the bot
drops `_pending_limit` while the order rests, against the comment at 644, and may order again once the key is
renewed; the model has it, and `OneEntry` excludes it by `faults`. `_fetch_equity` gives 0.0 on failure, and a day that starts on it has no loss limit
(1142).

**Ledger.** Two entries of one direction less than ten minutes apart may swap results, and an open one may
be booked closed with the other's (4135). The close button (`api/app.py` 1396, 1361), the branch of
`_emergency_close` that finds nothing held (3071) and a start whose read failed clear or miss the position
without a record: the exit is missing until the next start, which is the exception `ExitBooked` names. If the bot
dies between the next trade's fill and its record, that start adopts the new position as the old entry, and
reconciliation and sync both book its exit; `Mixed` excludes it. The past bug of a closing event with another trade's result is the
mutant of `KeepsBook`.

**Sizing.** Several pairs write the peak file from their own memory, so the file's peak can fall (2764 and
2772 call it monotonic). A failed balance read sizes by 1000 USDT and poisons the peak for good. The smart
size factor (up to 1.3) is applied after the cap of risk per trade. Two pairs may read the same available
margin, so a refused order is not ruled out (2294 says it is, `margin_guard.py` 8 says it is not).

**KeyGuard.** If the exchange answers public bars to a refused key, the success clears the streak each step
and the bot never stops itself (`BarsRefused` FALSE). The streak of refused writes outlives the automatic
stop, since slot and adapter are reused: after the permission is granted the next start stops again at its
first step. A notice is recorded before it is sent, so one that fails is not repeated for six hours.

**Decision.** Only the last setup is remembered: A, B, A orders A twice (1427 says one setup, one
order). When the first balance read of a step fails and the second succeeds, the daily reset wipes the
losses just read. A failed read of the day's closes gives 0 although the doc says that the old value is
kept. Daily flags are lost by a restart. The multi-timeframe step never reads the day's result, nor looks at
a pending entry or at the recovery flag. A forced entry and the loop may both pass the checks.

**Candles.** The merged series has a hole, or keeps a forming bar, when nobody asks for more than 200 bars
for longer than that; a failed prefetch of one timeframe leaves it at 200 bars, because the next sees that
it exists.

**Manage.** A failed read that passes for "no position" makes the bot forget a live position for the rest
of its life, as no step without a memory syncs; the entry check alone (2134) still sees it. A restart
forgets that the first half was left at the exchange: bot and exchange then both sell
it (326-331 promise the contrary). A lost answer of the half order sells again, one of a stop write moves
the stop back at the next sync. Trailing together with locks moves a trailed stop back to entry.
`fetch_ticker` returns a number where the watcher expects a dict, so polling never handles a price and the
confirming read never happens (`flip_watcher.py` 182). The loop that should bring the WebSocket back is not
started from inside the WebSocket's own task (124). A target the watcher drops for its R is never tried
again by it. A slow flip lets the loop book the same close.

**Detectors and Replay.** Structure events and order blocks repaint, so `ClosedBarsStand` covers the others.
A turtle setup is offered after its target was reached; the tracker takes up a stopped setup again
(`htf_setup_tracker.py` 8 says it does not). `replay.py` 17 promises "stop first" when a bar meets both
ends, the default goes by the bar's colour; an order that will not fill is skipped with knowledge of the
bars after it, hence the proviso in `TradesStand`.

**Engine.** `engine.py` 296-298 forbids closing and opening in one minute, but after a stop or the last
target of the same minute an entry follows. A bar that sells a part does not move `highest_since_entry`
(336), so the percent modes trail late. Drawdown is taken from the initial capital.

**Legacy.** Two `/start` calls at once run two loops. A read that times out counts as "no position", before
an entry and, three times in a row, for a live position (`Timeouts`). There is no stop at the exchange. A
jump over two targets sells the later share only. A crash between a partial close and its save makes the
restored position "external". Dust below $200 is closed, the user's own as well.

**Install, Supervisor, License.** Two broken-off swaps can cost the body, as can a truncated `.new` of the
launcher that counts as complete (`launcher.py` 751), a refused move after a rename, or a direct body that
swaps beside START; `BodyKept` allows one mishap. A release published between check and download makes the
version file newer than the body. The ICT launcher asks `/health`, which the ICT body does not serve (it has
`/ict/health`), so readiness always ends at the deadline; if the body dies while booting the late forced
hide strands the window (`Hectic`). So may a kill that fails: the launcher's own body finds the mutex taken and
leaves, the window is shown, the readiness thread hides it, and then the other body ends. The ICT body neither ends
others nor asks for a mutex (`Guarded`): there two bodies do serve. What the mutex call answers is believed (`GetLastError` asked through
`ctypes` in a second call, `webview.py` 61-62). A
verification in flight saves a licence that was just deleted, or overwrites a newer one.

**UsersFile.** Copies of the new empty file push the good ones out: with the three
copies the code keeps, users can be recovered for two days only.

## 6. What is left out, and why

* *Data.* Quantities (except in Sizing and Cursus), scores and confluences, the numerical parts of
  indicators, time windows as clock times, wording, logging. A gate that depends on them refuses or not.
  Small sizes are thresholds that the detectors' frames cannot tell apart: equal levels are equal prices,
  ATR is the mean of all bars, fixed ratios stand for configurable ones.
* *IctBot.* One request at a time on a bot; awaits with nothing between them that others could see are
  merged; partial fills. *BotManager.* Excluded and legacy pairs, leverage, timeframe and enabled routes,
  database write failures; waiters of a lock are served in any order. *Decision.* Sizes of a forced entry.
  *Sizing.* Forced entries, which have no cap, balances of other exchanges, the entry shift after the cap.
  *KeyGuard.* Calls that are not answered.
* *Ledger.* Partial closes and the 90 % rule, the SQLite mirror and the journal, classification by price.
  *Manage.* The reversal after a flip (switched off in the code), back-off times, a failed read at an entry. *Cursus.* Dual-SuperTrend,
  the daily loss limit, alerts.
* *Detectors.* The older order-block algorithm, automatic thresholds, SMT, MMBM, CISD, weekly profiles, the
  lower-timeframe confirmer, the 0.05 % buffer. *Replay, Engine.* Costs, slippage, the band gate,
  statistics, how bars are aggregated.
* *Accounts.* The rate limiter, hashing, and that only the middleware enforces an expired licence.
  *UsersFile.* Copies that fail half-way (they take a place and count as the day's). *Legacy.* Paper mode,
  live configuration, records, two starts at once, failing file writes. *Install.* macOS bundles, checksum
  arithmetic; an HTTP body that ends early is taken as whole on Windows. *Supervisor.* Shortcuts and tray.
* *Whole components.* Alerts and the migration of old files (fire and forget), the single-user manager (adds
  no interaction), read-only routes, the market aggregation (feeds no order), routes and indicators of the
  first bot, user interfaces, Android, website and scripts.

## 7. Plan

Proofs: a type theorem for Ledger, Legacy, Engine and Cursus, whose invariants above have all but the bounds; under which
schedules `CloseOnce` of IctBot holds; refinements of IctBot and Cursus to one abstract bot.

Then modelling: the notices about refused orders, the rate limiter, partial closes in the records, the
scores that boost a size, the remaining routes of the first bot, the macOS paths of the updater.
