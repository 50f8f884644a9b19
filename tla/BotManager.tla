----------------------------- MODULE BotManager -----------------------------
(***************************************************************************)
(* MultiUserBotManager and its callers: the bot slots of every user and    *)
(* pair, the flags kept in users.db, the HTTP routes that start, stop and  *)
(* switch bots, and the background task that resumes flagged bots and      *)
(* reconciles pairs and models every ten minutes.                          *)
(*                                                                         *)
(* All of it runs on one asyncio loop, so an action is the code between    *)
(* two awaits.  An owner (a route or the background task "boss") works     *)
(* through job[o].todo; stage[o][k] is where its call for key k waits.     *)
(* A call past "waitStart" or "waitStop" holds the lock of its key.        *)
(***************************************************************************)
EXTENDS Naturals, FiniteSets

CONSTANTS
    Users, Pairs,
    Default,        \* the pair a route without a symbol means (BTC)
    FixedOf,        \* the fixed pairs of each model
    Clients,        \* HTTP requests that can be in progress at once
    Routes,         \* which routes this instance uses
    Trading,        \* the pairs whose bots open positions in this instance
    MaxPairsPerUser, MaxChoicePairs, MaxTotalBots,
    Chunk,          \* how many bots the background task resumes at once
    Mishaps,        \* which failures can happen
    MaxRequests, MaxMishaps, MaxRestarts   \* bounds

Models == {"ict", "cursus"}

AllRoutes == {"start", "startAll", "stop", "stopAll", "view", "switch", "runMode"}

\* create: the client or the bot cannot be made now; delist: the pair has left
\* the tradable list; autoStop: a bot stops itself (key refused)
AllMishaps == {"create", "delist", "autoStop"}

ASSUME ManagerAssumption ==
    /\ Default \in Pairs
    /\ FixedOf \in [Models -> SUBSET Pairs]
    /\ "boss" \notin Clients
    /\ Routes \subseteq AllRoutes
    /\ Trading \subseteq Pairs
    /\ Mishaps \subseteq AllMishaps
    /\ {MaxPairsPerUser, MaxChoicePairs, MaxTotalBots} \subseteq Nat
    /\ Chunk \in Nat \ {0}
    /\ {MaxRequests, MaxMishaps, MaxRestarts} \subseteq Nat

Keys == Users \X Pairs
Owners == Clients \cup {"boss"}

VARIABLES
    slot,       \* _slots: state and model of the bot of each key
    ghosts,     \* running bots that are no longer in _slots
    flags,      \* bot_running_symbols
    prefer,     \* last_active_pairs
    model,      \* last_model of each user
    migrated,   \* users with the .fixed_pairs_migrated marker
    exposed,    \* keys whose bot has a position or an order
    wanted,     \* history: keys started by the user, or again by a switch, and stopped
                \* by neither since
    job, stage, \* per owner: what it works on; per call: where it waits
    round,      \* the reconciliation round: users left, keys started
    used        \* bounds: requests, mishaps and restarts so far

files == <<flags, prefer, model, migrated>>
vars == <<slot, ghosts, flags, prefer, model, migrated, exposed, wanted,
          job, stage, round, used>>

NoSlot == [state |-> "none", model |-> "ict"]
Slots == [state : {"none", "stopped", "running"}, model : Models]

Kinds == AllRoutes \cup {"none", "ask", "resume", "users", "retire", "migrate", "swapUsers", "swap"}
Stages == {"no", "probe", "waitStop", "closing", "closed", "waitStart", "creating", "starting"}
Nobody == [kind |-> "none", who |-> {}, todo |-> {}, clear |-> {},
           again |-> FALSE, model |-> "ict"]
NoRound == [users |-> {}, started |-> {}]

TypeOK ==
    /\ slot \in [Keys -> Slots]
    /\ {ghosts, flags, prefer, exposed, wanted} \subseteq SUBSET Keys
    /\ model \in [Users -> Models]
    /\ migrated \subseteq Users
    /\ job \in [Owners -> [kind : Kinds, who : SUBSET Users, todo : SUBSET Keys,
                           clear : SUBSET Keys, again : BOOLEAN, model : Models]]
    /\ stage \in [Owners -> [Keys -> Stages]]
    /\ round \in [users : SUBSET Users, started : SUBSET Keys]
    /\ used \in [requests : 0..MaxRequests, mishaps : 0..MaxMishaps, restarts : 0..MaxRestarts]

\* What a fresh process has in memory.
Booted ==
    /\ slot' = [k \in Keys |-> NoSlot]
    /\ ghosts' = {}
    /\ job' = [o \in Owners |-> Nobody]
    /\ stage' = [o \in Owners |-> [k \in Keys |-> "no"]]
    /\ round' = NoRound

Init ==
    /\ slot = [k \in Keys |-> NoSlot]
    /\ ghosts = {}
    /\ flags = {} /\ prefer = {} /\ migrated = {}
    /\ model \in [Users -> Models]
    /\ exposed = {}
    /\ wanted = {}
    /\ job = [o \in Owners |-> Nobody]
    /\ stage = [o \in Owners |-> [k \in Keys |-> "no"]]
    /\ round = NoRound
    /\ used = [requests |-> 0, mishaps |-> 0, restarts |-> 0]

-----------------------------------------------------------------------------
(* Helpers *)

KeysOf(u) == {u} \X Pairs
InSlots == {k \in Keys : slot[k].state # "none"}
Running(k) == slot[k].state = "running"
Mismatched(k) == slot[k].state # "none" /\ slot[k].model # model[k[1]]

\* Somebody is inside the lock of k.
Locked(k) == \E o \in Owners :
    stage[o][k] \in {"closing", "closed", "creating", "starting"}

Goes(o, k, s) == stage' = [stage EXCEPT ![o][k] = s]
Calling(o) == \E k \in Keys : stage[o][k] # "no"

\* Every call of owner o's job has been made and has returned.
Through(o, kind) == job[o].kind = kind /\ job[o].todo = {} /\ ~Calling(o)

Mishap(m) ==
    /\ m \in Mishaps
    /\ used.mishaps < MaxMishaps
    /\ used' = [used EXCEPT !.mishaps = @ + 1]

Asked == used.requests < MaxRequests /\ used' = [used EXCEPT !.requests = @ + 1]

ByUser(o) == job[o].kind \in {"start", "startAll"}

\* stop() forgets the preference unless the whole account is stopped or the
\* model is exchanged.
Forgets(o) == job[o].kind \in {"stop", "retire", "runMode"}

-----------------------------------------------------------------------------
(* get_or_create_bot's admission *)

\* The limits are counted over the slots that exist now (k has none).
Admitted(k) ==
    LET others == InSlots \ {k}
        mine == others \cap KeysOf(k[1])
        fixed == FixedOf[model[k[1]]]
        choice == {j \in mine : j[2] \notin fixed} IN
    /\ Cardinality(others) < MaxTotalBots
    /\ Cardinality(mine) < MaxPairsPerUser
    /\ k[2] \in fixed \/ Cardinality(choice) < MaxChoicePairs

-----------------------------------------------------------------------------
(* start() and ensure_bot_ready() *)

\* The call of o for k ends successfully with the bot running.
Succeeds(o, k) ==
    /\ flags' = flags \cup {k}
    /\ wanted' = IF ByUser(o) \/ job[o].kind = "migrate" \/ job[o].again
                 THEN wanted \cup {k} ELSE wanted
    /\ round' = IF job[o].kind = "migrate"
                THEN [round EXCEPT !.started = @ \cup {k}] ELSE round
    /\ Goes(o, k, "no")

\* Inside the lock: the bot already runs.
StartAlreadyRunning(o, k) ==
    /\ stage[o][k] = "waitStart" /\ ~Locked(k)
    /\ Running(k)
    /\ IF job[o].kind = "view"
       THEN Goes(o, k, "no") /\ UNCHANGED <<flags, wanted, round>>
       ELSE Succeeds(o, k)
    /\ UNCHANGED <<slot, ghosts, prefer, model, migrated, exposed, job, used>>

\* A stopped bot of the chosen model is reused.
StartReuses(o, k) ==
    /\ stage[o][k] = "waitStart" /\ ~Locked(k)
    /\ slot[k].state = "stopped" /\ ~Mismatched(k)
    /\ Goes(o, k, IF job[o].kind = "view" THEN "no" ELSE "starting")
    /\ UNCHANGED <<slot, ghosts, files, exposed, wanted, job, round, used>>

\* No bot, or a stopped one of another model, which is thrown away: the
\* limits decide before the client is created.
StartCreates(o, k) ==
    /\ stage[o][k] = "waitStart" /\ ~Locked(k)
    /\ ~Running(k)
    /\ slot[k].state = "none" \/ Mismatched(k)
    /\ slot' = [slot EXCEPT ![k] = NoSlot]
    /\ Goes(o, k, IF Admitted(k) THEN "creating" ELSE "no")
    /\ UNCHANGED <<ghosts, files, exposed, wanted, job, round, used>>

\* The client is there and the pair is tradable: only now the slot exists.
Created(o, k) ==
    /\ stage[o][k] = "creating"
    /\ slot' = [slot EXCEPT ![k] = [state |-> "stopped", model |-> model[k[1]]]]
    /\ Goes(o, k, IF job[o].kind = "view" THEN "no" ELSE "starting")
    /\ UNCHANGED <<ghosts, files, exposed, wanted, job, round, used>>

\* The client cannot be made: the call raises, the flag stays for a retry.
CreateFails(o, k) ==
    /\ stage[o][k] = "creating"
    /\ Mishap("create")
    /\ Goes(o, k, "no")
    /\ UNCHANGED <<slot, ghosts, files, exposed, wanted, job, round>>

\* The pair is not tradable: the background task gives it up for good.
CreateRefused(o, k) ==
    /\ stage[o][k] = "creating"
    /\ Mishap("delist")
    /\ Goes(o, k, "no")
    /\ IF job[o].kind = "resume"
       THEN /\ flags' = flags \ {k}
            /\ prefer' = prefer \ {k}
            /\ wanted' = wanted \ {k}
       ELSE UNCHANGED <<flags, prefer, wanted>>
    /\ UNCHANGED <<slot, ghosts, model, migrated, exposed, job, round>>

\* bot.start() has returned; the bot object runs whether or not its slot is
\* still in _slots.
Started(o, k) ==
    /\ stage[o][k] = "starting"
    /\ IF slot[k].state = "none"
       THEN ghosts' = ghosts \cup {k} /\ UNCHANGED slot
       ELSE slot' = [slot EXCEPT ![k].state = "running"] /\ UNCHANGED ghosts
    /\ Succeeds(o, k)
    /\ prefer' = prefer \cup {k}
    /\ UNCHANGED <<model, migrated, exposed, job, used>>

-----------------------------------------------------------------------------
(* stop() *)

\* After stop() the job goes on with start() where the bot had been running.
AfterStop(o, k) == Goes(o, k, IF job[o].again THEN "waitStart" ELSE "no")

\* A mistake: stop does not take the lock.
StopBeginsUnlocked(o, k) ==
    /\ stage[o][k] = "waitStop"
    /\ flags' = flags \ {k}
    /\ prefer' = IF Forgets(o) THEN prefer \ {k} ELSE prefer
    /\ wanted' = wanted \ {k}
    /\ IF slot[k].state = "none" THEN AfterStop(o, k) ELSE Goes(o, k, "closing")
    /\ UNCHANGED <<slot, ghosts, model, migrated, exposed, job, round, used>>

\* Inside the lock: the flags are cleared first, slot or not.
StopBegins(o, k) ==
    /\ stage[o][k] = "waitStop" /\ ~Locked(k)
    /\ flags' = flags \ {k}
    /\ prefer' = IF Forgets(o) THEN prefer \ {k} ELSE prefer
    /\ wanted' = wanted \ {k}
    /\ IF slot[k].state = "none" THEN AfterStop(o, k) ELSE Goes(o, k, "closing")
    /\ UNCHANGED <<slot, ghosts, model, migrated, exposed, job, round, used>>

\* bot.stop() has returned and the client is being closed.
BotStopped(o, k) ==
    /\ stage[o][k] = "closing"
    /\ slot' = [slot EXCEPT ![k].state = IF @ = "none" THEN @ ELSE "stopped"]
    /\ Goes(o, k, "closed")
    /\ UNCHANGED <<ghosts, files, exposed, wanted, job, round, used>>

StopEnds(o, k) ==
    /\ stage[o][k] = "closed"
    /\ slot' = [slot EXCEPT ![k] = NoSlot]
    /\ AfterStop(o, k)
    /\ UNCHANGED <<ghosts, files, exposed, wanted, job, round, used>>

-----------------------------------------------------------------------------
(* The HTTP routes *)

Begin(o, kind, todo) ==
    /\ kind \in Routes
    /\ job[o].kind = "none"
    /\ Asked
    /\ job' = [job EXCEPT ![o] = [Nobody EXCEPT !.kind = kind, !.todo = todo]]

RequestStart(o, k) ==
    /\ Begin(o, "start", {k})
    /\ UNCHANGED <<slot, ghosts, files, exposed, wanted, stage, round>>

\* start_preferred: the fixed pairs and up to MaxChoicePairs remembered ones.
RequestStartAll(o, u) ==
    LET fixed == FixedOf[model[u]]
        last == {k \in prefer \cap KeysOf(u) : k[2] \notin fixed} IN
    /\ \E choice \in SUBSET last :
          /\ Cardinality(choice) = IF Cardinality(last) < MaxChoicePairs
                                   THEN Cardinality(last) ELSE MaxChoicePairs
          /\ Begin(o, "startAll", ({u} \X fixed) \cup choice)
    /\ UNCHANGED <<slot, ghosts, files, exposed, wanted, stage, round>>

RequestStop(o, k) ==
    /\ Begin(o, "stop", {k})
    /\ wanted' = wanted \ {k}
    /\ UNCHANGED <<slot, ghosts, files, exposed, stage, round>>

\* stop_user: a snapshot of the flagged pairs and the slots.
RequestStopAll(o, u) ==
    /\ Begin(o, "stopAll", (flags \cup InSlots) \cap KeysOf(u))
    /\ wanted' = wanted \ KeysOf(u)
    /\ UNCHANGED <<slot, ghosts, files, exposed, stage, round>>

\* The chart of the default pair: a bot that is created but not started.
RequestView(o, u) ==
    /\ Begin(o, "view", {<<u, Default>>})
    /\ UNCHANGED <<slot, ghosts, files, exposed, wanted, stage, round>>

\* Model switch: first every pair is asked for a position.
RequestSwitch(o, u, m) ==
    /\ "switch" \in Routes
    /\ m # model[u]
    /\ job[o].kind = "none"
    /\ Asked
    /\ job' = [job EXCEPT ![o] = [Nobody EXCEPT !.kind = "ask", !.who = {u},
                                  !.todo = InSlots \cap KeysOf(u), !.model = m]]
    /\ UNCHANGED <<slot, ghosts, files, exposed, wanted, stage, round>>

\* Then the model is stored, and the pairs without a position are exchanged in
\* the background; the others wait for reconcile_models.
Switch(o) ==
    /\ Through(o, "ask")
    /\ model' = [u \in Users |-> IF u \in job[o].who THEN job[o].model ELSE model[u]]
    /\ job' = [job EXCEPT ![o].kind = "switch", ![o].todo = job[o].clear]
    /\ UNCHANGED <<slot, ghosts, flags, prefer, migrated, exposed, wanted, stage, round, used>>

\* Demo/live switch of the default pair: a running bot is stopped and started
\* again; the slot of a bot that is not running is dropped without the lock.
RequestRunMode(o, u) ==
    LET k == <<u, Default>> IN
    /\ IF Running(k)
       THEN /\ Begin(o, "runMode", {k})
            /\ UNCHANGED slot
       ELSE /\ "runMode" \in Routes /\ job[o].kind = "none" /\ Asked
            /\ slot[k].state # "none"
            /\ slot' = [slot EXCEPT ![k] = NoSlot]
            /\ UNCHANGED job
    /\ UNCHANGED <<ghosts, files, exposed, wanted, stage, round>>

RouteEnds(o) ==
    /\ \E kind \in AllRoutes : Through(o, kind)
    /\ job' = [job EXCEPT ![o] = Nobody]
    /\ UNCHANGED <<slot, ghosts, files, exposed, wanted, stage, round, used>>

-----------------------------------------------------------------------------
(* One key after the other *)

Takes(o, k, kinds) ==
    /\ job[o].kind \in kinds
    /\ k \in job[o].todo
    /\ ~Calling(o)

CallStart(o, k) ==
    /\ Takes(o, k, {"start", "startAll", "view", "migrate"})
    /\ job' = [job EXCEPT ![o].todo = @ \ {k}]
    /\ Goes(o, k, "waitStart")
    /\ UNCHANGED <<slot, ghosts, files, exposed, wanted, round, used>>

\* A switch remembers whether the bot runs before it waits for the lock.
CallStop(o, k) ==
    /\ Takes(o, k, {"stop", "stopAll", "switch", "runMode"})
    /\ job' = [job EXCEPT ![o].todo = @ \ {k},
                          ![o].again = \/ job[o].kind = "runMode"
                                       \/ job[o].kind = "switch" /\ Running(k)]
    /\ Goes(o, k, "waitStop")
    /\ UNCHANGED <<slot, ghosts, files, exposed, wanted, round, used>>

\* A mistake: reconcile_models leaves running bots alone, as get_or_create_bot
\* does.
SkipMatchingOrRunning(o, k) ==
    /\ Takes(o, k, {"swap"})
    /\ slot[k].state # "stopped" \/ slot[k].model = job[o].model
    /\ job' = [job EXCEPT ![o].todo = @ \ {k}]
    /\ UNCHANGED <<slot, ghosts, files, exposed, wanted, stage, round, used>>

\* reconcile_models leaves a bot of the chosen model alone.
SkipMatching(o, k) ==
    /\ Takes(o, k, {"swap"})
    /\ slot[k].state = "none" \/ slot[k].model = job[o].model
    /\ job' = [job EXCEPT ![o].todo = @ \ {k}]
    /\ UNCHANGED <<slot, ghosts, files, exposed, wanted, stage, round, used>>

\* _has_live_exposure: what the bot itself knows comes first.
Probe(o, k) ==
    /\ Takes(o, k, {"ask", "retire", "swap"})
    /\ job[o].kind = "swap" => slot[k].state # "none" /\ slot[k].model # job[o].model
    /\ job' = [job EXCEPT ![o].todo = @ \ {k},
                  ![o].clear = IF job[o].kind = "ask" /\ slot[k].state = "none"
                               THEN @ \cup {k} ELSE @]
    /\ Goes(o, k, IF slot[k].state = "none"
                  THEN IF job[o].kind = "retire" THEN "waitStop" ELSE "no"
                  ELSE IF k \in exposed THEN "no" ELSE "probe")
    /\ UNCHANGED <<slot, ghosts, files, exposed, wanted, round, used>>

\* The exchange answers; a bot without a position is stopped as soon as the
\* lock is free, without looking again.
ProbeAnswered(o, k) ==
    /\ stage[o][k] = "probe"
    /\ job' = [job EXCEPT
          ![o].clear = IF job[o].kind = "ask" /\ k \notin exposed THEN @ \cup {k} ELSE @,
          ![o].again = (job[o].kind = "swap" /\ Running(k))]
    /\ Goes(o, k, IF job[o].kind # "ask" /\ k \notin exposed THEN "waitStop" ELSE "no")
    /\ UNCHANGED <<slot, ghosts, files, exposed, wanted, round, used>>

-----------------------------------------------------------------------------
(* The background task: resume, reconcile_fixed_pairs, reconcile_models *)

BossBecomes(kind, who, todo) ==
    job' = [job EXCEPT !["boss"] = [Nobody EXCEPT
              !.kind = kind, !.who = who, !.todo = todo,
              !.model = IF \E u \in who : model[u] = "cursus" THEN "cursus" ELSE "ict"]]

\* A mistake: only bots that have no slot are resumed.
BossWakesForLost ==
    /\ job["boss"].kind = "none"
    /\ BossBecomes("resume", {}, flags \ InSlots)
    /\ UNCHANGED <<slot, ghosts, files, exposed, wanted, stage, round, used>>

\* auto_resume_running_bots works on a snapshot of the flags.
BossWakes ==
    /\ job["boss"].kind = "none"
    /\ BossBecomes("resume", {}, flags)
    /\ UNCHANGED <<slot, ghosts, files, exposed, wanted, stage, round, used>>

ResumeChunk ==
    /\ job["boss"].kind = "resume" /\ ~Calling("boss")
    /\ \E C \in SUBSET job["boss"].todo :
          /\ C # {}
          /\ Cardinality(C) = Chunk \/ (C = job["boss"].todo /\ Cardinality(C) < Chunk)
          /\ job' = [job EXCEPT !["boss"].todo = @ \ C]
          /\ stage' = [stage EXCEPT !["boss"] =
                          [k \in Keys |-> IF k \in C THEN "waitStart" ELSE @[k]]]
    /\ UNCHANGED <<slot, ghosts, files, exposed, wanted, round, used>>

\* A reconciliation begins with the users that have slots.
RoundBegins(before, kind) ==
    /\ Through("boss", before)
    /\ BossBecomes(kind, {}, {})
    /\ round' = [users |-> {k[1] : k \in InSlots}, started |-> {}]
    /\ UNCHANGED <<slot, ghosts, files, exposed, wanted, stage, used>>

\* Pairs that are fixed in some model but not in the user's are retired.
RetireUser(u) ==
    /\ Through("boss", "users")
    /\ u \in round.users
    /\ round' = [round EXCEPT !.users = @ \ {u}]
    /\ BossBecomes("retire", {u}, {k \in InSlots \cap KeysOf(u) :
          k[2] \in (UNION {FixedOf[m] : m \in Models}) \ FixedOf[model[u]]})
    /\ UNCHANGED <<slot, ghosts, files, exposed, wanted, stage, used>>

\* Fixed pairs only the user's model has, and that have no slot.
Missing ==
    LET m == job["boss"].model IN
    {k \in job["boss"].who \X FixedOf[m] :
        k \notin InSlots /\ \E other \in Models \ {m} : k[2] \notin FixedOf[other]}

\* They are started once per user.
RetireDone ==
    /\ Through("boss", "retire")
    /\ IF Missing = {} \/ job["boss"].who \subseteq migrated
       THEN BossBecomes("users", {}, {})
       ELSE job' = [job EXCEPT !["boss"].kind = "migrate", !["boss"].todo = Missing]
    /\ UNCHANGED <<slot, ghosts, files, exposed, wanted, stage, round, used>>

\* The marker is written if anything was started in this round, for any user.
MigrateDone ==
    /\ Through("boss", "migrate")
    /\ migrated' = IF round.started # {} THEN migrated \cup job["boss"].who ELSE migrated
    /\ BossBecomes("users", {}, {})
    /\ UNCHANGED <<slot, ghosts, flags, prefer, model, exposed, wanted, stage, round, used>>

\* reconcile_models, one user after the other.
SwapUser(u) ==
    /\ Through("boss", "swapUsers")
    /\ u \in round.users
    /\ round' = [round EXCEPT !.users = @ \ {u}]
    /\ BossBecomes("swap", {u}, InSlots \cap KeysOf(u))
    /\ UNCHANGED <<slot, ghosts, files, exposed, wanted, stage, used>>

SwapDone ==
    /\ Through("boss", "swap")
    /\ BossBecomes("swapUsers", {}, {})
    /\ UNCHANGED <<slot, ghosts, files, exposed, wanted, stage, round, used>>

\* Ten minutes of sleep.
BossSleeps ==
    /\ Through("boss", "swapUsers") /\ round.users = {}
    /\ job' = [job EXCEPT !["boss"] = Nobody]
    /\ UNCHANGED <<slot, ghosts, files, exposed, wanted, stage, round, used>>

-----------------------------------------------------------------------------
(* What happens to bots without the manager *)

\* A bot opens a position, or it ends.
Trade(k) ==
    /\ k[2] \in Trading
    /\ exposed' \in {exposed \cup {k}, exposed \ {k}}
    /\ k \in exposed' => Running(k) \/ k \in ghosts
    /\ exposed' # exposed
    /\ UNCHANGED <<slot, ghosts, files, wanted, job, stage, round, used>>

\* A bot whose key is refused again and again stops itself; the flag stays.
AutoStop(k) ==
    /\ Running(k)
    /\ Mishap("autoStop")
    /\ slot' = [slot EXCEPT ![k].state = "stopped"]
    /\ UNCHANGED <<ghosts, files, exposed, wanted, job, stage, round>>

\* Crash or redeployment: the process starts again with what users.db has.
Restart ==
    /\ used.restarts < MaxRestarts
    /\ used' = [used EXCEPT !.restarts = @ + 1]
    /\ Booted
    /\ UNCHANGED <<files, exposed, wanted>>

-----------------------------------------------------------------------------

Request(o) ==
    \/ \E k \in Keys : RequestStart(o, k) \/ RequestStop(o, k)
    \/ \E u \in Users : \/ RequestStartAll(o, u) \/ RequestStopAll(o, u)
                        \/ RequestView(o, u) \/ RequestRunMode(o, u)
                        \/ \E m \in Models : RequestSwitch(o, u, m)

StartCall(o, k) == StartAlreadyRunning(o, k) \/ StartReuses(o, k) \/ StartCreates(o, k)
                   \/ Created(o, k) \/ CreateRefused(o, k) \/ Started(o, k)

StopCall(o, k) == StopBegins(o, k) \/ BotStopped(o, k) \/ StopEnds(o, k)

Work(o) ==
    \/ \E k \in Keys : \/ CallStart(o, k) \/ CallStop(o, k)
                       \/ SkipMatching(o, k) \/ Probe(o, k) \/ ProbeAnswered(o, k)
                       \/ StartCall(o, k) \/ CreateFails(o, k) \/ StopCall(o, k)
    \/ Switch(o)
    \/ RouteEnds(o)

Supervise ==
    \/ BossWakes
    \/ ResumeChunk
    \/ RoundBegins("resume", "users")
    \/ \E u \in Users : RetireUser(u)
    \/ RetireDone
    \/ MigrateDone
    \/ round.users = {} /\ RoundBegins("users", "swapUsers")
    \/ \E u \in Users : SwapUser(u)
    \/ SwapDone
    \/ BossSleeps

Next ==
    \/ \E o \in Clients : Request(o)
    \/ \E o \in Owners : Work(o)
    \/ Supervise
    \/ \E k \in Keys : Trade(k) \/ AutoStop(k)
    \/ Restart

Spec == Init /\ [][Next]_vars

\* Every coroutine that can go on does: exchange calls have timeouts, asyncio
\* schedules all tasks, and the background task sleeps ten minutes, not forever.
FairSpec == Spec /\ (\A o \in Owners : WF_vars(Work(o))) /\ WF_vars(Supervise)

-----------------------------------------------------------------------------
(* Properties *)

\* Every running bot is in _slots, where stop() can reach it.
NoGhost == ghosts = {}

\* A pair the user has started runs again sooner or later, whatever crashes,
\* refused creations and self-stops happen, unless the user or the background
\* task has stopped it or a switch has: a switch clears the flag, and only its
\* own start, which may fail or never come, sets it again.
KeptRunning == \A k \in Keys : k \in wanted ~> k \notin wanted \/ Running(k)

\* A bot of a model the user no longer chooses is replaced or stopped, unless
\* it has a position.
ModelConverges == \A k \in Keys : Mismatched(k) ~> ~Mismatched(k) \/ k \in exposed
=============================================================================
