--------------------------- MODULE BotManagerProofs ---------------------------
(***************************************************************************)
(* Theorems about the bot slots of BotManager, for any users, pairs,       *)
(* requests and restarts: at most one call works on a slot, and no bot     *)
(* runs outside the slots, where nobody could stop it.                     *)
(***************************************************************************)
EXTENDS BotManager, TLAPS

-----------------------------------------------------------------------------
(* Types *)

Jobs == [kind : Kinds, who : SUBSET Users, todo : SUBSET Keys,
         clear : SUBSET Keys, again : BOOLEAN, model : Models]
Rounds == [users : SUBSET Users, started : SUBSET Keys]
Bounds == [requests : 0..MaxRequests, mishaps : 0..MaxMishaps, restarts : 0..MaxRestarts]

\* TypeOK, one variable after the other.
Kept == ghosts \subseteq Keys /\ flags \subseteq Keys /\ prefer \subseteq Keys
        /\ exposed \subseteq Keys /\ wanted \subseteq Keys
Placed == slot \in [Keys -> Slots] /\ stage \in [Owners -> [Keys -> Stages]]
Chosen == model \in [Users -> Models] /\ migrated \subseteq Users
Busy == job \in [Owners -> Jobs] /\ round \in Rounds /\ used \in Bounds

\* The type invariant, cut into the parts that actions disturb separately.
LEMMA TypeParts == /\ TypeOK <=> Kept /\ Placed /\ Chosen /\ Busy
                   /\ TypeOK' <=> Kept' /\ Placed' /\ Chosen' /\ Busy'
<1>1. /\ {ghosts, flags, prefer, exposed, wanted} \subseteq SUBSET Keys <=> Kept
      /\ {ghosts', flags', prefer', exposed', wanted'} \subseteq SUBSET Keys <=> Kept'
  BY DEF Kept
<1> QED BY <1>1 DEF TypeOK, Placed, Chosen, Busy, Jobs, Rounds, Bounds

\* The values that slots take.
LEMMA SlotValues ==
    /\ NoSlot \in Slots
    /\ \A m \in Models : [state |-> "stopped", model |-> m] \in Slots
    /\ \A v \in Slots : v.state \in {"none", "stopped", "running"} /\ v.model \in Models
    /\ \A v \in Slots, t \in {"none", "stopped", "running"} :
          [v EXCEPT !.state = t] \in Slots /\ [v EXCEPT !.state = t].state = t
BY DEF NoSlot, Slots, Models

\* One call moves on.
LEMMA OneMoves ==
    ASSUME Placed, NEW o \in Owners, NEW k \in Keys, NEW s \in Stages, Goes(o, k, s)
    PROVE  /\ stage' \in [Owners -> [Keys -> Stages]]
           /\ stage'[o][k] = s
           /\ \A p \in Owners, j \in Keys : (p # o \/ j # k) => stage'[p][j] = stage[p][j]
BY DEF Placed, Goes

\* What becomes of an owner's job.
LEMMA JobValues ==
    /\ Nobody \in Jobs
    /\ \A j \in Jobs : /\ j.who \subseteq Users /\ j.todo \subseteq Keys /\ j.clear \subseteq Keys
                       /\ j.kind \in Kinds /\ j.again \in BOOLEAN /\ j.model \in Models
    /\ \A j \in Jobs, d \in SUBSET Keys : [j EXCEPT !.todo = d] \in Jobs
    /\ \A j \in Jobs, d \in SUBSET Keys, b \in BOOLEAN :
          [j EXCEPT !.todo = d, !.again = b] \in Jobs
    /\ \A j \in Jobs, d, c \in SUBSET Keys : [j EXCEPT !.todo = d, !.clear = c] \in Jobs
    /\ \A j \in Jobs, c \in SUBSET Keys, b \in BOOLEAN :
          [j EXCEPT !.clear = c, !.again = b] \in Jobs
    /\ \A j \in Jobs, t \in Kinds, d \in SUBSET Keys :
          [j EXCEPT !.kind = t, !.todo = d] \in Jobs
    /\ \A t \in Kinds, w \in SUBSET Users, d \in SUBSET Keys, m \in Models :
          [Nobody EXCEPT !.kind = t, !.who = w, !.todo = d, !.model = m] \in Jobs
BY ZenonT(30) DEF Nobody, Jobs, Kinds, Models

\* One owner's job changes.
LEMMA JobChanges ==
    ASSUME Busy, NEW o \in Owners, NEW j \in Jobs, job' = [job EXCEPT ![o] = j]
    PROVE  job' \in [Owners -> Jobs]
BY DEF Busy

\* The background task is one of the owners and takes up any work.
LEMMA BossTyped ==
    ASSUME TypeOK, NEW kind \in Kinds, NEW who \in SUBSET Users, NEW todo \in SUBSET Keys,
           BossBecomes(kind, who, todo)
    PROVE  job' \in [Owners -> Jobs]
<1> DEFINE m == IF \E u \in who : model[u] = "cursus" THEN "cursus" ELSE "ict"
<1>1. m \in Models
  BY DEF Models
<1>2. job' = [job EXCEPT !["boss"] = [Nobody EXCEPT !.kind = kind, !.who = who, !.todo = todo,
                                                    !.model = m]]
  BY DEF BossBecomes
<1> HIDE DEF m
<1>3. [Nobody EXCEPT !.kind = kind, !.who = who, !.todo = todo, !.model = m] \in Jobs
  BY <1>1, JobValues
<1> QED BY <1>2, <1>3, JobChanges, TypeParts DEF Owners

-----------------------------------------------------------------------------
(* The types are kept *)

\* By start().
LEMMA StartTyped ==
    ASSUME TypeOK, NEW o \in Owners, NEW k \in Keys, StartCall(o, k) \/ CreateFails(o, k)
    PROVE  TypeOK'
<1> USE TypeParts DEF files
<1>1. Placed /\ Chosen /\ Busy /\ Kept /\ k[1] \in Users
  BY DEF Keys
<1>2. \A s \in Stages : Goes(o, k, s) => stage' \in [Owners -> [Keys -> Stages]]
  BY <1>1, OneMoves
<1>3. "no" \in Stages /\ "starting" \in Stages /\ "creating" \in Stages
  BY DEF Stages
<1>4. Succeeds(o, k) => /\ flags' \subseteq Keys /\ wanted' \subseteq Keys /\ round' \in Rounds
                        /\ stage' \in [Owners -> [Keys -> Stages]]
  <2>1. [round EXCEPT !.started = @ \cup {k}] \in Rounds
    BY <1>1 DEF Busy, Rounds
  <2> QED BY <1>1, <1>2, <1>3, <2>1 DEF Succeeds, Kept, Busy
<1>5. \A v \in Slots : [slot EXCEPT ![k] = v] \in [Keys -> Slots]
  BY <1>1 DEF Placed
<1>6. Mishap("create") \/ Mishap("delist") => used' \in Bounds
  BY <1>1, ManagerAssumption DEF Mishap, Busy, Bounds
<1>7. CASE StartAlreadyRunning(o, k)
  BY <1>1, <1>2, <1>3, <1>4, <1>7 DEF StartAlreadyRunning, Kept, Placed, Chosen, Busy
<1>8. CASE StartReuses(o, k)
  BY <1>1, <1>2, <1>3, <1>8 DEF StartReuses, Kept, Placed, Chosen, Busy
<1>9. CASE StartCreates(o, k)
  <2>1. slot' \in [Keys -> Slots] /\ stage' \in [Owners -> [Keys -> Stages]]
    BY <1>2, <1>3, <1>5, <1>9, SlotValues DEF StartCreates
  <2> QED BY <1>1, <1>9, <2>1 DEF StartCreates, Kept, Placed, Chosen, Busy
<1>10. CASE Created(o, k)
  <2>1. slot' \in [Keys -> Slots] /\ stage' \in [Owners -> [Keys -> Stages]]
    BY <1>1, <1>2, <1>3, <1>5, <1>10, SlotValues DEF Created, Chosen
  <2> QED BY <1>1, <1>10, <2>1 DEF Created, Kept, Placed, Chosen, Busy
<1>11. CASE CreateFails(o, k)
  BY <1>1, <1>2, <1>3, <1>6, <1>11 DEF CreateFails, Kept, Placed, Chosen, Busy
<1>12. CASE CreateRefused(o, k)
  BY <1>1, <1>2, <1>3, <1>6, <1>12 DEF CreateRefused, Kept, Placed, Chosen, Busy
<1>13. CASE Started(o, k)
  <2>1. [slot EXCEPT ![k].state = "running"] \in [Keys -> Slots]
    BY <1>1, SlotValues DEF Placed
  <2> QED BY <1>1, <1>4, <1>13, <2>1 DEF Started, Kept, Placed, Chosen, Busy
<1> QED BY <1>7, <1>8, <1>9, <1>10, <1>11, <1>12, <1>13 DEF StartCall

\* By stop().
LEMMA StopTyped ==
    ASSUME TypeOK, NEW o \in Owners, NEW k \in Keys, StopCall(o, k)
    PROVE  TypeOK'
<1> USE TypeParts DEF files
<1>1. Placed /\ Chosen /\ Busy /\ Kept
  OBVIOUS
<1>2. \A s \in Stages : Goes(o, k, s) => stage' \in [Owners -> [Keys -> Stages]]
  BY <1>1, OneMoves
<1>3. /\ "no" \in Stages /\ "waitStart" \in Stages /\ "closing" \in Stages
      /\ "closed" \in Stages
  BY DEF Stages
<1>4. CASE StopBegins(o, k)
  BY <1>1, <1>2, <1>3, <1>4 DEF StopBegins, AfterStop, Kept, Placed, Chosen, Busy
<1>5. CASE BotStopped(o, k)
  <2>1. slot' \in [Keys -> Slots]
    BY <1>1, <1>5, SlotValues DEF BotStopped, Placed
  <2> QED BY <1>1, <1>2, <1>3, <1>5, <2>1 DEF BotStopped, Kept, Placed, Chosen, Busy
<1>6. CASE StopEnds(o, k)
  <2>1. slot' \in [Keys -> Slots]
    BY <1>1, <1>6, SlotValues DEF StopEnds, Placed
  <2> QED BY <1>1, <1>2, <1>3, <1>6, <2>1 DEF StopEnds, AfterStop, Kept, Placed, Chosen, Busy
<1> QED BY <1>4, <1>5, <1>6 DEF StopCall

\* By a route's beginning and end, and as a model is chosen.
LEMMA RequestTyped ==
    ASSUME TypeOK, NEW o \in Owners, Request(o) \/ Switch(o) \/ RouteEnds(o)
    PROVE  TypeOK'
<1> USE TypeParts DEF files
<1>1. Placed /\ Chosen /\ Busy /\ Kept /\ AllRoutes \subseteq Kinds /\ Routes \subseteq AllRoutes
      /\ {"ask", "switch"} \subseteq Kinds
  BY ManagerAssumption DEF Kinds, AllRoutes
<1>2. Asked => used' \in Bounds
  BY <1>1, ManagerAssumption DEF Asked, Busy, Bounds
<1>3. ASSUME NEW kind, NEW todo \in SUBSET Keys, Begin(o, kind, todo)
      PROVE  job' \in [Owners -> Jobs] /\ used' \in Bounds
  <2>1. kind \in Kinds /\ job' = [job EXCEPT ![o] = [Nobody EXCEPT !.kind = kind, !.todo = todo]]
    BY <1>1, <1>3 DEF Begin
  <2>2. [Nobody EXCEPT !.kind = kind, !.todo = todo] \in Jobs
    BY <2>1, JobValues
  <2> QED BY <1>1, <1>2, <1>3, <2>1, <2>2, JobChanges DEF Begin
<1>4. CASE \E k \in Keys : RequestStart(o, k) \/ RequestStop(o, k)
  BY <1>1, <1>3, <1>4 DEF RequestStart, RequestStop, Kept, Placed, Chosen, Busy
<1>5. ASSUME NEW u \in Users, RequestStartAll(o, u) PROVE TypeOK'
  <2> DEFINE fixed == FixedOf[model[u]]
             last == {k \in prefer \cap KeysOf(u) : k[2] \notin fixed}
  <2>1. PICK choice \in SUBSET last : Begin(o, "startAll", ({u} \X fixed) \cup choice)
    BY <1>5 DEF RequestStartAll
  <2>2. fixed \in SUBSET Pairs
    BY <1>1, ManagerAssumption DEF Chosen
  <2>3. ({u} \X fixed) \cup choice \in SUBSET Keys
    BY <1>1, <2>2 DEF Keys, Kept
  <2>4. job' \in [Owners -> Jobs] /\ used' \in Bounds
    BY <1>3, <2>1, <2>3
  <2> QED BY <1>1, <1>5, <2>4 DEF RequestStartAll, Kept, Placed, Chosen, Busy
<1>6. ASSUME NEW u \in Users, RequestStopAll(o, u) PROVE TypeOK'
  <2>1. (flags \cup InSlots) \cap KeysOf(u) \in SUBSET Keys
    BY <1>1 DEF Kept, InSlots
  <2>2. job' \in [Owners -> Jobs] /\ used' \in Bounds
    BY <1>3, <1>6, <2>1 DEF RequestStopAll
  <2> QED BY <1>1, <1>6, <2>2 DEF RequestStopAll, Kept, Placed, Chosen, Busy
<1>7. ASSUME NEW u \in Users, RequestView(o, u) PROVE TypeOK'
  <2>1. {<<u, Default>>} \in SUBSET Keys
    BY ManagerAssumption DEF Keys
  <2>2. job' \in [Owners -> Jobs] /\ used' \in Bounds
    BY <1>3, <1>7, <2>1 DEF RequestView
  <2> QED BY <1>1, <1>7, <2>2 DEF RequestView, Kept, Placed, Chosen, Busy
<1>8. ASSUME NEW u \in Users, RequestRunMode(o, u) PROVE TypeOK'
  <2> DEFINE k == <<u, Default>>
  <2>1. k \in Keys
    BY ManagerAssumption DEF Keys
  <2> HIDE DEF k
  <2>2. CASE Running(k)
    <3>1. Begin(o, "runMode", {k}) /\ UNCHANGED slot
      BY <1>8, <2>2 DEF RequestRunMode, k
    <3>2. job' \in [Owners -> Jobs] /\ used' \in Bounds
      BY <1>3, <2>1, <3>1
    <3> QED BY <1>1, <1>8, <3>1, <3>2 DEF RequestRunMode, Kept, Placed, Chosen, Busy
  <2>3. CASE ~Running(k)
    <3>1. Asked /\ slot' = [slot EXCEPT ![k] = NoSlot] /\ UNCHANGED job
      BY <1>8, <2>3 DEF RequestRunMode, k
    <3>2. slot' \in [Keys -> Slots]
      BY <1>1, <2>1, <3>1, SlotValues DEF Placed
    <3> QED BY <1>1, <1>2, <1>8, <3>1, <3>2 DEF RequestRunMode, Kept, Placed, Chosen, Busy
  <2> QED BY <2>2, <2>3
<1>9. ASSUME NEW u \in Users, NEW m \in Models, RequestSwitch(o, u, m) PROVE TypeOK'
  <2> DEFINE d == InSlots \cap KeysOf(u)
  <2>1. job' = [job EXCEPT ![o] = [Nobody EXCEPT !.kind = "ask", !.who = {u},
                                                 !.todo = d, !.model = m]]
    BY <1>9 DEF RequestSwitch
  <2>2. d \in SUBSET Keys /\ {u} \in SUBSET Users
    BY DEF InSlots
  <2> HIDE DEF d
  <2>3. job' \in [Owners -> Jobs]
    BY <1>1, <2>1, <2>2, JobValues, JobChanges
  <2> QED BY <1>1, <1>2, <1>9, <2>3 DEF RequestSwitch, Kept, Placed, Chosen, Busy
<1>10. CASE Switch(o)
  <2>1. job[o] \in Jobs
    BY <1>1 DEF Busy
  <2>2. job' = [job EXCEPT ![o] = [job[o] EXCEPT !.kind = "switch", !.todo = job[o].clear]]
    BY <1>1, <1>10, <2>1 DEF Switch, Busy
  <2>3. [job[o] EXCEPT !.kind = "switch", !.todo = job[o].clear] \in Jobs
    BY <1>1, <2>1, JobValues
  <2>4. job' \in [Owners -> Jobs]
    BY <1>1, <2>2, <2>3, JobChanges
  <2>5. model' \in [Users -> Models]
    BY <1>1, <1>10, <2>1, JobValues DEF Switch, Chosen
  <2> QED BY <1>1, <1>10, <2>4, <2>5 DEF Switch, Kept, Placed, Chosen, Busy
<1>11. CASE RouteEnds(o)
  <2>1. job' \in [Owners -> Jobs]
    BY <1>1, <1>11, JobValues, JobChanges DEF RouteEnds
  <2> QED BY <1>1, <1>11, <2>1 DEF RouteEnds, Kept, Placed, Chosen, Busy
<1> QED BY <1>4, <1>5, <1>6, <1>7, <1>8, <1>9, <1>10, <1>11 DEF Request

\* By the calls an owner makes for its keys.
LEMMA CallTyped ==
    ASSUME TypeOK, NEW o \in Owners, NEW k \in Keys,
           CallStart(o, k) \/ CallStop(o, k) \/ SkipMatching(o, k) \/ Probe(o, k)
             \/ ProbeAnswered(o, k)
    PROVE  TypeOK'
<1> USE TypeParts DEF files
<1>1. Placed /\ Chosen /\ Busy /\ Kept /\ job[o] \in Jobs
  BY DEF Busy
<1>2. /\ \A s \in Stages : Goes(o, k, s) => stage' \in [Owners -> [Keys -> Stages]]
      /\ {"no", "waitStart", "waitStop", "probe"} \subseteq Stages
  BY <1>1, OneMoves DEF Stages
<1>3. job[o].todo \ {k} \in SUBSET Keys /\ job[o].clear \in SUBSET Keys
      /\ job[o].clear \cup {k} \in SUBSET Keys
  BY <1>1, JobValues
<1>4. \A j \in Jobs : job' = [job EXCEPT ![o] = j] => job' \in [Owners -> Jobs]
  BY <1>1, JobChanges
<1>5. CASE CallStart(o, k) \/ SkipMatching(o, k)
  <2>1. job' = [job EXCEPT ![o] = [job[o] EXCEPT !.todo = job[o].todo \ {k}]]
    BY <1>1, <1>5 DEF CallStart, SkipMatching, Busy
  <2>2. job' \in [Owners -> Jobs]
    BY <1>1, <1>3, <1>4, <2>1, JobValues
  <2>3. stage' \in [Owners -> [Keys -> Stages]]
    BY <1>1, <1>2, <1>5 DEF CallStart, SkipMatching, Placed
  <2> QED BY <1>1, <1>5, <2>2, <2>3 DEF CallStart, SkipMatching, Kept, Placed, Chosen, Busy
<1>6. CASE CallStop(o, k)
  <2> DEFINE b == job[o].kind = "runMode" \/ (job[o].kind = "switch" /\ Running(k))
  <2>1. job' = [job EXCEPT ![o] = [job[o] EXCEPT !.todo = job[o].todo \ {k}, !.again = b]]
    BY <1>1, <1>6 DEF CallStop, Busy
  <2>2. b \in BOOLEAN
    OBVIOUS
  <2> HIDE DEF b
  <2>3. job' \in [Owners -> Jobs]
    BY <1>1, <1>3, <1>4, <2>1, <2>2, JobValues
  <2> QED BY <1>1, <1>2, <1>6, <2>3 DEF CallStop, Kept, Placed, Chosen, Busy
<1>7. CASE Probe(o, k)
  <2> DEFINE c == IF job[o].kind = "ask" /\ slot[k].state = "none"
                  THEN job[o].clear \cup {k} ELSE job[o].clear
             s == IF slot[k].state = "none"
                  THEN IF job[o].kind = "retire" THEN "waitStop" ELSE "no"
                  ELSE IF k \in exposed THEN "no" ELSE "probe"
  <2>1. job' = [job EXCEPT ![o] = [job[o] EXCEPT !.todo = job[o].todo \ {k}, !.clear = c]]
    BY <1>1, <1>7 DEF Probe, Busy
  <2>2. c \in SUBSET Keys /\ s \in Stages /\ Goes(o, k, s)
    BY <1>2, <1>3, <1>7 DEF Probe
  <2> HIDE DEF c, s
  <2>3. job' \in [Owners -> Jobs] /\ stage' \in [Owners -> [Keys -> Stages]]
    BY <1>1, <1>2, <1>3, <1>4, <2>1, <2>2, JobValues
  <2> QED BY <1>1, <1>7, <2>3 DEF Probe, Kept, Placed, Chosen, Busy
<1>8. CASE ProbeAnswered(o, k)
  <2> DEFINE c == IF job[o].kind = "ask" /\ k \notin exposed
                  THEN job[o].clear \cup {k} ELSE job[o].clear
             b == job[o].kind = "swap" /\ Running(k)
             s == IF job[o].kind # "ask" /\ k \notin exposed THEN "waitStop" ELSE "no"
  <2>1. job' = [job EXCEPT ![o] = [job[o] EXCEPT !.clear = c, !.again = b]]
    BY <1>1, <1>8 DEF ProbeAnswered, Busy
  <2>2. c \in SUBSET Keys /\ s \in Stages /\ Goes(o, k, s)
    BY <1>2, <1>3, <1>8 DEF ProbeAnswered
  <2>3. b \in BOOLEAN
    OBVIOUS
  <2> HIDE DEF b, c, s
  <2>4. job' \in [Owners -> Jobs] /\ stage' \in [Owners -> [Keys -> Stages]]
    BY <1>1, <1>2, <1>3, <1>4, <2>1, <2>2, <2>3, JobValues
  <2> QED BY <1>1, <1>8, <2>4 DEF ProbeAnswered, Kept, Placed, Chosen, Busy
<1> QED BY <1>5, <1>6, <1>7, <1>8

\* By the background task.
LEMMA SuperviseTyped == ASSUME TypeOK, Supervise PROVE TypeOK'
<1> USE TypeParts DEF files
<1>1. Placed /\ Chosen /\ Busy /\ Kept /\ "boss" \in Owners /\ job["boss"] \in Jobs
      /\ InSlots \in SUBSET Keys
  BY DEF Busy, Owners, InSlots
<1>2. {"resume", "users", "retire", "migrate", "swapUsers", "swap"} \subseteq Kinds
  BY DEF Kinds
<1>3. \A u \in Users : [round EXCEPT !.users = @ \ {u}] \in Rounds
  BY <1>1 DEF Busy, Rounds
<1>4. CASE BossWakes
  <2>1. job' \in [Owners -> Jobs]
    BY <1>1, <1>2, <1>4, BossTyped DEF BossWakes, Kept
  <2> QED BY <1>1, <1>4, <2>1 DEF BossWakes, Kept, Placed, Chosen, Busy
<1>5. CASE ResumeChunk
  <2>1. PICK C \in SUBSET job["boss"].todo :
          /\ job' = [job EXCEPT !["boss"] = [job["boss"] EXCEPT !.todo = job["boss"].todo \ C]]
          /\ stage' = [stage EXCEPT !["boss"] =
                          [k \in Keys |-> IF k \in C THEN "waitStart" ELSE stage["boss"][k]]]
    BY <1>1, <1>5 DEF ResumeChunk, Placed, Busy
  <2>2. job["boss"].todo \ C \in SUBSET Keys
    BY <1>1, JobValues
  <2>3. job' \in [Owners -> Jobs]
    BY <1>1, <2>1, <2>2, JobValues, JobChanges
  <2>4. stage' \in [Owners -> [Keys -> Stages]]
    BY <1>1, <2>1 DEF Placed, Stages
  <2> QED BY <1>1, <1>5, <2>3, <2>4 DEF ResumeChunk, Kept, Placed, Chosen, Busy
<1>6. ASSUME NEW before, NEW kind \in {"users", "swapUsers"}, RoundBegins(before, kind)
      PROVE  TypeOK'
  <2>1. job' \in [Owners -> Jobs]
    BY <1>1, <1>2, <1>6, BossTyped DEF RoundBegins
  <2>2. round' \in Rounds
    BY <1>1, <1>6 DEF RoundBegins, Rounds, InSlots, Keys
  <2> QED BY <1>1, <1>6, <2>1, <2>2 DEF RoundBegins, Kept, Placed, Chosen, Busy
<1>7. ASSUME NEW u \in Users, RetireUser(u) \/ SwapUser(u) PROVE TypeOK'
  <2>1. PICK kind \in {"retire", "swap"}, todo \in SUBSET Keys : BossBecomes(kind, {u}, todo)
    BY <1>1, <1>7 DEF RetireUser, SwapUser
  <2>2. job' \in [Owners -> Jobs]
    BY <1>1, <1>2, <2>1, BossTyped
  <2> QED BY <1>1, <1>3, <1>7, <2>2 DEF RetireUser, SwapUser, Kept, Placed, Chosen, Busy
<1>8. CASE RetireDone \/ MigrateDone \/ SwapDone
  <2>1. CASE BossBecomes("users", {}, {}) \/ BossBecomes("swapUsers", {}, {})
    <3>1. job' \in [Owners -> Jobs]
      BY <1>1, <1>2, <2>1, BossTyped
    <3>2. migrated' \subseteq Users
      BY <1>1, <1>8, JobValues DEF RetireDone, MigrateDone, SwapDone, Chosen
    <3> QED BY <1>1, <1>8, <3>1, <3>2
            DEF RetireDone, MigrateDone, SwapDone, Kept, Placed, Chosen, Busy
  <2>2. CASE RetireDone /\ job' = [job EXCEPT !["boss"].kind = "migrate", !["boss"].todo = Missing]
    <3>1. job' = [job EXCEPT !["boss"] = [job["boss"] EXCEPT !.kind = "migrate", !.todo = Missing]]
      BY <1>1, <2>2 DEF Busy
    <3>2. Missing \in SUBSET Keys
      BY <1>1, ManagerAssumption, JobValues DEF Missing, Keys
    <3>3. job' \in [Owners -> Jobs]
      BY <1>1, <1>2, <3>1, <3>2, JobValues, JobChanges
    <3> QED BY <1>1, <2>2, <3>3 DEF RetireDone, Kept, Placed, Chosen, Busy
  <2> QED BY <1>8, <2>1, <2>2 DEF RetireDone, MigrateDone, SwapDone
<1>9. CASE BossSleeps
  <2>1. job' \in [Owners -> Jobs]
    BY <1>1, <1>9, JobValues, JobChanges DEF BossSleeps
  <2> QED BY <1>1, <1>9, <2>1 DEF BossSleeps, Kept, Placed, Chosen, Busy
<1> QED BY <1>4, <1>5, <1>6, <1>7, <1>8, <1>9 DEF Supervise

-----------------------------------------------------------------------------
(* Type correctness *)

\* The manager starts with well-typed empty slots.
LEMMA InitTyped == Init => TypeOK
<1> SUFFICES ASSUME Init PROVE TypeOK
  OBVIOUS
<1>1. Placed
  BY SlotValues DEF Init, Placed, Stages
<1>2. Busy
  <2>1. job \in [Owners -> Jobs]
    BY JobValues DEF Init
  <2>2. NoRound \in Rounds
    BY DEF NoRound, Rounds
  <2>3. [requests |-> 0, mishaps |-> 0, restarts |-> 0] \in Bounds
    BY ManagerAssumption DEF Bounds
  <2> QED BY <2>1, <2>2, <2>3 DEF Init, Busy
<1> QED BY <1>1, <1>2, TypeParts DEF Init, Kept, Chosen

\* By what happens without the manager.
LEMMA OutsideTyped ==
    ASSUME TypeOK, (\E k \in Keys : Trade(k) \/ AutoStop(k)) \/ Restart
    PROVE  TypeOK'
<1> USE TypeParts DEF files
<1>1. Placed /\ Chosen /\ Busy /\ Kept
  OBVIOUS
<1>2. ASSUME NEW k \in Keys, Trade(k) PROVE TypeOK'
  BY <1>1, <1>2 DEF Trade, Kept, Placed, Chosen, Busy
<1>3. ASSUME NEW k \in Keys, AutoStop(k) PROVE TypeOK'
  <2>1. slot' \in [Keys -> Slots]
    BY <1>1, <1>3, SlotValues DEF AutoStop, Placed
  <2>2. used' \in Bounds
    BY <1>1, <1>3, ManagerAssumption DEF AutoStop, Mishap, Busy, Bounds
  <2> QED BY <1>1, <1>3, <2>1, <2>2 DEF AutoStop, Kept, Placed, Chosen, Busy
<1>4. CASE Restart
  <2>1. Placed'
    BY <1>4, SlotValues DEF Restart, Booted, Placed, Stages
  <2>2. used' \in Bounds
    BY <1>1, <1>4, ManagerAssumption DEF Restart, Busy, Bounds
  <2>3. job' \in [Owners -> Jobs] /\ round' \in Rounds
    BY <1>4, JobValues DEF Restart, Booted, NoRound, Rounds
  <2> QED BY <1>1, <1>4, <2>1, <2>2, <2>3 DEF Restart, Booted, Kept, Chosen, Busy
<1> QED BY <1>2, <1>3, <1>4

\* No request, background step, trade or restart leaves the types.
LEMMA NextTyped == TypeOK /\ [Next]_vars => TypeOK'
<1> SUFFICES ASSUME TypeOK, [Next]_vars PROVE TypeOK'
  OBVIOUS
<1>1. CASE \E o \in Clients : Request(o)
  BY <1>1, RequestTyped DEF Owners
<1>2. ASSUME NEW o \in Owners, Work(o) PROVE TypeOK'
  BY <1>2, CallTyped, StartTyped, StopTyped, RequestTyped DEF Work
<1>3. CASE UNCHANGED vars
  BY <1>3, TypeParts DEF vars, Kept, Placed, Chosen, Busy
<1> QED BY <1>1, <1>2, <1>3, SuperviseTyped, OutsideTyped DEF Next

\* Every variable keeps its type, for any users, pairs, routes and limits.
THEOREM TypeCorrect == Spec => []TypeOK
<1> QED BY InitTyped, NextTyped, PTL DEF Spec

-----------------------------------------------------------------------------
(* The lock of a slot *)

Holding == {"closing", "closed", "creating", "starting"}

\* At most one call is inside the lock of a key.
OneHolder == \A k \in Keys, o, p \in Owners :
    stage[o][k] \in Holding /\ stage[p][k] \in Holding => o = p

\* bot.start() runs for a bot that is in its slot: nobody takes it out.
StartsInSlot == \A k \in Keys, o \in Owners : stage[o][k] = "starting" => slot[k].state # "none"

SlotsInv == OneHolder /\ StartsInSlot /\ NoGhost

\* A call that holds the lock, or finds it free, or stays outside, keeps the lock.
LEMMA MoveKeepsHolder ==
    ASSUME Placed, OneHolder, NEW o \in Owners, NEW k \in Keys, NEW s \in Stages, Goes(o, k, s),
           ~Locked(k) \/ stage[o][k] \in Holding \/ s \notin Holding
    PROVE  OneHolder'
<1> SUFFICES ASSUME NEW j \in Keys, NEW p \in Owners, NEW q \in Owners,
                    stage'[p][j] \in Holding, stage'[q][j] \in Holding
             PROVE  p = q
  BY DEF OneHolder
<1>1. CASE j # k
  BY <1>1, OneMoves DEF OneHolder
<1>2. CASE j = k
  <2>1. \A r \in Owners : r # o => stage'[r][k] = stage[r][k]
    BY OneMoves
  <2>2. CASE s \notin Holding
    <3>1. p # o /\ q # o
      BY <1>2, <2>2, OneMoves
    <3> QED BY <1>2, <2>1, <3>1 DEF OneHolder
  <2>3. CASE ~Locked(k)
    BY <1>2, <2>1, <2>3 DEF Locked, Holding
  <2>4. CASE stage[o][k] \in Holding
    BY <1>2, <2>1, <2>4 DEF OneHolder
  <2> QED BY <2>2, <2>3, <2>4
<1> QED BY <1>1, <1>2

\* A call moves on and no slot changes.
LEMMA MoveKeeps ==
    ASSUME Placed, SlotsInv, NEW o \in Owners, NEW k \in Keys, NEW s \in Stages, Goes(o, k, s),
           ~Locked(k) \/ stage[o][k] \in Holding \/ s \notin Holding,
           s = "starting" => slot[k].state # "none",
           UNCHANGED <<slot, ghosts>>
    PROVE  SlotsInv'
<1>1. OneHolder'
  BY MoveKeepsHolder DEF SlotsInv
<1>2. StartsInSlot'
  BY OneMoves DEF StartsInSlot, SlotsInv
<1> QED BY <1>1, <1>2 DEF SlotsInv, NoGhost

\* Inside the lock a call changes the slot and moves on.
LEMMA MoveChanges ==
    ASSUME Placed, SlotsInv, NEW o \in Owners, NEW k \in Keys, NEW s \in Stages, Goes(o, k, s),
           ~Locked(k) \/ stage[o][k] \in Holding,
           NEW v \in Slots, slot' = [slot EXCEPT ![k] = v],
           s = "starting" => v.state # "none",
           UNCHANGED ghosts
    PROVE  SlotsInv'
<1>1. OneHolder'
  BY MoveKeepsHolder DEF SlotsInv
<1>2. \A p \in Owners : p # o => stage[p][k] # "starting"
  BY DEF SlotsInv, OneHolder, Locked, Holding
<1>3. slot'[k] = v /\ \A j \in Keys : j # k => slot'[j] = slot[j]
  BY DEF Placed
<1>4. StartsInSlot'
  <2> SUFFICES ASSUME NEW j \in Keys, NEW p \in Owners, stage'[p][j] = "starting"
               PROVE  slot'[j].state # "none"
    BY DEF StartsInSlot
  <2>1. CASE j # k
    BY <1>3, <2>1, OneMoves DEF SlotsInv, StartsInSlot
  <2>2. CASE j = k
    BY <1>2, <1>3, <2>2, OneMoves
  <2> QED BY <2>1, <2>2
<1> QED BY <1>1, <1>4 DEF SlotsInv, NoGhost

\* No call moves and no slot is emptied.
LEMMA RestKeeps ==
    ASSUME SlotsInv, UNCHANGED <<stage, ghosts>>,
           \A k \in Keys : slot[k].state # "none" => slot'[k].state # "none"
    PROVE  SlotsInv'
BY DEF SlotsInv, OneHolder, StartsInSlot, NoGhost

-----------------------------------------------------------------------------
(* No bot runs outside the slots *)

\* start() and a failed creation leave no bot running outside its slot.
LEMMA StartKeepsSlots ==
    ASSUME TypeOK, SlotsInv, NEW o \in Owners, NEW k \in Keys,
           StartCall(o, k) \/ CreateFails(o, k)
    PROVE  SlotsInv'
<1> USE TypeParts
<1>1. Placed /\ Chosen /\ k[1] \in Users
  BY DEF Keys
<1>2. /\ {"no", "creating", "starting"} \subseteq Stages
      /\ {"creating", "starting"} \subseteq Holding /\ "no" \notin Holding
  BY DEF Stages, Holding
<1>3. CASE StartAlreadyRunning(o, k) \/ CreateFails(o, k) \/ CreateRefused(o, k)
  <2>1. Goes(o, k, "no") /\ UNCHANGED <<slot, ghosts>>
    BY <1>3 DEF StartAlreadyRunning, Succeeds, CreateFails, CreateRefused
  <2> QED BY <1>1, <1>2, <2>1, MoveKeeps
<1>4. CASE StartReuses(o, k)
  <2>1. PICK s \in {"no", "starting"} : Goes(o, k, s)
    BY <1>4 DEF StartReuses
  <2>2. ~Locked(k) /\ slot[k].state # "none" /\ UNCHANGED <<slot, ghosts>>
    BY <1>4 DEF StartReuses
  <2> QED BY <1>1, <1>2, <2>1, <2>2, MoveKeeps
<1>5. CASE StartCreates(o, k)
  <2>1. PICK s \in {"no", "creating"} : Goes(o, k, s)
    BY <1>5 DEF StartCreates
  <2>2. ~Locked(k) /\ slot' = [slot EXCEPT ![k] = NoSlot] /\ UNCHANGED ghosts
    BY <1>5 DEF StartCreates
  <2> QED BY <1>1, <1>2, <2>1, <2>2, SlotValues, MoveChanges
<1>6. CASE Created(o, k)
  <2> DEFINE v == [state |-> "stopped", model |-> model[k[1]]]
  <2>1. PICK s \in {"no", "starting"} : Goes(o, k, s)
    BY <1>6 DEF Created
  <2>2. v \in Slots /\ v.state # "none"
    BY <1>1, SlotValues DEF Chosen
  <2>3. stage[o][k] \in Holding /\ slot' = [slot EXCEPT ![k] = v] /\ UNCHANGED ghosts
    BY <1>2, <1>6 DEF Created
  <2> HIDE DEF v
  <2> QED BY <1>1, <1>2, <2>1, <2>2, <2>3, MoveChanges
<1>7. CASE Started(o, k)
  <2> DEFINE v == [slot[k] EXCEPT !.state = "running"]
  <2>1. stage[o][k] \in Holding /\ slot[k].state # "none" /\ Goes(o, k, "no")
    BY <1>2, <1>7 DEF Started, Succeeds, SlotsInv, StartsInSlot
  <2>2. v \in Slots
    BY <1>1, SlotValues DEF Placed
  <2>3. slot' = [slot EXCEPT ![k] = v] /\ UNCHANGED ghosts
    BY <1>7, <2>1 DEF Started
  <2> HIDE DEF v
  <2> QED BY <1>1, <1>2, <2>1, <2>2, <2>3, MoveChanges
<1> QED BY <1>3, <1>4, <1>5, <1>6, <1>7 DEF StartCall

\* Neither does stop(), which drops the slot it has cancelled.
LEMMA StopKeepsSlots ==
    ASSUME TypeOK, SlotsInv, NEW o \in Owners, NEW k \in Keys, StopCall(o, k)
    PROVE  SlotsInv'
<1> USE TypeParts
<1>1. Placed
  OBVIOUS
<1>2. /\ {"no", "waitStart", "closing", "closed"} \subseteq Stages
      /\ {"closing", "closed"} \subseteq Holding
  BY DEF Stages, Holding
<1>3. CASE StopBegins(o, k)
  <2>1. PICK s \in {"no", "waitStart", "closing"} : Goes(o, k, s)
    BY <1>3 DEF StopBegins, AfterStop
  <2>2. ~Locked(k) /\ UNCHANGED <<slot, ghosts>>
    BY <1>3 DEF StopBegins
  <2> QED BY <1>1, <1>2, <2>1, <2>2, MoveKeeps
<1>4. CASE BotStopped(o, k)
  <2> DEFINE v == [slot[k] EXCEPT !.state = IF @ = "none" THEN @ ELSE "stopped"]
  <2>1. v \in Slots
    BY <1>1, SlotValues DEF Placed
  <2>2. /\ stage[o][k] \in Holding /\ Goes(o, k, "closed")
        /\ slot' = [slot EXCEPT ![k] = v] /\ UNCHANGED ghosts
    BY <1>1, <1>2, <1>4 DEF BotStopped
  <2> HIDE DEF v
  <2> QED BY <1>1, <1>2, <2>1, <2>2, MoveChanges
<1>5. CASE StopEnds(o, k)
  <2>1. PICK s \in {"no", "waitStart"} : Goes(o, k, s)
    BY <1>5 DEF StopEnds, AfterStop
  <2>2. stage[o][k] \in Holding /\ slot' = [slot EXCEPT ![k] = NoSlot] /\ UNCHANGED ghosts
    BY <1>2, <1>5 DEF StopEnds
  <2> QED BY <1>1, <1>2, <2>1, <2>2, SlotValues, MoveChanges
<1> QED BY <1>3, <1>4, <1>5 DEF StopCall

\* The calls an owner makes wait outside the lock.
LEMMA CallKeepsSlots ==
    ASSUME TypeOK, SlotsInv, NEW o \in Owners, NEW k \in Keys,
           CallStart(o, k) \/ CallStop(o, k) \/ SkipMatching(o, k) \/ Probe(o, k)
             \/ ProbeAnswered(o, k)
    PROVE  SlotsInv'
<1>1. CASE SkipMatching(o, k)
  BY <1>1, RestKeeps DEF SkipMatching
<1>2. CASE ~SkipMatching(o, k)
  <2>1. PICK s \in {"no", "waitStart", "waitStop", "probe"} : Goes(o, k, s)
    BY <1>2 DEF CallStart, CallStop, Probe, ProbeAnswered
  <2>2. UNCHANGED <<slot, ghosts>>
    BY <1>2 DEF CallStart, CallStop, Probe, ProbeAnswered
  <2>3. s \in Stages \ Holding
    BY <2>1 DEF Stages, Holding
  <2> QED BY <2>1, <2>2, <2>3, TypeParts, MoveKeeps
<1> QED BY <1>1, <1>2

\* So does the background task.
LEMMA SuperviseKeepsSlots == ASSUME TypeOK, SlotsInv, Supervise PROVE SlotsInv'
<1>1. CASE ResumeChunk
  <2>1. PICK C \in SUBSET job["boss"].todo :
          stage' = [stage EXCEPT !["boss"] =
                       [k \in Keys |-> IF k \in C THEN "waitStart" ELSE stage["boss"][k]]]
    BY <1>1, TypeParts DEF ResumeChunk, Placed, Owners
  <2>2. \A o \in Owners, k \in Keys :
           stage'[o][k] = stage[o][k] \/ stage'[o][k] = "waitStart"
    BY <2>1, TypeParts DEF Placed
  <2>3. UNCHANGED <<slot, ghosts>>
    BY <1>1 DEF ResumeChunk
  <2>4. OneHolder'
    BY <2>2 DEF OneHolder, SlotsInv, Holding
  <2>5. StartsInSlot'
    BY <2>2, <2>3 DEF StartsInSlot, SlotsInv
  <2> QED BY <2>3, <2>4, <2>5 DEF SlotsInv, NoGhost
<1>2. CASE ~ResumeChunk
  <2>1. UNCHANGED <<slot, ghosts, stage>>
    BY <1>2 DEF Supervise, BossWakes, RoundBegins, RetireUser, RetireDone, MigrateDone,
                SwapUser, SwapDone, BossSleeps
  <2> QED BY <2>1, RestKeeps
<1> QED BY <1>1, <1>2

\* Without the run-mode route nobody empties a slot outside its lock.
LEMMA RequestKeepsSlots ==
    ASSUME "runMode" \notin Routes, SlotsInv, NEW o \in Owners,
           Request(o) \/ Switch(o) \/ RouteEnds(o)
    PROVE  SlotsInv'
<1>1. UNCHANGED <<slot, ghosts, stage>>
  BY DEF Request, Switch, RouteEnds, RequestStart, RequestStop, RequestStartAll, RequestStopAll,
         RequestView, RequestRunMode, RequestSwitch, Begin
<1> QED BY <1>1, RestKeeps

\* Neither does what happens to bots by themselves, nor a restart.
LEMMA OutsideKeepsSlots ==
    ASSUME TypeOK, SlotsInv, (\E k \in Keys : Trade(k) \/ AutoStop(k)) \/ Restart
    PROVE  SlotsInv'
<1>1. ASSUME NEW k \in Keys, Trade(k) PROVE SlotsInv'
  BY <1>1, RestKeeps DEF Trade
<1>2. ASSUME NEW k \in Keys, AutoStop(k) PROVE SlotsInv'
  <2> DEFINE v == [slot[k] EXCEPT !.state = "stopped"]
  <2>1. v.state = "stopped"
    BY TypeParts, SlotValues DEF Placed
  <2>2. slot' = [slot EXCEPT ![k] = v] /\ UNCHANGED <<stage, ghosts>>
    BY <1>2 DEF AutoStop
  <2> HIDE DEF v
  <2>3. \A j \in Keys : slot[j].state # "none" => slot'[j].state # "none"
    BY <2>1, <2>2, TypeParts DEF Placed
  <2> QED BY <2>2, <2>3, RestKeeps
<1>3. CASE Restart
  BY <1>3 DEF Restart, Booted, SlotsInv, OneHolder, StartsInSlot, NoGhost, Holding
<1> QED BY <1>1, <1>2, <1>3

\* Whatever starts, stops, views, model switches, reconciliations, refusals and
\* crashes happen together, for any users, pairs and limits, at most one call
\* works on a bot, and every running bot is in _slots, where stop() reaches it.
\* The run-mode route is left out: it drops a slot without taking its lock.
THEOREM NoGhostHolds ==
    ASSUME "runMode" \notin Routes
    PROVE  Spec => [](OneHolder /\ NoGhost)
<1>1. Init => SlotsInv
  BY DEF Init, SlotsInv, OneHolder, StartsInSlot, NoGhost, Holding
<1>2. TypeOK /\ SlotsInv /\ [Next]_vars => SlotsInv'
  <2> SUFFICES ASSUME TypeOK, SlotsInv, [Next]_vars PROVE SlotsInv'
    OBVIOUS
  <2>1. CASE \E o \in Clients : Request(o)
    BY <2>1, RequestKeepsSlots DEF Owners
  <2>2. ASSUME NEW o \in Owners, Work(o) PROVE SlotsInv'
    BY <2>2, CallKeepsSlots, StartKeepsSlots, StopKeepsSlots, RequestKeepsSlots DEF Work
  <2>3. CASE UNCHANGED vars
    BY <2>3, RestKeeps DEF vars
  <2> QED BY <2>1, <2>2, <2>3, SuperviseKeepsSlots, OutsideKeepsSlots DEF Next
<1>3. SlotsInv => OneHolder /\ NoGhost
  BY DEF SlotsInv
<1> QED BY <1>1, <1>2, <1>3, TypeCorrect, PTL DEF Spec

=============================================================================
