----------------------------- MODULE PartsProofs -----------------------------
(***************************************************************************)
(* Theorems about the parts that MCParts composes: the launcher that       *)
(* supervises a body (Supervisor), the licence it asks for (License), the  *)
(* files it replaces (Install), and the users of the SaaS: the row of one  *)
(* in users.db through migrations and restarts (Accounts) and the copies   *)
(* of that file (UsersFile).  They share no variable; each specification   *)
(* below is the component's Init and Next, for every number of processes,  *)
(* codes, releases, keys and tokens.                                       *)
(***************************************************************************)
EXTENDS Supervisor, License, Install, Accounts, FiniteSetTheorems, WellFoundedInduction, TLAPS

-----------------------------------------------------------------------------
(* Supervisor *)

ProcsSpec == ProcsInit /\ [][ProcsNext]_procs

BodyModes == {"off", "boot", "kills", "serving", "late", "dying"}

\* What a step does to the bodies: nothing; it ends some of them, and may start one; one
\* goes on, or is told to end, without a handle being opened or closed; one takes the
\* mutex; or one gives up ending another.
Moves ==
    \/ UNCHANGED bodies
    \/ \E some \in SUBSET Bodies : Ending(some, process)
    \/ \E some \in SUBSET Bodies, b \in Bodies : Ending(some, [process EXCEPT ![b] = "boot"])
    \/ \E b \in Bodies, s \in BodyModes :
          /\ process' = [process EXCEPT ![b] = s] /\ handles' = handles
          /\ found' \in [Bodies -> SUBSET Bodies] /\ (Guarded => s # "serving")
    \/ \E b \in Bodies : Takes(b)
    \/ process' = process /\ handles' = handles /\ found' \in [Bodies -> SUBSET Bodies]

\* Every step is one of these, for the bodies.
LEMMA StepsMove == ASSUME ProcsTypeOK, [ProcsNext]_procs PROVE Moves
<1>1. process \in [Bodies -> BodyModes] /\ found \in [Bodies -> SUBSET Bodies] /\ Alive \subseteq Bodies
      /\ Serving \subseteq Bodies
  BY DEF ProcsTypeOK, BodyModes, Alive, Serving
<1>2. CASE UNCHANGED bodies
  BY <1>2 DEF Moves
<1>3. CASE OpenLauncher
  <2>1. \E some \in SUBSET Bodies : Ending(some, process)
    BY <1>1, <1>3, Zenon DEF OpenLauncher
  <2> QED BY <2>1, Zenon DEF Moves
<1>4. ASSUME NEW b \in Bodies, Spawned(b)
      PROVE  Moves
  <2>1. \E some \in SUBSET Bodies : Ending(some, [process EXCEPT ![b] = "boot"])
    BY <1>1, <1>4, Zenon DEF Spawned
  <2> QED BY <2>1, Zenon DEF Moves
<1>5. CASE PollEnds
  <2>1. CASE Ending({proc}, process)
    <3>1. CASE proc \in Bodies
      <4>1. {proc} \in SUBSET Bodies
        BY <3>1
      <4> QED BY <2>1, <4>1, Zenon DEF Moves
    <3>2. CASE proc \notin Bodies
      <4>1. process' = process /\ found' = found /\ handles' = handles
        BY <1>1, <2>1, <3>2 DEF Ending, ProcsTypeOK
      <4> QED BY <1>2, <4>1 DEF bodies
    <3> QED BY <3>1, <3>2
  <2>2. CASE /\ process' = [process EXCEPT ![proc] = "dying"]
             /\ found' = [found EXCEPT ![proc] = {}] /\ UNCHANGED handles
    <3>1. found' \in [Bodies -> SUBSET Bodies]
      BY <1>1, <2>2
    <3>2. CASE proc \in Bodies
      BY <2>2, <3>1, <3>2 DEF Moves, BodyModes
    <3>3. CASE proc \notin Bodies
      <4>1. process' = process
        BY <1>1, <2>2, <3>3
      <4> QED BY <2>2, <3>1, <4>1 DEF Moves
    <3> QED BY <3>2, <3>3
  <2> QED BY <1>5, <2>1, <2>2 DEF PollEnds
<1>6. ASSUME NEW b \in Bodies, Ends(b) \/ Goes(b)
      PROVE  Moves
  <2>1. Ending({b}, process) /\ {b} \in SUBSET Bodies
    BY <1>6 DEF Ends, Goes
  <2> QED BY <2>1, Zenon DEF Moves
<1>7. ASSUME NEW b \in Bodies, OpenDirect(b)
      PROVE  Moves
  <2>1. process' = [process EXCEPT ![b] = "boot"] /\ handles' = handles /\ found' = found
    BY <1>7 DEF OpenDirect
  <2>2. "boot" \in BodyModes /\ "boot" # "serving"
    BY DEF BodyModes
  <2> QED BY <1>1, <2>1, <2>2, Zenon DEF Moves
<1>8. ASSUME NEW b \in Bodies, Lists(b)
      PROVE  Moves
  <2>1. PICK s \in BodyModes : process' = [process EXCEPT ![b] = s] /\ (Guarded => s # "serving")
    BY <1>8 DEF Lists, BodyModes
  <2>2. found' \in [Bodies -> SUBSET Bodies]
    BY <1>1, <1>8 DEF Lists
  <2>3. handles' = handles
    BY <1>8 DEF Lists
  <2> QED BY <2>1, <2>2, <2>3, Zenon DEF Moves
<1>9. ASSUME NEW b \in Bodies, Kills(b)
      PROVE  Moves
  <2>1. PICK c \in found[b] : \/ Ending({c}, process)
                              \/ /\ found' = [found EXCEPT ![b] = @ \ {c}]
                                 /\ UNCHANGED <<process, handles>>
    BY <1>9 DEF Kills
  <2>2. CASE Ending({c}, process)
    <3>1. {c} \in SUBSET Bodies
      BY <1>1, <2>1
    <3> QED BY <2>2, <3>1, Zenon DEF Moves
  <2>3. CASE found' = [found EXCEPT ![b] = @ \ {c}] /\ UNCHANGED <<process, handles>>
    <3>1. found' \in [Bodies -> SUBSET Bodies]
      BY <1>1, <2>3
    <3> QED BY <2>3, <3>1 DEF Moves
  <2> QED BY <2>1, <2>2, <2>3
<1>10. ASSUME NEW b \in Bodies, Takes(b)
       PROVE  Moves
  BY <1>10, Zenon DEF Moves
<1>11. CASE PressButton \/ PollChecks
  <2>1. UNCHANGED bodies \/ \E b \in Bodies : Spawned(b)
    BY <1>11, Zenon DEF PressButton, PollChecks, procs
  <2> QED BY <1>2, <1>4, <2>1
<1>12. CASE Quit \/ Ready \/ Deadline \/ PollLooks \/ \E b \in Bodies : RelaunchRequest(b)
  BY <1>2, <1>12, Zenon DEF Quit, Ready, Deadline, PollLooks, RelaunchRequest
<1>13. CASE UNCHANGED procs
  BY <1>2, <1>13 DEF procs
<1> QED BY <1>3, <1>5, <1>6, <1>7, <1>8, <1>9, <1>10, <1>11, <1>12, <1>13, Zenon
        DEF ProcsNext, ThreadSteps, BodyRuns

\* The bodies, what they have found and their handles.
BodiesTypeOK ==
    /\ process \in [Bodies -> BodyModes] /\ found \in [Bodies -> SUBSET Bodies]
    /\ handles \subseteq Bodies

\* Ending some bodies keeps the types.
LEMMA EndingType ==
    ASSUME BodiesTypeOK, NEW some \in SUBSET Bodies, NEW now \in [Bodies -> BodyModes],
           Ending(some, now)
    PROVE  BodiesTypeOK'
BY DEF BodiesTypeOK, Ending, BodyModes

\* No move leaves the types.
LEMMA MovesType == ASSUME BodiesTypeOK, Moves PROVE BodiesTypeOK'
<1>1. \A b \in Bodies, s \in BodyModes : [process EXCEPT ![b] = s] \in [Bodies -> BodyModes]
  BY DEF BodiesTypeOK
<1>2. "boot" \in BodyModes /\ process \in [Bodies -> BodyModes]
  BY DEF BodyModes, BodiesTypeOK
<1>3. CASE UNCHANGED bodies
  BY <1>3 DEF bodies, BodiesTypeOK
<1>4. CASE \E some \in SUBSET Bodies : Ending(some, process)
  BY <1>2, <1>4, EndingType
<1>5. CASE \E some \in SUBSET Bodies, b \in Bodies : Ending(some, [process EXCEPT ![b] = "boot"])
  BY <1>1, <1>2, <1>5, EndingType
<1>6. CASE \E b \in Bodies, s \in BodyModes :
              /\ process' = [process EXCEPT ![b] = s] /\ handles' = handles
              /\ found' \in [Bodies -> SUBSET Bodies]
  BY <1>1, <1>6 DEF BodiesTypeOK
<1>7. CASE \E b \in Bodies : Takes(b)
  BY <1>7 DEF BodiesTypeOK, Takes, BodyModes
<1>8. CASE process' = process /\ handles' = handles /\ found' \in [Bodies -> SUBSET Bodies]
  BY <1>8 DEF BodiesTypeOK
<1> QED BY <1>3, <1>4, <1>5, <1>6, <1>7, <1>8, Zenon DEF Moves

\* The launcher's window, its threads and the marker.
WindowTypeOK ==
    /\ window \in {"off", "shown", "hidden"} /\ button \in BOOLEAN
    /\ proc \in Bodies \cup {NoProc}
    /\ poll \in {"off", "look", "check", "end", "checkEnded"}
    /\ waits \in 0..2 /\ marker \in BOOLEAN

\* Every step keeps those.
LEMMA WindowType == ASSUME ProcsTypeOK, [ProcsNext]_procs PROVE WindowTypeOK'
<1>1. WindowTypeOK
  BY DEF ProcsTypeOK, WindowTypeOK
<1>2. [ProcsNext]_procs
  OBVIOUS
<1>3. CASE UNCHANGED procs
  BY <1>1, <1>3 DEF procs, WindowTypeOK
<1>4. CASE OpenLauncher \/ Quit
  <2>1. button' \in BOOLEAN /\ marker' \in BOOLEAN
    BY <1>1, <1>4, Zenon DEF WindowTypeOK, OpenLauncher, Quit
  <2> QED BY <1>1, <1>4, <2>1 DEF OpenLauncher, Quit, WindowTypeOK
<1>5. CASE PressButton
  <2>1. button' \in BOOLEAN /\ marker' \in BOOLEAN
    BY <1>1, <1>5, Zenon DEF PressButton, procs, WindowTypeOK
  <2>2. CASE \E b \in Bodies : /\ proc' = b /\ poll' = "look" /\ waits' = waits + 1 /\ waits < 2
                               /\ UNCHANGED window
    BY <1>1, <2>1, <2>2 DEF WindowTypeOK
  <2> QED BY <1>3, <1>5, <2>2 DEF PressButton
<1>6. CASE Ready \/ Deadline
  <2>1. button' \in BOOLEAN /\ marker' \in BOOLEAN
    BY <1>1, <1>6, Zenon DEF Ready, Deadline, WindowTypeOK
  <2> QED BY <1>1, <1>6, <2>1 DEF Ready, Deadline, WindowTypeOK
<1>7. CASE PollLooks \/ PollEnds
  <2>1. button' \in BOOLEAN /\ marker' \in BOOLEAN
    BY <1>1, <1>7, Zenon DEF PollLooks, PollEnds, WindowTypeOK
  <2> QED BY <1>1, <1>7, <2>1 DEF PollLooks, PollEnds, WindowTypeOK
<1>8. CASE PollChecks
  <2>1. button' \in BOOLEAN /\ marker' \in BOOLEAN
    BY <1>1, <1>8, Zenon DEF PollChecks, WindowTypeOK
  <2>2. /\ proc' \in Bodies \cup {NoProc} /\ window' \in {window, "shown"}
        /\ poll' \in {"look", "off"} /\ waits' = waits
    BY <1>1, <1>8 DEF PollChecks, WindowTypeOK
  <2> QED BY <1>1, <2>1, <2>2 DEF WindowTypeOK
<1>9. CASE \E b \in Bodies : \/ OpenDirect(b) \/ Ends(b) \/ RelaunchRequest(b)
                             \/ Lists(b) \/ Kills(b) \/ Takes(b) \/ Goes(b)
  <2>1. UNCHANGED <<window, button, proc, poll, waits>> /\ marker' \in {marker, TRUE}
    BY <1>9, Zenon DEF OpenDirect, Ends, RelaunchRequest, Lists, Kills, Takes, Goes, Launcher
  <2> QED BY <1>1, <2>1 DEF WindowTypeOK
<1> QED BY <1>2, <1>3, <1>4, <1>5, <1>6, <1>7, <1>8, <1>9, Zenon DEF ProcsNext, ThreadSteps, BodyRuns

\* Every step of the launcher, its threads and the bodies keeps the types.
LEMMA ProcsNextType == ProcsTypeOK /\ [ProcsNext]_procs => ProcsTypeOK'
<1> SUFFICES ASSUME ProcsTypeOK, [ProcsNext]_procs
             PROVE  ProcsTypeOK'
    OBVIOUS
<1>1. WindowTypeOK'
  BY WindowType
<1>2. BodiesTypeOK'
  BY StepsMove, MovesType DEF ProcsTypeOK, BodiesTypeOK, BodyModes
<1> QED BY <1>1, <1>2 DEF ProcsTypeOK, WindowTypeOK, BodiesTypeOK, BodyModes

\* The launcher and every body are well-formed before anything is started.
LEMMA ProcsInitType == ProcsInit => ProcsTypeOK
<1>1. ProcsInit => button \in BOOLEAN /\ marker \in BOOLEAN
  BY Zenon DEF ProcsInit
<1> QED BY <1>1, SupervisorAssumption DEF ProcsInit, ProcsTypeOK

\* Types of the launcher's window, its threads and the processes, whatever starts, ends
\* or relaunches what.
THEOREM ProcsTypeCorrect == ProcsSpec => []ProcsTypeOK
BY ProcsInitType, ProcsNextType, PTL DEF ProcsSpec

\* Bodies that serve have a handle of the mutex, and any two of them are the same.
ServesAlone ==
    /\ Serving \subseteq handles
    /\ \A b, c \in Serving : b = c

\* A handle goes only with its body, so who finds no handle finds nobody serving.
LEMMA ServesAloneNext ==
    ASSUME Guarded, BodiesTypeOK, ServesAlone, Moves
    PROVE  ServesAlone'
<1> USE DEF ServesAlone, Serving, BodiesTypeOK
<1>1. CASE UNCHANGED bodies
  BY <1>1 DEF bodies
<1>2. CASE \E some \in SUBSET Bodies : Ending(some, process)
  BY <1>2 DEF Ending
<1>3. CASE \E some \in SUBSET Bodies, b \in Bodies : Ending(some, [process EXCEPT ![b] = "boot"])
  <2>1. PICK some \in SUBSET Bodies, b \in Bodies : Ending(some, [process EXCEPT ![b] = "boot"])
    BY <1>3
  <2>2. \A c \in Bodies : process'[c] = "serving" => process[c] = "serving" /\ c \notin some
    BY <2>1 DEF Ending
  <2>3. handles' = handles \ some
    BY <2>1 DEF Ending
  <2> QED BY <2>2, <2>3
<1>4. CASE \E b \in Bodies, s \in BodyModes :
              /\ process' = [process EXCEPT ![b] = s] /\ handles' = handles /\ s # "serving"
  BY <1>4
<1>5. CASE \E b \in Bodies : Takes(b)
  <2>1. PICK b \in Bodies : Takes(b)
    BY <1>5
  <2>2. \A c \in Bodies : process'[c] = "serving"
                            => process[c] = "serving" \/ (c = b /\ handles = {})
    BY <2>1 DEF Takes
  <2>3. handles' = handles \cup {b}
    BY <2>1 DEF Takes
  <2> QED BY <2>2, <2>3
<1>6. CASE process' = process /\ handles' = handles
  BY <1>6
<1> QED BY <1>1, <1>2, <1>3, <1>4, <1>5, <1>6 DEF Moves

\* Two bodies never serve at once, however many are started by the launcher, a relaunch
\* or the user, in whatever order they list and end one another, and whichever of these
\* calls fail, as long as a body that starts takes the mutex.
THEOREM OneBodyServesHolds ==
    ASSUME Guarded
    PROVE  ProcsSpec => []OneBodyServes
<1>1. ProcsInit => ProcsTypeOK
  BY ProcsInitType
<1>2. ProcsInit => ServesAlone
  BY DEF ProcsInit, ServesAlone, Serving
<1>3. ProcsTypeOK /\ ServesAlone /\ [ProcsNext]_procs => ProcsTypeOK' /\ ServesAlone'
  <2> SUFFICES ASSUME ProcsTypeOK, ServesAlone, [ProcsNext]_procs
               PROVE  ProcsTypeOK' /\ ServesAlone'
      OBVIOUS
  <2>1. BodiesTypeOK
    BY DEF ProcsTypeOK, BodiesTypeOK, BodyModes
  <2> QED BY <2>1, ProcsNextType, StepsMove, ServesAloneNext
<1>4. ServesAlone => OneBodyServes
  <2> SUFFICES ASSUME ServesAlone PROVE OneBodyServes
      OBVIOUS
  <2>1. CASE Serving = {}
    BY <2>1, FS_EmptySet DEF OneBodyServes
  <2>2. CASE Serving # {}
    <3>1. PICK b : b \in Serving
      BY <2>2
    <3>2. Serving = {b}
      BY <3>1 DEF ServesAlone
    <3>3. Cardinality({b}) = 1
      BY FS_Singleton
    <3> QED BY <3>2, <3>3 DEF OneBodyServes
  <2> QED BY <2>1, <2>2
<1> QED BY <1>1, <1>2, <1>3, <1>4, PTL DEF ProcsSpec

-----------------------------------------------------------------------------
(* License *)

LicenceSpec == LicenceInit /\ [][LicenceNext]_licence

\* The launcher works on a licence whose code the server has seen, with the last day
\* the server gave it, and stamped no later than today nor than the day it was voided.
Genuine(p) ==
    p # NoFile =>
        /\ p.code \in Codes /\ server[p.code].is # "new"
        /\ p.exp = server[p.code].exp
        /\ p.seen <= day /\ p.seen <= server[p.code].voided

\* A code is voided on a day that has come, or never.
VoidedInTime ==
    \A c \in Codes : IF server[c].is = "void" THEN server[c].voided <= day
                                              ELSE server[c].voided = Never

LicenceInv ==
    /\ Genuine(file) /\ Genuine(held) /\ Genuine(loop)
    /\ VoidedInTime
    /\ screen \in {"asking", "redeeming"} => held # NoFile

\* The file holds p as the server knows it today.
Stamped(p) ==
    /\ p.code \in Codes /\ server[p.code].is = "live"
    /\ file' \in [code : Codes, exp : 0..Never, seen : 0..MaxDay]
    /\ file'.code = p.code /\ file'.exp = server[p.code].exp /\ file'.seen = day

\* An answer stamps the licence that was asked for, if it still lives, or nothing.
LEMMA StampGenuine ==
    ASSUME LicenceTypeOK, NEW p \in Payloads, p # NoFile, Genuine(p),
           NEW a \in Answers(p.code), Stamps(p, a)
    PROVE  file' = file \/ Stamped(p)
<1> DEFINE q == [p EXCEPT !.seen = day, !.exp = server[p.code].exp]
<1>1. p \in [code : Codes, exp : 0..Never, seen : 0..MaxDay]
  BY DEF Payloads
<1>2. q \in [code : Codes, exp : 0..Never, seen : 0..MaxDay]
  BY <1>1 DEF LicenceTypeOK
<1>3. q.code = p.code /\ q.exp = server[p.code].exp /\ q.seen = day
  BY <1>1
<1> QED BY <1>1, <1>2, <1>3 DEF Stamps, Save, Answers, Stamped

Records == [is : {"new", "live", "void"}, exp : 0..Never, voided : 0..Never]

\* A redeemed code lives, with the last day it had or a new one.
LEMMA RedeemServer ==
    ASSUME LicenceTypeOK, LicenceInv, NEW c \in Codes, Redeem(c)
    PROVE  /\ server' \in [Codes -> Records]
           /\ \A d \in Codes \ {c} : server'[d] = server[d]
           /\ server'[c].is = "live" /\ server'[c].voided = Never
           /\ held' = [code |-> c, exp |-> server'[c].exp, seen |-> day]
           /\ server[c].is # "new" => server'[c].exp = server[c].exp
<1> DEFINE exp == IF server[c].is = "live" THEN server[c].exp
                  ELSE IF c \in Subs THEN day + SubDays ELSE Never
           new == [server[c] EXCEPT !.is = "live", !.exp = exp]
<1>1. exp \in 0..Never
  BY LicenseAssumption DEF LicenceTypeOK, Never
<1>2. server[c] \in Records /\ server[c].voided = Never /\ server[c].is # "void"
  BY DEF Redeem, LicenceTypeOK, Records, LicenceInv, VoidedInTime
<1>3. new \in Records
  BY <1>1, <1>2 DEF Records
<1>4. new.is = "live" /\ new.exp = exp /\ new.voided = Never
  BY <1>2 DEF Records
<1>5. server' = [server EXCEPT ![c] = new]
  BY DEF Redeem, LicenceTypeOK
<1>6. held' = [code |-> c, exp |-> exp, seen |-> day]
  BY DEF Redeem
<1>7. server \in [Codes -> Records]
  BY DEF LicenceTypeOK, Records
<1> HIDE DEF new
<1> QED BY <1>2, <1>3, <1>4, <1>5, <1>6, <1>7 DEF Records

\* A voided code keeps its last day and remembers the day it was voided.
LEMMA VoidServer ==
    ASSUME LicenceTypeOK, NEW c \in Codes, Voids(c)
    PROVE  /\ server' \in [Codes -> Records]
           /\ \A d \in Codes \ {c} : server'[d] = server[d]
           /\ server'[c].is = "void" /\ server'[c].voided = day
           /\ server'[c].exp = server[c].exp
<1> DEFINE new == [server[c] EXCEPT !.is = "void", !.voided = day]
<1>1. server[c] \in Records /\ server \in [Codes -> Records] /\ day \in 0..Never
  BY LicenseAssumption DEF LicenceTypeOK, Records, Never
<1>2. new \in Records
  BY <1>1 DEF Records
<1>3. new.is = "void" /\ new.exp = server[c].exp /\ new.voided = day
  BY <1>1 DEF Records
<1>4. server' = [server EXCEPT ![c] = new]
  BY DEF Voids, LicenceTypeOK
<1> HIDE DEF new
<1> QED BY <1>1, <1>2, <1>3, <1>4

\* Answers stamp a licence only while its code lives; a code keeps its last day.
LEMMA LicenceNextInv ==
    ASSUME LicenceTypeOK, LicenceInv, [LicenceNext]_licence
    PROVE  LicenceTypeOK' /\ LicenceInv'
<1> USE LicenseAssumption DEF LicenceTypeOK, Payloads, NoFile, Never, Save,
                              LicenceInv, Genuine, VoidedInTime
<1>1. CASE StartsUp \/ Closes \/ LoopAsks \/ Reset
  BY <1>1 DEF StartsUp, Closes, LoopAsks, Reset
<1>2. CASE GateDecides
  <2>1. PICK a \in Answers(held.code) : Stamps(held, a)
    BY <1>2 DEF GateDecides
  <2>2. held # NoFile /\ Genuine(held) /\ held \in Payloads
    BY <1>2 DEF GateDecides
  <2>3. file' = file \/ Stamped(held)
    BY <2>1, <2>2, StampGenuine
  <2>4. screen' \in {"main", "gate"} /\ held' = NoFile /\ UNCHANGED <<day, server, loop>>
    BY <1>2 DEF GateDecides
  <2> QED BY <2>3, <2>4 DEF Stamped
<1>3. CASE RedeemEnds
  BY <1>3 DEF RedeemEnds
<1>4. CASE LoopEnds
  <2>1. PICK a \in Answers(loop.code) : Stamps(loop, a)
    BY <1>4 DEF LoopEnds
  <2>2. loop # NoFile /\ Genuine(loop) /\ loop \in Payloads
    BY <1>4 DEF LoopEnds
  <2>3. file' = file \/ Stamped(loop)
    BY <2>1, <2>2, StampGenuine
  <2>4. loop' = NoFile /\ UNCHANGED <<day, server, screen, held>>
    BY <1>4 DEF LoopEnds
  <2> QED BY <2>3, <2>4 DEF Stamped
<1>5. ASSUME NEW c \in Codes, Redeem(c)
      PROVE  LicenceTypeOK' /\ LicenceInv'
  <2>1. /\ server' \in [Codes -> Records]
        /\ \A d \in Codes \ {c} : server'[d] = server[d]
        /\ server'[c].is = "live" /\ server'[c].voided = Never
        /\ held' = [code |-> c, exp |-> server'[c].exp, seen |-> day]
        /\ server[c].is # "new" => server'[c].exp = server[c].exp
    BY <1>5, RedeemServer
  <2>2. screen' = "redeeming" /\ UNCHANGED <<day, file, loop>> /\ server[c].is # "void"
    BY <1>5 DEF Redeem
  <2> QED BY <2>1, <2>2 DEF Records
<1>6. ASSUME NEW c \in Codes, Voids(c)
      PROVE  LicenceTypeOK' /\ LicenceInv'
  <2>1. /\ server' \in [Codes -> Records]
        /\ \A d \in Codes \ {c} : server'[d] = server[d]
        /\ server'[c].is = "void" /\ server'[c].voided = day
        /\ server'[c].exp = server[c].exp
    BY <1>6, VoidServer
  <2>2. UNCHANGED <<day, file, screen, held, loop>> /\ server[c].is = "live"
    BY <1>6 DEF Voids
  <2> QED BY <2>1, <2>2 DEF Records
<1>7. CASE DayPasses
  BY <1>7 DEF DayPasses
<1>8. CASE UNCHANGED licence
  BY <1>8 DEF licence
<1> QED BY <1>1, <1>2, <1>3, <1>4, <1>5, <1>6, <1>7, <1>8 DEF LicenceNext

\* The licence, the server's record and what the launcher's threads hold are well-formed.
LEMMA LicenceInvariant == LicenceSpec => [](LicenceTypeOK /\ LicenceInv)
<1>1. LicenceInit => LicenceTypeOK /\ LicenceInv
  BY LicenseAssumption DEF LicenceInit, LicenceTypeOK, Payloads, NoFile, Never, LicenceInv,
                           Genuine, VoidedInTime
<1>2. LicenceTypeOK /\ LicenceInv /\ [LicenceNext]_licence => LicenceTypeOK' /\ LicenceInv'
  BY LicenceNextInv
<1> QED BY <1>1, <1>2, PTL DEF LicenceSpec

\* The license file, the server's record and what the threads hold stay of their kinds.
THEOREM LicenceTypeCorrect == LicenceSpec => []LicenceTypeOK
BY LicenceInvariant, PTL

\* The gate opens for a subscription only before its last day and for a voided referral
\* code only for the days of grace, however many offline starts, lost answers, failed
\* saves and late answers of the daily thread there were in between.
THEOREM OpensRightlyHolds == LicenceSpec => OpensRightly
<1>1. LicenceTypeOK /\ LicenceInv /\ [LicenceNext]_licence
        => [(screen = "asking" /\ screen' = "main") =>
              LET c == held.code
              IN  IF c \in Subs THEN day < server[c].exp
                                ELSE day < server[c].voided + Grace]_licence
  <2> SUFFICES ASSUME LicenceTypeOK, LicenceInv, LicenceNext,
                      screen = "asking", screen' = "main"
               PROVE  IF held.code \in Subs
                        THEN day < server[held.code].exp
                        ELSE day < server[held.code].voided + Grace
      OBVIOUS
  <2>1. GateDecides
    BY DEF LicenceNext, StartsUp, RedeemEnds, Reset, LoopAsks, LoopEnds, Closes, DayPasses,
           Redeem, Voids
  <2>2. held \in [code : Codes, exp : 0..Never, seen : 0..MaxDay] /\ Genuine(held)
    BY DEF LicenceTypeOK, LicenceInv, Payloads
  <2>3. CASE WithinGrace(held)
    BY <2>2, <2>3, LicenseAssumption
       DEF WithinGrace, LicenceTypeOK, Genuine, LicenceInv, Never
  <2>4. CASE server[held.code].is = "live" /\ day < server[held.code].exp
    BY <2>2, <2>4, LicenseAssumption DEF LicenceTypeOK, LicenceInv, VoidedInTime, Never
  <2> QED BY <2>1, <2>3, <2>4 DEF GateDecides, Answers
<1> QED BY <1>1, LicenceInvariant, PTL DEF LicenceSpec, OpensRightly

-----------------------------------------------------------------------------
(* Install *)

FilesSpec == FilesInit /\ [][FilesNext]_files

\* The file kept under a role is complete.
Whole(role) == disk[role].whole

\* A download knows its version.
Versioned == flow.at = "load" => flow.v \in Versions

\* Without a mishap the body is in place except for the moment of the swap, when both
\* the old and the new one are aside.
Unharmed ==
    /\ body.at = "off" /\ bodyOwn = Unasked
    /\ IF flow.at = "in" THEN Whole("bodyOld") ELSE Whole("body")
    /\ flow.at \in {"idle", "clean", "tell", "launch"} => ~Has("bodyNew")

\* After one mishap a swap in progress has the new body complete, and at rest the body
\* is in place or aside; only START swaps files then.
Survives ==
    /\ body.at \in {"off", "open"}
    /\ flow.at \in {"load", "unlink", "away", "in"} => bodyOwn <= 0
    /\ flow.at \in {"unlink", "away", "in"} => Whole("bodyNew")
    /\ flow.at \in {"clean", "tell"} => Whole("body")
    /\ flow.at \in {"idle", "load", "launch"} => Whole("body") \/ Whole("bodyOld")

Kept ==
    /\ mishaps = 0 => Unharmed
    /\ mishaps <= 1 => Survives

\* The roles, spelled out.
LEMMA RoleFacts ==
    {"body", "bodyNew", "bodyOld", "exe", "exeNew", "exeOld"} \subseteq Roles
BY DEF Roles

\* A file has a version, no file has version 0.
LEMMA ContentFacts ==
    \A f \in Contents : f.v \in 0..LastRelease /\ (f.whole => f.v \in Versions)
BY InstallAssumption DEF Contents, None, Versions

\* A file put down is complete or not; no file is not.
LEMMA FileFacts ==
    /\ None \in Contents /\ ~None.whole
    /\ \A v \in Versions :
         /\ File(v, TRUE) \in Contents /\ File(v, TRUE).whole /\ File(v, TRUE) # None
         /\ File(v, FALSE) \in Contents /\ ~File(v, FALSE).whole /\ File(v, FALSE) # None
BY InstallAssumption DEF Contents, None, File, Versions

\* A file is put under a role: the other roles keep theirs.
LEMMA PutFacts ==
    ASSUME disk \in [Roles -> Contents], NEW to \in Roles, NEW f \in Contents, Put(to, f)
    PROVE  /\ disk' \in [Roles -> Contents] /\ disk'[to] = f
           /\ \A r \in Roles \ {to} : disk'[r] = disk[r]
BY DEF Put

\* A file is moved: the other roles keep theirs.
LEMMA MoveFacts ==
    ASSUME disk \in [Roles -> Contents], NEW from \in Roles, NEW to \in Roles \ {from},
           Move(from, to)
    PROVE  /\ disk' \in [Roles -> Contents]
           /\ disk'[to] = disk[from] /\ disk'[from] = None
           /\ \A r \in Roles \ {to, from} : disk'[r] = disk[r]
BY FileFacts DEF Move

\* A mishap is counted, up to the bound.
LEMMA MishapFacts ==
    ASSUME mishaps \in 0..MaxMishaps, NEW kind, Mishap(kind)
    PROVE  kind \in Mishaps /\ mishaps' = mishaps + 1 /\ mishaps' \in 0..MaxMishaps
BY InstallAssumption DEF Mishap

Places == {"idle", "load", "unlink", "away", "in", "clean", "tell", "launch"}

\* The START button's flow is at another place, with the version it had.
LEMMA FlowFacts ==
    ASSUME flow \in [at : Places, v : 0..LastRelease], NEW place \in Places, To(place)
    PROVE  flow' \in [at : Places, v : 0..LastRelease] /\ flow'.at = place /\ flow'.v = flow.v
BY DEF To

\* At rest there is no version, and a thread that was not asked has none.
LEMMA IdleFacts ==
    /\ Idle \in [at : Places, v : 0..LastRelease] /\ Idle.at = "idle"
    /\ Unasked \in -1..LastRelease /\ Unasked <= 0
BY InstallAssumption DEF Idle, Places, Unasked

\* A check touches its own thread, the file it downloads and the count of mishaps.
LEMMA ChecksFrame ==
    /\ OwnCheck => UNCHANGED <<told, release, main, running, flow, body, bodyOwn>>
    /\ OwnCheck => own' \in {0, release}
    /\ BodyCheck => UNCHANGED <<told, release, main, running, flow, own, body>>
    /\ BodyCheck => bodyOwn' \in {0, release}
BY DEF OwnCheck, BodyCheck

\* Every file operation, mishap and start keeps the types.
LEMMA FilesNextType ==
    ASSUME FilesTypeOK, Versioned, [FilesNext]_files
    PROVE  FilesTypeOK' /\ Versioned'
<1> USE InstallAssumption, RoleFacts DEF FilesTypeOK, Versioned, Versions, Places
<1>1. CASE StartLauncher
  BY <1>1, ContentFacts, IdleFacts DEF StartLauncher
<1>2. CASE Publish
  <2>1. mishaps' \in 0..MaxMishaps
    BY <1>2, MishapFacts DEF Publish
  <2> QED BY <1>2, <2>1 DEF Publish
<1>3. CASE Launch
  <2>1. flow' \in [at : Places, v : 0..LastRelease] /\ (flow'.at = "load" => flow'.v \in Versions)
    BY <1>3, IdleFacts DEF Launch
  <2>2. bodyOwn' \in -1..LastRelease /\ body' \in [at : {"off", "unlink", "away", "in", "spawn", "open"}, v : 0..LastRelease]
    BY <1>3, IdleFacts DEF Launch
  <2>3. UNCHANGED <<disk, told, release, main, running, own, mishaps>>
    BY <1>3 DEF Launch
  <2> QED BY <2>1, <2>2, <2>3
<1>4. CASE CloseBody
  BY <1>4, ContentFacts, IdleFacts DEF CloseBody
<1>5. CASE OpenBody
  <2>1. mishaps' \in 0..MaxMishaps
    BY <1>5, MishapFacts DEF OpenBody
  <2>2. body' \in [at : {"off", "unlink", "away", "in", "spawn", "open"}, v : 0..LastRelease]
    BY <1>5, ContentFacts DEF OpenBody
  <2>3. UNCHANGED <<disk, told, release, main, running, flow, own, bodyOwn>>
    BY <1>5 DEF OpenBody
  <2> QED BY <2>1, <2>2, <2>3
<1>6. CASE UnlinkOldExe
  <2>1. mishaps' \in 0..MaxMishaps
    BY <1>6, MishapFacts DEF UnlinkOldExe
  <2>2. disk' \in [Roles -> Contents]
    BY <1>6, FileFacts, PutFacts DEF UnlinkOldExe
  <2> QED BY <1>6, <2>1, <2>2 DEF UnlinkOldExe
<1>7. CASE MoveExeAway
  <2>1. mishaps' \in 0..MaxMishaps
    BY <1>7, MishapFacts DEF MoveExeAway
  <2>2. disk' \in [Roles -> Contents]
    BY <1>7, MoveFacts DEF MoveExeAway
  <2> QED BY <1>7, <2>1, <2>2 DEF MoveExeAway
<1>8. CASE MoveExeIn
  <2>1. mishaps' \in 0..MaxMishaps
    BY <1>8, MishapFacts DEF MoveExeIn
  <2>2. disk' \in [Roles -> Contents]
    BY <1>8, MoveFacts DEF MoveExeIn
  <2> QED BY <1>8, <2>1, <2>2 DEF MoveExeIn
<1>9. CASE SpawnExe
  BY <1>9, ContentFacts, IdleFacts DEF SpawnExe
<1>10. CASE KillLauncher
  <2>1. mishaps' \in 0..MaxMishaps
    BY <1>10, MishapFacts DEF KillLauncher
  <2>2. flow' \in [at : Places, v : 0..LastRelease] /\ (flow'.at = "load" => flow'.v \in Versions)
    BY <1>10, IdleFacts DEF KillLauncher
  <2>3. main' = "off" /\ running' = 0 /\ own' \in -1..LastRelease
    BY <1>10, IdleFacts DEF KillLauncher
  <2>4. UNCHANGED <<disk, told, release, body, bodyOwn>>
    BY <1>10 DEF KillLauncher
  <2> QED BY <2>1, <2>2, <2>3, <2>4
<1>11. CASE OwnCheck
  <2>1. mishaps' \in 0..MaxMishaps
    BY <1>11, MishapFacts DEF OwnCheck
  <2>2. disk' \in [Roles -> Contents]
    BY <1>11, FileFacts, PutFacts DEF OwnCheck
  <2>3. own' \in -1..LastRelease
    BY <1>11, ChecksFrame
  <2>4. UNCHANGED <<told, release, main, running, flow, body, bodyOwn>>
    BY <1>11, ChecksFrame
  <2> QED BY <2>1, <2>2, <2>3, <2>4
<1>12. CASE OwnDownloadEnds
  <2>1. mishaps' \in 0..MaxMishaps
    BY <1>12, MishapFacts DEF OwnDownloadEnds
  <2>2. disk' \in [Roles -> Contents]
    <3>1. own \in Versions
      BY <1>12 DEF OwnDownloadEnds
    <3> QED BY <1>12, <3>1, FileFacts, PutFacts DEF OwnDownloadEnds
  <2> QED BY <1>12, <2>1, <2>2 DEF OwnDownloadEnds
<1>13. CASE PressStart
  <2>1. mishaps' \in 0..MaxMishaps
    BY <1>13, MishapFacts DEF PressStart
  <2>2. disk' \in [Roles -> Contents]
    BY <1>13, FileFacts, PutFacts DEF PressStart
  <2>3. flow' \in [at : Places, v : 0..LastRelease] /\ (flow'.at = "load" => flow'.v \in Versions)
    <3>1. CASE To("launch")
      BY <3>1, FlowFacts
    <3>2. CASE flow' = [at |-> "load", v |-> release]
      BY <3>2
    <3> QED BY <1>13, <3>1, <3>2 DEF PressStart
  <2> QED BY <1>13, <2>1, <2>2, <2>3 DEF PressStart
<1>14. CASE DownloadEnds
  <2>1. mishaps' \in 0..MaxMishaps
    BY <1>14, MishapFacts DEF DownloadEnds
  <2>2. disk' \in [Roles -> Contents]
    BY <1>14, FileFacts, PutFacts DEF DownloadEnds
  <2>3. flow' \in [at : Places, v : 0..LastRelease] /\ (flow'.at = "load" => flow'.v \in Versions)
    BY <1>14, FlowFacts DEF DownloadEnds
  <2> QED BY <1>14, <2>1, <2>2, <2>3 DEF DownloadEnds
<1>15. CASE \E p \in {"unlink", "away", "in"} : Swap(p)
  <2>1. mishaps' \in 0..MaxMishaps
    BY <1>15, MishapFacts DEF Swap
  <2>2. disk' \in [Roles -> Contents]
    BY <1>15, FileFacts, PutFacts, MoveFacts DEF Swap
  <2>3. flow' \in [at : Places, v : 0..LastRelease] /\ (flow'.at = "load" => flow'.v \in Versions)
    BY <1>15, FlowFacts DEF Swap
  <2> QED BY <1>15, <2>1, <2>2, <2>3 DEF Swap
<1>16. CASE CleanOld
  <2>1. mishaps' \in 0..MaxMishaps
    BY <1>16, MishapFacts DEF CleanOld
  <2>2. disk' \in [Roles -> Contents]
    BY <1>16, FileFacts, PutFacts DEF CleanOld
  <2>3. flow' \in [at : Places, v : 0..LastRelease] /\ (flow'.at = "load" => flow'.v \in Versions)
    BY <1>16, FlowFacts DEF CleanOld
  <2> QED BY <1>16, <2>1, <2>2, <2>3 DEF CleanOld
<1>17. CASE Record
  <2>1. mishaps' \in 0..MaxMishaps
    BY <1>17, MishapFacts DEF Record
  <2>2. flow' \in [at : Places, v : 0..LastRelease] /\ (flow'.at = "load" => flow'.v \in Versions)
    BY <1>17, FlowFacts DEF Record
  <2> QED BY <1>17, <2>1, <2>2 DEF Record
<1>18. CASE BodySwap("unlink", "bodyOld", "", "away")
  <2>1. mishaps' \in 0..MaxMishaps
    BY <1>18, MishapFacts DEF BodySwap
  <2>2. disk' \in [Roles -> Contents]
    BY <1>18, FileFacts, PutFacts DEF BodySwap
  <2> QED BY <1>18, <2>1, <2>2 DEF BodySwap
<1>19. CASE BodySwap("away", "body", "bodyOld", "in")
  <2>1. mishaps' \in 0..MaxMishaps
    BY <1>19, MishapFacts DEF BodySwap
  <2>2. disk' \in [Roles -> Contents]
    BY <1>19, MoveFacts DEF BodySwap
  <2> QED BY <1>19, <2>1, <2>2 DEF BodySwap
<1>20. CASE BodySwap("in", "bodyNew", "body", "spawn")
  <2>1. mishaps' \in 0..MaxMishaps
    BY <1>20, MishapFacts DEF BodySwap
  <2>2. disk' \in [Roles -> Contents]
    BY <1>20, MoveFacts DEF BodySwap
  <2> QED BY <1>20, <2>1, <2>2 DEF BodySwap
<1>21. CASE BodySpawn
  BY <1>21, ContentFacts, IdleFacts DEF BodySpawn
<1>22. CASE BodyCheck
  <2>1. mishaps' \in 0..MaxMishaps
    BY <1>22, MishapFacts DEF BodyCheck
  <2>2. disk' \in [Roles -> Contents]
    BY <1>22, FileFacts, PutFacts DEF BodyCheck
  <2>3. bodyOwn' \in -1..LastRelease
    BY <1>22, ChecksFrame
  <2>4. UNCHANGED <<told, release, main, running, flow, own, body>>
    BY <1>22, ChecksFrame
  <2> QED BY <2>1, <2>2, <2>3, <2>4
<1>23. CASE BodyDownloadEnds
  <2>1. mishaps' \in 0..MaxMishaps
    BY <1>23, MishapFacts DEF BodyDownloadEnds
  <2>2. disk' \in [Roles -> Contents]
    <3>1. bodyOwn \in Versions
      BY <1>23 DEF BodyDownloadEnds
    <3> QED BY <1>23, <3>1, FileFacts, PutFacts DEF BodyDownloadEnds
  <2> QED BY <1>23, <2>1, <2>2 DEF BodyDownloadEnds
<1>24. CASE UNCHANGED files
  BY <1>24 DEF files
<1> QED BY <1>1, <1>2, <1>3, <1>4, <1>5, <1>6, <1>7, <1>8, <1>9, <1>10, <1>11, <1>12, <1>13, <1>14, <1>15, <1>16, <1>17, <1>18, <1>19, <1>20, <1>21, <1>22, <1>23, <1>24
        DEF FilesNext, LauncherSteps, FlowSteps, BodySteps

\* The files of the body, and who may be about to touch them, are as before; a mishap
\* may have been counted.
BodyAlone ==
    /\ UNCHANGED <<flow, body, bodyOwn>>
    /\ \A r \in {"body", "bodyNew", "bodyOld"} : disk'[r] = disk[r]
    /\ mishaps' \in {mishaps, mishaps + 1}

\* A step that leaves the body's files alone keeps what was kept.
LEMMA BodyAloneKeeps ==
    ASSUME FilesTypeOK, Kept, BodyAlone
    PROVE  Kept'
BY DEF FilesTypeOK, Kept, Unharmed, Survives, Whole, Has, BodyAlone

\* The launcher's own start, update and checks, and a release, leave the body alone.
LEMMA LauncherKeeps ==
    ASSUME FilesTypeOK, Kept, StartLauncher \/ LauncherSteps \/ Publish
    PROVE  Kept'
<1>1. CASE StartLauncher \/ SpawnExe \/ Publish
  BY <1>1, BodyAloneKeeps, MishapFacts DEF StartLauncher, SpawnExe, Publish, BodyAlone, FilesTypeOK
<1>2. CASE UnlinkOldExe
  BY <1>2, BodyAloneKeeps, MishapFacts, PutFacts, FileFacts, RoleFacts
     DEF UnlinkOldExe, BodyAlone, FilesTypeOK
<1>3. CASE MoveExeAway
  BY <1>3, BodyAloneKeeps, MishapFacts, MoveFacts, RoleFacts
     DEF MoveExeAway, BodyAlone, FilesTypeOK
<1>4. CASE MoveExeIn
  BY <1>4, BodyAloneKeeps, MishapFacts, MoveFacts, RoleFacts
     DEF MoveExeIn, BodyAlone, FilesTypeOK
<1>5. CASE OwnCheck
  <2>1. mishaps' \in {mishaps, mishaps + 1}
    BY <1>5, MishapFacts DEF OwnCheck, FilesTypeOK
  <2>2. \A r \in {"body", "bodyNew", "bodyOld"} : disk'[r] = disk[r]
    <3>1. UNCHANGED disk \/ Put("exeNew", File(release, FALSE))
      BY <1>5 DEF OwnCheck
    <3> QED BY <3>1, RoleFacts DEF FilesTypeOK, Put
  <2>3. UNCHANGED <<flow, body, bodyOwn>>
    BY <1>5, ChecksFrame
  <2> QED BY <2>1, <2>2, <2>3, BodyAloneKeeps DEF BodyAlone
<1>6. CASE OwnDownloadEnds
  <2>1. mishaps' \in {mishaps, mishaps + 1}
    BY <1>6, MishapFacts DEF OwnDownloadEnds, FilesTypeOK
  <2>2. \A r \in {"body", "bodyNew", "bodyOld"} : disk'[r] = disk[r]
    <3>1. Put("exeNew", None) \/ Put("exeNew", File(own, TRUE))
      BY <1>6 DEF OwnDownloadEnds
    <3> QED BY <3>1, RoleFacts, ZenonT(30) DEF FilesTypeOK, Put
  <2>3. UNCHANGED <<flow, body, bodyOwn>>
    BY <1>6 DEF OwnDownloadEnds
  <2> QED BY <2>1, <2>2, <2>3, BodyAloneKeeps DEF BodyAlone
<1> QED BY <1>1, <1>2, <1>3, <1>4, <1>5, <1>6 DEF LauncherSteps

\* A mishap was counted, and nothing it counted for was lost.
LEMMA Counted ==
    ASSUME FilesTypeOK, NEW kind, Mishap(kind)
    PROVE  mishaps' = mishaps + 1 /\ mishaps \in Nat /\ kind \in Mishaps
BY MishapFacts DEF FilesTypeOK

\* START and its flow: the new body is complete before the old one is touched, and the
\* old one goes only when the new one is in.
LEMMA FlowKeeps ==
    ASSUME FilesTypeOK, Versioned, Kept, "meet" \notin Mishaps, PressStart \/ FlowSteps
    PROVE  Kept'
<1> USE RoleFacts DEF Kept, Unharmed, Survives, Whole, Has
<1>1. CASE PressStart
  <2>1. CASE To("launch") /\ UNCHANGED disk /\ mishaps' \in {mishaps, mishaps + 1}
    BY <1>1, <2>1, FlowFacts DEF PressStart, FilesTypeOK, Idle, Places
  <2>2. CASE /\ flow' = [at |-> "load", v |-> release] /\ bodyOwn <= 0
             /\ Put("bodyNew", File(release, FALSE)) /\ UNCHANGED mishaps
    <3>1. File(release, FALSE) \in Contents
      BY FileFacts DEF FilesTypeOK
    <3>a. disk \in [Roles -> Contents] /\ Put("bodyNew", File(release, FALSE))
      BY <2>2 DEF FilesTypeOK
    <3>b. \A r \in Roles \ {"bodyNew"} : disk'[r] = disk[r]
      BY <3>a, <3>1, PutFacts
    <3>2. \A r \in {"body", "bodyOld"} : disk'[r] = disk[r]
      BY <3>b
    <3>3. flow.at = "idle" /\ UNCHANGED <<body, bodyOwn>>
      BY <1>1 DEF PressStart, Idle
    <3> QED BY <2>2, <3>2, <3>3 DEF FilesTypeOK
  <2> QED BY <1>1, <2>1, <2>2, Counted DEF PressStart
<1>2. CASE DownloadEnds
  <2>1. CASE Put("bodyNew", File(flow.v, TRUE)) /\ To("unlink") /\ UNCHANGED mishaps
    <3>1. flow.v \in Versions
      BY <1>2 DEF Versioned, DownloadEnds
    <3>2. File(flow.v, TRUE) \in Contents /\ File(flow.v, TRUE).whole
      BY <3>1, FileFacts
    <3>3. /\ \A r \in {"body", "bodyOld"} : disk'[r] = disk[r]
          /\ disk'["bodyNew"] = File(flow.v, TRUE)
      BY <2>1 DEF FilesTypeOK, Put
    <3>4. flow'.at = "unlink"
      BY <2>1, FlowFacts DEF FilesTypeOK, Places
    <3>5. flow.at = "load" /\ UNCHANGED <<body, bodyOwn>>
      BY <1>2 DEF DownloadEnds
    <3> QED BY <2>1, <3>2, <3>3, <3>4, <3>5 DEF FilesTypeOK
  <2>2. CASE mishaps' = mishaps + 1 /\ Put("bodyNew", None) /\ To("launch")
    BY <1>2, <2>2, PutFacts, FileFacts, FlowFacts DEF DownloadEnds, FilesTypeOK, Places
  <2> QED BY <1>2, <2>1, <2>2, Counted DEF DownloadEnds
<1>3. ASSUME NEW p \in {"unlink", "away", "in"}, Swap(p)
      PROVE  Kept'
  <2>1. CASE To("launch") /\ UNCHANGED disk /\ mishaps' = mishaps + 1
    BY <1>3, <2>1, FlowFacts DEF Swap, FilesTypeOK, Places
  <2>2. CASE p = "unlink" /\ Put("bodyOld", None) /\ To("away") /\ UNCHANGED mishaps
    BY <1>3, <2>2, PutFacts, FileFacts, FlowFacts DEF Swap, FilesTypeOK, Places
  <2>3. CASE p = "away" /\ To("in") /\ UNCHANGED mishaps
    <3>1. CASE Has("body") /\ Move("body", "bodyOld")
      BY <1>3, <2>3, <3>1, MoveFacts, FlowFacts DEF Swap, FilesTypeOK, Places
    <3>2. CASE ~Has("body") /\ UNCHANGED disk
      BY <1>3, <2>3, <3>2, FileFacts, FlowFacts DEF Swap, FilesTypeOK, Places
    <3>3. IF Has("body") THEN Move("body", "bodyOld") ELSE UNCHANGED disk
      <4> HIDE DEF Has
      <4> QED BY <1>3, <2>3, FlowFacts DEF Swap, FilesTypeOK, Places, Mishap
    <3> QED BY <3>1, <3>2, <3>3
  <2>4. CASE p = "in" /\ Move("bodyNew", "body") /\ To("clean") /\ UNCHANGED mishaps
    BY <1>3, <2>4, MoveFacts, FlowFacts DEF Swap, FilesTypeOK, Places
  <2> QED BY <1>3, <2>1, <2>2, <2>3, <2>4, Counted DEF Swap
<1>4. CASE CleanOld
  BY <1>4, Counted, PutFacts, FileFacts, FlowFacts DEF CleanOld, FilesTypeOK, Places
<1>5. CASE Record
  BY <1>5, Counted, FlowFacts DEF Record, FilesTypeOK, Places
<1>6. CASE Launch
  BY <1>6, IdleFacts DEF Launch, FilesTypeOK
<1> QED BY <1>1, <1>2, <1>3, <1>4, <1>5, <1>6 DEF FlowSteps

\* A launcher that dies leaves the files as they are, and its flow with it.
LEMMA KillKeeps ==
    ASSUME FilesTypeOK, Kept, KillLauncher
    PROVE  Kept'
<1>1. flow'.at = "idle" /\ UNCHANGED <<disk, body, bodyOwn>> /\ mishaps' = mishaps + 1
  BY Counted, IdleFacts DEF KillLauncher
<1>2. CASE mishaps = 0
  BY <1>1, <1>2 DEF Kept, Unharmed, Survives, Whole
<1>3. CASE mishaps > 0
  BY <1>1, <1>3 DEF FilesTypeOK, Kept
<1> QED BY <1>2, <1>3 DEF FilesTypeOK

\* A body opened without the launcher touches its files only after a second mishap, or
\* downloads beside a body that is there.
LEMMA BodyKeeps ==
    ASSUME FilesTypeOK, Kept, "meet" \notin Mishaps, OpenBody \/ BodySteps \/ CloseBody
    PROVE  Kept'
<1> USE RoleFacts DEF Kept, Unharmed, Survives, Whole
<1>1. CASE OpenBody
  <2>1. mishaps' = mishaps + 1 /\ flow.at = "idle" /\ UNCHANGED <<disk, flow, bodyOwn>>
    BY <1>1, Counted, IdleFacts DEF OpenBody, Alone
  <2>2. body'.at = IF Has("bodyNew") THEN "unlink" ELSE "open"
    BY <1>1 DEF OpenBody
  <2> QED BY <2>1, <2>2, IdleFacts DEF FilesTypeOK
<1>2. ASSUME NEW place \in {"unlink", "away", "in"}, NEW from, NEW to, NEW next,
             BodySwap(place, from, to, next)
      PROVE  Kept'
  <2>1. mishaps > 1
    BY <1>2 DEF BodySwap, FilesTypeOK
  <2>2. mishaps' \in {mishaps, mishaps + 1}
    BY <1>2, Counted DEF BodySwap
  <2> QED BY <2>1, <2>2 DEF FilesTypeOK
<1>3. CASE BodySpawn
  BY <1>3 DEF BodySpawn, FilesTypeOK
<1>4. CASE BodyCheck
  <2>1. CASE UNCHANGED disk
    <3>1. mishaps' \in {mishaps, mishaps + 1} /\ bodyOwn' \in {0, release}
      BY <1>4, Counted, ChecksFrame DEF BodyCheck
    <3>2. bodyOwn' = 0
      BY <1>4, <2>1, FileFacts DEF BodyCheck, Put, Has, FilesTypeOK
    <3> QED BY <1>4, <2>1, <3>1, <3>2, ChecksFrame DEF BodyCheck, FilesTypeOK
  <2>2. CASE ~Has("bodyNew") /\ Put("bodyNew", File(release, FALSE)) /\ UNCHANGED mishaps
    <3>1. \A r \in {"body", "bodyOld"} : disk'[r] = disk[r]
      BY <2>2 DEF FilesTypeOK, Put
    <3>2. body.at = "open" /\ flow.at # "load" /\ UNCHANGED <<body, flow>>
      BY <1>4, ChecksFrame DEF BodyCheck
    <3>3. ~disk["bodyNew"].whole
      BY <2>2, FileFacts DEF Has
    <3> QED BY <2>2, <3>1, <3>2, <3>3 DEF FilesTypeOK
  <2> QED BY <1>4, <2>1, <2>2 DEF BodyCheck
<1>5. CASE BodyDownloadEnds
  <2>1. \A r \in {"body", "bodyOld"} : disk'[r] = disk[r]
    <3>1. Put("bodyNew", None) \/ Put("bodyNew", File(bodyOwn, TRUE))
      BY <1>5 DEF BodyDownloadEnds
    <3>2. CASE Put("bodyNew", None)
      BY <3>2 DEF FilesTypeOK, Put
    <3>3. CASE Put("bodyNew", File(bodyOwn, TRUE))
      BY <3>3 DEF FilesTypeOK, Put
    <3> QED BY <3>1, <3>2, <3>3
  <2>2. mishaps' \in {mishaps, mishaps + 1} /\ bodyOwn > 0 /\ bodyOwn' = 0
    BY <1>5, Counted DEF BodyDownloadEnds
  <2>3. UNCHANGED <<flow, body>>
    BY <1>5 DEF BodyDownloadEnds
  <2>4. mishaps > 0
    BY <2>2 DEF FilesTypeOK, Unasked
  <2> QED BY <2>1, <2>2, <2>3, <2>4 DEF FilesTypeOK
<1>6. CASE CloseBody
  <2>1. body.at = "open" /\ body'.at = "off" /\ bodyOwn' = Unasked
    BY <1>6 DEF CloseBody
  <2>2. UNCHANGED <<disk, flow, mishaps>>
    BY <1>6 DEF CloseBody
  <2> QED BY <2>1, <2>2, IdleFacts DEF Has
<1> QED BY <1>1, <1>2, <1>3, <1>4, <1>5, <1>6 DEF BodySteps

\* The types of the files and what survives a mishap hold together from the start.
LEMMA FilesInvariant ==
    ASSUME "meet" \notin Mishaps
    PROVE  FilesSpec => [](FilesTypeOK /\ Versioned /\ Kept)
<1>1. FilesInit => FilesTypeOK /\ Versioned
  BY InstallAssumption, IdleFacts
     DEF FilesInit, FilesTypeOK, Versioned, Roles, Contents, Versions, File, Places
<1>2. FilesInit => Kept
  <2> SUFFICES ASSUME FilesInit PROVE Kept
      OBVIOUS
  <2>1. disk["body"].whole /\ disk["bodyNew"] = None
    <3>1. 1 \in Versions
      BY InstallAssumption DEF Versions
    <3>2. File(1, TRUE).whole
      BY <3>1, FileFacts
    <3> QED BY <3>2, RoleFacts DEF FilesInit
  <2>2. flow.at = "idle" /\ body.at = "off" /\ bodyOwn = Unasked
    BY IdleFacts DEF FilesInit
  <2> QED BY <2>1, <2>2 DEF Kept, Unharmed, Survives, Whole, Has
<1>3. ASSUME FilesTypeOK, Versioned, Kept, FilesNext
      PROVE  Kept'
  BY <1>3, LauncherKeeps, FlowKeeps, KillKeeps, BodyKeeps DEF FilesNext
<1>4. FilesTypeOK /\ Versioned /\ Kept /\ [FilesNext]_files
        => (FilesTypeOK /\ Versioned /\ Kept)'
  BY <1>3, FilesNextType DEF files, Kept, Unharmed, Survives, Whole, Has
<1> QED BY <1>1, <1>2, <1>4, PTL DEF FilesSpec

\* Types of the files, the two programs' threads and the START button, for any number of
\* releases and any mishaps.
THEOREM FilesTypeCorrect == FilesSpec => []FilesTypeOK
<1>1. FilesInit => FilesTypeOK /\ Versioned
  BY InstallAssumption, IdleFacts
     DEF FilesInit, FilesTypeOK, Versioned, Roles, Contents, Versions, File, Places
<1>2. FilesTypeOK /\ Versioned /\ [FilesNext]_files => FilesTypeOK' /\ Versioned'
  BY FilesNextType
<1> QED BY <1>1, <1>2, PTL DEF FilesSpec

\* A single mishap, of whatever kind and wherever it strikes, leaves a complete body on
\* the disk, as long as two programs do not swap it at the same time.
THEOREM BodyKeptHolds ==
    ASSUME "meet" \notin Mishaps
    PROVE  FilesSpec => []BodyKept
<1>1. FilesTypeOK /\ Kept => BodyKept
  <2> SUFFICES ASSUME FilesTypeOK, Kept, mishaps <= 1
               PROVE  \E r \in {"body", "bodyNew", "bodyOld"} : disk[r].whole
      BY DEF BodyKept
  <2>1. flow.at \in Places
    BY DEF FilesTypeOK, Places
  <2> QED BY <2>1 DEF Kept, Survives, Whole, Places
<1> QED BY <1>1, FilesInvariant, PTL

-----------------------------------------------------------------------------
(* Accounts *)

AccountsSpec == AccountsInit /\ [][AccountsNext]_accounts

\* What a bot is given is what was saved, whichever column it stands in; the list of
\* running pairs is what the user switched on, once a start has made it from the flag of
\* the first schema.
AccountsInv ==
    /\ \A m \in Modes : KeyOf(m) = saved[m]
    /\ IF row.running = Null THEN on = (IF row.flag THEN {Btc} ELSE {}) ELSE on = row.running
    /\ up => ~(row.flag /\ row.running = Null)

Rows == [pin : BOOLEAN, legacy : MaybeKeys, demo : MaybeKeys, live : MaybeKeys,
         flag : BOOLEAN, running : {Null} \cup SUBSET Pairs]

\* The migrations leave the row well-formed, change no key a bot is given, and make the
\* list of running pairs where there is none.
LEMMA MigrationKeeps ==
    ASSUME NEW r \in Rows
    PROVE  LET s == PairsMigrated(KeysMigrated(r))
           IN  /\ s \in Rows /\ s.live = r.live /\ s.flag = r.flag
               /\ (IF s.demo # NoKey THEN s.demo ELSE s.legacy)
                     = (IF r.demo # NoKey THEN r.demo ELSE r.legacy)
               /\ s.running = IF r.flag /\ r.running = Null THEN {Btc} ELSE r.running
<1> DEFINE k == KeysMigrated(r)
<1>1. /\ k \in Rows /\ k.live = r.live /\ k.flag = r.flag /\ k.running = r.running
      /\ (IF k.demo # NoKey THEN k.demo ELSE k.legacy)
            = (IF r.demo # NoKey THEN r.demo ELSE r.legacy)
  BY DEF KeysMigrated, Rows
<1> HIDE DEF k
<1>2. /\ PairsMigrated(k) \in Rows /\ PairsMigrated(k).live = k.live
      /\ PairsMigrated(k).flag = k.flag
      /\ PairsMigrated(k).demo = k.demo /\ PairsMigrated(k).legacy = k.legacy
      /\ PairsMigrated(k).running = IF k.flag /\ k.running = Null THEN {Btc} ELSE k.running
  BY <1>1, AccountsAssumption DEF PairsMigrated, Rows
<1> QED BY <1>1, <1>2 DEF k

\* Every start, request and change of the row keeps the types.
LEMMA AccountsNextInv ==
    ASSUME AccountsTypeOK, AccountsInv, [AccountsNext]_accounts
    PROVE  AccountsTypeOK' /\ AccountsInv'
<1> USE AccountsAssumption DEF AccountsTypeOK, AccountsInv, MaybeKeys, KeyOf, Modes
<1>1. CASE Boots
  <2> DEFINE r == PairsMigrated(KeysMigrated(row))
  <2>1. /\ r \in Rows /\ r.live = row.live /\ r.flag = row.flag
        /\ (IF r.demo # NoKey THEN r.demo ELSE r.legacy)
              = (IF row.demo # NoKey THEN row.demo ELSE row.legacy)
        /\ r.running = IF row.flag /\ row.running = Null THEN {Btc} ELSE row.running
    BY MigrationKeeps DEF Rows
  <2>2. sessions' \in [Tokens -> 0..(MaxClock + TTL)]
    BY <1>1 DEF Boots, Cleaned
  <2>3. row' = r /\ up' = TRUE /\ UNCHANGED <<clock, saved, on>>
    BY <1>1 DEF Boots
  <2>4. {Btc} # Null
    BY DEF Null
  <2> HIDE DEF r
  <2> QED BY <2>1, <2>2, <2>3, <2>4 DEF Rows
<1>2. CASE GoesDown \/ Ticks
  <2>1. clock' \in 0..MaxClock
    BY <1>2 DEF GoesDown, Ticks
  <2>2. UNCHANGED <<row, sessions, saved, on>>
    BY <1>2 DEF GoesDown, Ticks
  <2>3. up' = up \/ up' = FALSE
    BY <1>2 DEF GoesDown, Ticks
  <2>4. CASE up' = up
    BY <2>1, <2>2, <2>4
  <2>5. CASE up' = FALSE
    BY <2>1, <2>2, <2>5
  <2> QED BY <2>3, <2>4, <2>5
<1>3. CASE ClearsPin
  BY <1>3 DEF ClearsPin
<1>4. ASSUME NEW t \in Tokens, SetsPin(t)
      PROVE  AccountsTypeOK' /\ AccountsInv'
  <2>1. sessions' \in [Tokens -> 0..(MaxClock + TTL)]
    BY <1>4 DEF SetsPin, Issues
  <2>2. /\ row' \in Rows /\ row'.legacy = row.legacy /\ row'.demo = row.demo
        /\ row'.live = row.live /\ row'.flag = row.flag /\ row'.running = row.running
    BY <1>4 DEF SetsPin, Rows
  <2>3. UNCHANGED <<clock, up, saved, on>>
    BY <1>4 DEF SetsPin
  <2> QED BY <2>1, <2>2, <2>3 DEF Rows
<1>5. ASSUME NEW t \in Tokens, LogsIn(t) \/ LogsOut(t)
      PROVE  AccountsTypeOK' /\ AccountsInv'
  BY <1>5 DEF LogsIn, LogsOut, Issues
<1>6. ASSUME NEW t \in Tokens, NEW m \in Modes, DeletesKey(t, m)
      PROVE  AccountsTypeOK' /\ AccountsInv'
  BY <1>6 DEF DeletesKey
<1>7. ASSUME NEW t \in Tokens, NEW m \in Modes, NEW k \in Keys, SavesKey(t, m, k)
      PROVE  AccountsTypeOK' /\ AccountsInv'
  BY <1>7 DEF SavesKey
<1>8. ASSUME NEW s \in Pairs, NEW r \in BOOLEAN, SetsRunning(s, r)
      PROVE  AccountsTypeOK' /\ AccountsInv'
  BY <1>8, ZenonT(30) DEF SetsRunning, RunningPairs, Null
<1>9. CASE UNCHANGED accounts
  BY <1>9 DEF accounts
<1> QED BY <1>1, <1>2, <1>3, <1>4, <1>5, <1>6, <1>7, <1>8, <1>9 DEF AccountsNext

\* The row of the first schema or of a new user begins with it.
LEMMA AccountsInitInv == AccountsInit => AccountsTypeOK /\ AccountsInv
<1> SUFFICES ASSUME AccountsInit PROVE AccountsTypeOK /\ AccountsInv
    OBVIOUS
<1>1. PICK k \in MaybeKeys, f \in BOOLEAN :
          /\ row = [pin |-> FALSE, legacy |-> k, demo |-> NoKey, live |-> NoKey,
                    flag |-> f, running |-> Null]
          /\ saved = [m \in Modes |-> IF m = "demo" THEN k ELSE NoKey]
          /\ on = IF f THEN {Btc} ELSE {}
  BY DEF AccountsInit
<1>2. clock = 0 /\ up = FALSE /\ sessions = [t \in Tokens |-> 0]
  BY DEF AccountsInit
<1>3. row \in Rows
  BY <1>1 DEF Rows, MaybeKeys
<1>4. AccountsTypeOK
  <2>1. up \in BOOLEAN
    BY <1>2, Zenon
  <2>2. clock \in 0..MaxClock /\ sessions \in [Tokens -> 0..(MaxClock + TTL)]
    BY <1>2, AccountsAssumption
  <2>3. saved \in [Modes -> MaybeKeys] /\ on \subseteq Pairs
    BY <1>1, AccountsAssumption DEF MaybeKeys
  <2> QED BY <1>3, <2>1, <2>2, <2>3 DEF AccountsTypeOK, Rows
<1>5. AccountsInv
  BY <1>1, <1>2 DEF AccountsInv, KeyOf, Modes
<1> QED BY <1>4, <1>5

\* The row keeps its types and its meaning.
LEMMA AccountsInvariant == AccountsSpec => [](AccountsTypeOK /\ AccountsInv)
BY AccountsInitInv, AccountsNextInv, PTL DEF AccountsSpec

\* A user's row, legacy columns and switched pairs stay of their kinds.
THEOREM AccountsTypeCorrect == AccountsSpec => []AccountsTypeOK
BY AccountsInvariant, PTL

-----------------------------------------------------------------------------
(* UsersFile *)

StoreSpec == UsersFileInit /\ [][UsersFileNext]_store

Copies == [day : 1..LastDay, of : {"users", "new"}]

\* A copy with fewer younger ones than are kept is kept: at most one copy was made on
\* each of the days from a to b.
LEMMA NewestKeeps ==
    ASSUME NEW S \in SUBSET Copies, NEW c \in S, NEW a \in Int, NEW b \in Int,
           \A d, e \in S : d.day = e.day => d = e,
           \A d \in S : d.day > c.day => d.day \in a..b,
           b - a + 1 < KeepCopies
    PROVE  c \in Newest(S)
<1> DEFINE younger == {d \in S : d.day > c.day}
           f == [d \in younger |-> d.day]
<1>1. f \in Injection(younger, a..b)
  BY DEF Injection, IsInjective
<1>2. IsFiniteSet(a..b) /\ Cardinality(a..b) = IF a > b THEN 0 ELSE b - a + 1
  BY FS_Interval
<1>3. IsFiniteSet(younger) /\ Cardinality(younger) <= Cardinality(a..b)
  BY <1>1, <1>2, FS_Injection
<1>4. Cardinality(younger) < KeepCopies
  BY <1>2, <1>3, FS_CardinalityType, UsersFileAssumption
<1> QED BY <1>4 DEF Newest

\* Among copies there is a youngest.
LEMMA YoungestCopy ==
    ASSUME NEW S \in SUBSET Copies, S # {}
    PROVE  \E c \in S : \A d \in S : d.day <= c.day
<1> DEFINE R == OpToRel(<, Nat)
           T == {LastDay - c.day : c \in S}
<1>1. T \subseteq Nat /\ T # {}
  BY UsersFileAssumption DEF Copies
<1>2. PICK x \in T : \A y \in T : <<y, x>> \notin R
  BY <1>1, NatLessThanWellFounded, WFMin
<1>3. \A y \in T : ~(y < x)
  BY <1>1, <1>2 DEF OpToRel
<1>4. PICK c \in S : x = LastDay - c.day
  OBVIOUS
<1>5. ASSUME NEW d \in S
      PROVE  d.day <= c.day
  <2>1. ~(LastDay - d.day < LastDay - c.day)
    BY <1>3, <1>4
  <2>2. d.day \in Int /\ c.day \in Int /\ LastDay \in Int
    BY UsersFileAssumption DEF Copies
  <2> QED BY <2>1, <2>2
<1> QED BY <1>5

\* One copy a day at most; the file that took a broken one's place stays, and its copies
\* are of the days since.
StoreInv ==
    /\ \A c \in copies : c.day <= today
    /\ \A c, d \in copies : c.day = d.day => c = d
    /\ lost.day <= today
    /\ lost.day = 0 => db # "new" /\ ~lost.copied
    /\ lost.day > 0 => db = "new"
    /\ \A c \in copies : c.of = "new" => lost.day > 0 /\ c.day >= lost.day
    /\ serving # "down" => db # "broken"
    /\ Recoverable

\* The day's copy is added and the oldest are dropped.
LEMMA CopiesFileKeeps ==
    ASSUME UsersFileTypeOK, StoreInv, CopiesFile
    PROVE  UsersFileTypeOK' /\ StoreInv'
<1> DEFINE S == IF \E c \in copies : c.day = today THEN copies
                ELSE copies \cup {[day |-> today, of |-> db]}
<1> USE UsersFileAssumption
<1>1. copies' = Newest(S) /\ Newest(S) \subseteq S /\ UNCHANGED <<today, db, lost>>
      /\ serving = "opened" /\ serving' = "up"
  BY DEF CopiesFile, Newest
<1>2. db \in {"users", "new"}
  BY <1>1 DEF UsersFileTypeOK, StoreInv
<1>3. S \in SUBSET Copies /\ \A c \in S : c.day <= today
  BY <1>2 DEF UsersFileTypeOK, StoreInv, Copies
<1>4. \A c, d \in S : c.day = d.day => c = d
  BY DEF StoreInv
<1>5. \A c \in S : c.of = "new" => lost.day > 0 /\ c.day >= lost.day
  BY DEF StoreInv, UsersFileTypeOK
<1>6. Recoverable'
  <2> SUFFICES ASSUME lost.copied, today < lost.day + KeepCopies - 1
               PROVE  \E c \in Newest(S) : c.of = "users"
      BY <1>1 DEF Recoverable, OfUsers
  <2> DEFINE U == {c \in S : c.of = "users"}
  <2>1. U # {}
    BY DEF StoreInv, Recoverable, OfUsers
  <2>2. PICK c \in U : \A d \in U : d.day <= c.day
    BY <2>1, <1>3, YoungestCopy
  <2>3. \A d \in S : d.day > c.day => d.day \in lost.day..today
    BY <1>3, <1>5, <2>2 DEF UsersFileTypeOK, Copies
  <2>4. today - lost.day + 1 < KeepCopies /\ today \in Int /\ lost.day \in Int
    BY DEF UsersFileTypeOK
  <2>5. c \in Newest(S)
    BY <1>3, <1>4, <2>3, <2>4, NewestKeeps
  <2> QED BY <2>2, <2>5
<1> QED BY <1>1, <1>2, <1>3, <1>4, <1>5, <1>6 DEF UsersFileTypeOK, StoreInv, Copies

\* The other steps add no copy.
LEMMA StoreNextInv ==
    ASSUME UsersFileTypeOK, StoreInv, [UsersFileNext]_store
    PROVE  UsersFileTypeOK' /\ StoreInv'
<1> USE UsersFileAssumption DEF UsersFileTypeOK, StoreInv, Recoverable, OfUsers
<1>1. CASE OpensFile /\ db = "broken"
  <2>1. /\ db' = "new" /\ lost' = [day |-> today, copied |-> OfUsers # {}]
        /\ serving' = "opened" /\ UNCHANGED <<today, copies>>
    BY <1>1 DEF OpensFile
  <2>2. lost'.day = today /\ lost'.copied = (OfUsers # {})
    BY <2>1
  <2>3. lost' \in [day : 0..LastDay, copied : BOOLEAN]
    BY <2>1
  <2>4. lost.day = 0 /\ \A c \in copies : c.of = "users"
    BY <1>1
  <2>5. Recoverable'
    BY <2>1, <2>2
  <2> QED BY <2>1, <2>2, <2>3, <2>4, <2>5
<1>6. CASE OpensFile /\ db # "broken"
  BY <1>6 DEF OpensFile
<1>2. CASE CopiesFile
  BY <1>2, CopiesFileKeeps
<1>3. CASE ServerEnds \/ FileBreaks
  BY <1>3 DEF ServerEnds, FileBreaks
<1>4. CASE DateChanges
  BY <1>4 DEF DateChanges
<1>5. CASE UNCHANGED store
  BY <1>5 DEF store
<1> QED BY <1>1, <1>2, <1>3, <1>4, <1>5, <1>6 DEF UsersFileNext

\* A server that never started has no copies.
LEMMA StoreInitInv == UsersFileInit => UsersFileTypeOK /\ StoreInv
BY UsersFileAssumption DEF UsersFileInit, UsersFileTypeOK, StoreInv, Recoverable, OfUsers

\* The copies of the users' file stay of their kinds through broken files and restarts.
THEOREM StoreTypeCorrect == StoreSpec => []UsersFileTypeOK
BY StoreInitInv, StoreNextInv, PTL DEF StoreSpec

\* The two parts side by side: a user's row and the file it is in.
\* Keys, deletions and switched pairs are remembered through every migration and restart,
\* and the users of a file that broke stay in a copy on the day it is put aside and
\* KeepCopies - 2 days more.
THEOREM RememberedHolds == AccountsSpec /\ StoreSpec => []Remembered
<1>1. AccountsTypeOK /\ AccountsInv
        => (up => (\A m \in Modes : KeyOf(m) = saved[m]) /\ RunningPairs = on)
  BY AccountsAssumption DEF AccountsTypeOK, AccountsInv, RunningPairs, Null
<1>2. AccountsTypeOK /\ AccountsInv /\ StoreInv => Remembered
  BY <1>1 DEF StoreInv, Remembered
<1>3. StoreSpec => [](UsersFileTypeOK /\ StoreInv)
  BY StoreInitInv, StoreNextInv, PTL DEF StoreSpec
<1> QED BY <1>2, <1>3, AccountsInvariant, PTL
=============================================================================
