------------------------------ MODULE Supervisor ------------------------------
(***************************************************************************)
(* The launcher as a supervisor of the body (Windows).  START spawns a body *)
(* and two threads: one hides the launcher's window when the body answers   *)
(* (or a minute has passed), the other looks every two seconds whether the  *)
(* body still runs, restarts it on a relaunch request and brings the window *)
(* back when it is gone.  aurora_launcher with aurora, and its twin         *)
(* aurora_ict_launcher with aurora_ict, which differ by two constants.      *)
(***************************************************************************)
EXTENDS Integers, FiniteSets

CONSTANTS
    Bodies,         \* processes of the body
    NoProc,         \* no process
    HealthAnswers,  \* the body serves the address the launcher polls
    Guarded,        \* a body that starts ends those it finds and takes the mutex
    Hectic          \* a body ends, or a kill fails, while a readiness thread or a request waits

ASSUME SupervisorAssumption ==
    NoProc \notin Bodies /\ {HealthAnswers, Guarded, Hectic} \subseteq BOOLEAN

VARIABLES
    window,     \* the launcher: "off", or its window "shown" or "hidden"
    button,     \* START can be pressed
    proc,       \* _aurora_proc, NoProc when there is none
    poll,       \* the watching thread: "off", or the next thing it does
    waits,      \* whether readiness threads run: none, one, or two
    marker,     \* .relaunch_request exists
    process,    \* each body: "off", or what it does
    found,      \* the bodies each has found and not yet tried to end
    handles     \* the bodies with a handle of the mutex, which exists while there is one

bodies == <<process, found, handles>>
procs == <<window, button, proc, poll, waits, marker, bodies>>

Alive == {b \in Bodies : process[b] # "off"}
Serving == {b \in Bodies : process[b] = "serving"}
Starting == {b \in Bodies : process[b] \in {"boot", "kills"}}
Up == window # "off"
Calm == Hectic \/ (waits = 0 /\ ~marker)

ProcsTypeOK ==
    /\ window \in {"off", "shown", "hidden"} /\ button \in BOOLEAN
    /\ proc \in Bodies \cup {NoProc}
    /\ poll \in {"off", "look", "check", "end", "checkEnded"}
    /\ waits \in 0..2 /\ marker \in BOOLEAN
    /\ process \in [Bodies -> {"off", "boot", "kills", "serving", "late", "dying"}]
    /\ found \in [Bodies -> SUBSET Bodies] /\ handles \subseteq Bodies

ProcsInit ==
    /\ window = "off" /\ button = FALSE /\ proc = NoProc /\ poll = "off" /\ waits = 0
    /\ process = [b \in Bodies |-> "off"] /\ marker \in {m \in BOOLEAN : m => Hectic}
    /\ found = [b \in Bodies |-> {}] /\ handles = {}

-----------------------------------------------------------------------------
\* Bodies end, nobody looks for them any more, and the system closes their handles.
Ending(some, now) ==
    /\ process' = [b \in Bodies |-> IF b \in some THEN "off" ELSE now[b]]
    /\ found' = [b \in Bodies |-> IF b \in some THEN {} ELSE found[b] \ some]
    /\ handles' = handles \ some

\* tasklist or taskkill may fail or time out: what is left of those to be ended.
Left(some) == IF Calm THEN SUBSET some ELSE {{}}

\* _kill_other_aurora_processes: a launcher that starts ends the bodies and the
\* launcher it finds, and has a window of its own, unless the other's mutex is there.
OpenLauncher ==
    /\ window # "shown" /\ Calm
    /\ \E left \in Left(Alive) : Ending(Alive \ left, process)
    /\ \/ /\ window' = "shown" /\ button' = TRUE /\ proc' = NoProc /\ poll' = "off" /\ waits' = 0
       \/ Up /\ UNCHANGED <<window, button, proc, poll, waits>>
    /\ UNCHANGED marker

\* os._exit: the threads end, a detached body goes on.
Quit ==
    /\ Up /\ Calm
    /\ window' = "off" /\ button' = FALSE /\ proc' = NoProc /\ poll' = "off" /\ waits' = 0
    /\ UNCHANGED <<marker, bodies>>

\* launch_aurora: the one that listens on the port is ended and a new body started.
Spawned(b) ==
    /\ process[b] = "off" /\ b # proc
    /\ \E some \in SUBSET Serving :
          /\ Cardinality(some) <= 1 /\ (Calm \/ some # {} \/ Serving = {})
          /\ Ending(some, [process EXCEPT ![b] = "boot"])

\* launch: without a file to run the button is free again.
PressButton ==
    /\ window = "shown" /\ button /\ waits < 2
    /\ Hectic \/ Starting = {}
    /\ \/ UNCHANGED procs
       \/ \E b \in Bodies : /\ Spawned(b) /\ proc' = b
                            /\ button' = FALSE /\ poll' = "look" /\ waits' = waits + 1
                            /\ UNCHANGED <<window, marker>>

\* _start_readiness_polling: the window is hidden when somebody answers, and when a
\* minute has passed.
Ready ==
    /\ waits > 0
    /\ HealthAnswers /\ Serving # {}
    /\ waits' = waits - 1 /\ window' = "hidden"
    /\ UNCHANGED <<button, proc, poll, marker, bodies>>

Deadline ==
    /\ waits > 0
    /\ waits' = waits - 1 /\ window' = "hidden"
    /\ UNCHANGED <<button, proc, poll, marker, bodies>>

-----------------------------------------------------------------------------
(* _start_aurora_polling *)

PollLooks ==
    /\ poll = "look"
    /\ poll' = IF marker THEN "end" ELSE "check"
    /\ UNCHANGED <<window, button, proc, waits, marker, bodies>>

\* terminate, wait, and kill when it takes more than three seconds.
PollEnds ==
    /\ poll = "end" /\ poll' = "checkEnded" /\ marker' = FALSE
    /\ \/ Ending({proc}, process)
       \/ /\ process[proc] # "off" /\ UNCHANGED handles
          /\ process' = [process EXCEPT ![proc] = "dying"] /\ found' = [found EXCEPT ![proc] = {}]
    /\ UNCHANGED <<window, button, proc, waits>>

\* A body that runs is looked at again; one that was ended on request is started
\* again; otherwise, or when it cannot be started, the window comes back.
\* Mutant: a relaunch that cannot start ends the thread.
GivesUp ==
    /\ poll \in {"check", "checkEnded"}
    /\ IF process[proc] # "off" THEN poll' = "look" /\ UNCHANGED <<window, button, proc, bodies>>
       ELSE \/ /\ poll = "checkEnded"
               /\ \E b \in Bodies : Spawned(b) /\ proc' = b
               /\ poll' = "look" /\ UNCHANGED <<window, button>>
            \/ /\ poll' = "off" /\ proc' = NoProc /\ UNCHANGED bodies
               /\ IF poll = "check" THEN window' = "shown" /\ button' = TRUE
                                    ELSE UNCHANGED <<window, button>>
    /\ UNCHANGED <<waits, marker>>

PollChecks ==
    /\ poll \in {"check", "checkEnded"}
    /\ IF process[proc] # "off" THEN poll' = "look" /\ UNCHANGED <<window, button, proc, bodies>>
       ELSE \/ /\ poll = "checkEnded"
               /\ \E b \in Bodies : Spawned(b) /\ proc' = b
               /\ poll' = "look" /\ UNCHANGED <<window, button>>
            \/ /\ poll' = "off" /\ proc' = NoProc /\ UNCHANGED bodies
               /\ window' = "shown" /\ button' = TRUE
    /\ UNCHANGED <<waits, marker>>

-----------------------------------------------------------------------------
(* The body. *)

\* Opened by hand, without the launcher.
OpenDirect(b) ==
    /\ process[b] = "off" /\ b # proc /\ Calm
    /\ process' = [process EXCEPT ![b] = "boot"]
    /\ UNCHANGED <<window, button, proc, poll, waits, marker, found, handles>>

Launcher == UNCHANGED <<window, button, proc, poll, waits, marker>>

\* _kill_other_body_processes: the others are listed, but the parent, or none when that
\* fails; a body of the ICT program does not look for others.
Lists(b) ==
    /\ process[b] = "boot"
    /\ IF Guarded
         THEN /\ process' = [process EXCEPT ![b] = "kills"]
              /\ \E left \in Left(Alive \ {b}) :
                    found' = [found EXCEPT ![b] = Alive \ (left \cup {b})]
         ELSE process' = [process EXCEPT ![b] = "serving"] /\ UNCHANGED found
    /\ UNCHANGED handles /\ Launcher

\* They are ended one after the other, as far as they can be.
Kills(b) ==
    /\ process[b] = "kills"
    /\ \E c \in found[b] :
          \/ Ending({c}, process)
          \/ /\ Calm /\ found' = [found EXCEPT ![b] = @ \ {c}]
             /\ UNCHANGED <<process, handles>>
    /\ Launcher

\* _acquire_single_instance_mutex: a handle is opened, and if there was one the body
\* leaves.
\* Mutant: the mutex is not asked for, the others having been ended.
TakesUnasked(b) ==
    /\ process[b] = "kills" /\ found[b] = {}
    /\ process' = [process EXCEPT ![b] = "serving"]
    /\ handles' = handles \cup {b}
    /\ UNCHANGED found /\ Launcher

Takes(b) ==
    /\ process[b] = "kills" /\ found[b] = {}
    /\ process' = [process EXCEPT ![b] = IF handles = {} THEN "serving" ELSE "late"]
    /\ handles' = handles \cup {b}
    /\ UNCHANGED found /\ Launcher

\* Closed by the user, or crashed.
Ends(b) ==
    /\ process[b] \in {"boot", "kills", "serving"} /\ Calm
    /\ Ending({b}, process) /\ Launcher

\* sys.exit, or the end of what was told to end.
Goes(b) ==
    /\ process[b] \in {"late", "dying"}
    /\ Ending({b}, process) /\ Launcher

\* POST /relaunch
RelaunchRequest(b) ==
    /\ process[b] = "serving" /\ Calm /\ (Hectic \/ (proc = b /\ Alive = {b}))
    /\ marker' = TRUE
    /\ UNCHANGED <<window, button, proc, poll, waits, bodies>>

-----------------------------------------------------------------------------
ThreadSteps == PollLooks \/ PollEnds \/ PollChecks
BodyRuns == \E b \in Bodies : Lists(b) \/ Kills(b) \/ Takes(b) \/ Goes(b)

ProcsNext ==
    \/ OpenLauncher \/ Quit \/ PressButton \/ Ready \/ Deadline \/ ThreadSteps \/ BodyRuns
    \/ \E b \in Bodies : OpenDirect(b) \/ Ends(b) \/ RelaunchRequest(b)

\* When no body is left, the launcher's hidden window comes back (its watching
\* thread, 1359-1452): the user is not left with a program that shows nothing.
NotStranded ==
    (window = "hidden" /\ Alive = {}) ~> (window # "hidden" \/ Alive # {})

\* Two bodies never serve, and so never trade, at once (webview.py 41-186), whoever
\* starts them and in whatever order they list and end each other: where that fails, or
\* one that starts was not on the other's list, the mutex decides, and it goes with the
\* last process that has it.
OneBodyServes == Cardinality(Serving) <= 1
=============================================================================
