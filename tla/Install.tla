------------------------------- MODULE Install -------------------------------
(***************************************************************************)
(* The files of the desktop program and who replaces them                  *)
(* (aurora_ict_launcher/launcher.py, aurora_ict/updater.py; Windows).      *)
(* The launcher downloads a new body when START is pressed and swaps it in *)
(* by renaming; it downloads its own successor in a daemon thread and      *)
(* swaps that in when it next starts; a body opened without the launcher   *)
(* does the same for itself, with the same file names.  A process may be   *)
(* killed between any two file operations, and any of them may be refused. *)
(***************************************************************************)
EXTENDS Integers, FiniteSets

CONSTANTS
    LastRelease,    \* bound on published releases
    Mishaps,        \* what may go wrong, of AllMishaps
    MaxMishaps      \* bound on mishaps

AllMishaps == {"net",           \* a request or a download fails
               "busy",          \* a file operation on the body is refused
               "busyExe",       \* a file operation on the launcher is refused
               "kill",          \* the launcher dies
               "killOwn",       \* it dies while it downloads or swaps in its successor
               "direct",        \* the body is opened without the launcher
               "meet",          \* a body opened so and START swap files at a time
               "hasty"}         \* a release appears between a check and the swap

ASSUME InstallAssumption ==
    /\ LastRelease \in Nat \ {0} /\ MaxMishaps \in Nat
    /\ Mishaps \subseteq AllMishaps

VARIABLES
    disk,       \* the files, by role
    told,       \* .aurora_ict_version, 0 when there is none
    release,    \* the newest release
    main,       \* the launcher's main thread: "off", apply_pending_launcher_update, "open"
    running,    \* __version__ of the running launcher
    flow,       \* the START button: where startFlow is, and the version of its url
    own,        \* the self-update thread: Unasked, done (0), or what it downloads
    body,       \* a body opened without the launcher: where main() is
    bodyOwn,    \* the same for the thread of such a body
    mishaps

files == <<disk, told, release, main, running, flow, own, body, bodyOwn, mishaps>>

Roles == {"body", "bodyNew", "bodyOld", "exe", "exeNew", "exeOld"}
Versions == 1..LastRelease
None == [v |-> 0, whole |-> FALSE]
File(v, whole) == [v |-> v, whole |-> whole]
Contents == {None} \cup [v : Versions, whole : BOOLEAN]
Has(role) == disk[role] # None
Unasked == -1
Idle == [at |-> "idle", v |-> 0]

FilesTypeOK ==
    /\ disk \in [Roles -> Contents]
    /\ told \in 0..LastRelease /\ release \in Versions /\ running \in 0..LastRelease
    /\ main \in {"off", "unlink", "away", "in", "spawn", "open"}
    /\ flow \in [at : {"idle", "load", "unlink", "away", "in", "clean", "tell", "launch"},
                 v : 0..LastRelease]
    /\ own \in -1..LastRelease /\ bodyOwn \in -1..LastRelease
    /\ body \in [at : {"off", "unlink", "away", "in", "spawn", "open"}, v : 0..LastRelease]
    /\ mishaps \in 0..MaxMishaps

\* The body as the first release installed it, with or without its version file.
FilesInit ==
    /\ disk = [r \in Roles |-> IF r \in {"body", "exe"} THEN File(1, TRUE) ELSE None]
    /\ told \in {0, 1} /\ release = 1
    /\ main = "off" /\ running = 0 /\ flow = Idle /\ own = Unasked
    /\ body = [at |-> "off", v |-> 0] /\ bodyOwn = Unasked
    /\ mishaps = 0

Mishap(kind) ==
    /\ kind \in Mishaps /\ mishaps < MaxMishaps
    /\ mishaps' = mishaps + 1

Put(role, f) == disk' = [disk EXCEPT ![role] = f]
Move(from, to) == disk' = [disk EXCEPT ![to] = disk[from], ![from] = None]

-----------------------------------------------------------------------------
(* The launcher starts, replaced by its successor if one waits. *)

\* main() up to apply_pending_launcher_update; a launcher that is open is killed by it.
StartLauncher ==
    /\ disk["exe"].whole /\ main = "off"
    /\ running' = disk["exe"].v
    /\ main' = IF Has("exeNew") THEN "unlink" ELSE "open"
    /\ UNCHANGED <<disk, told, release, flow, own, body, bodyOwn, mishaps>>

UnlinkOldExe ==
    /\ main = "unlink"
    /\ \/ Put("exeOld", None) /\ main' = "away" /\ UNCHANGED mishaps
       \/ Has("exeOld") /\ Mishap("busyExe") /\ main' = "open" /\ UNCHANGED disk
    /\ UNCHANGED <<told, release, running, flow, own, body, bodyOwn>>

MoveExeAway ==
    /\ main = "away"
    /\ \/ Move("exe", "exeOld") /\ main' = "in" /\ UNCHANGED mishaps
       \/ Mishap("busyExe") /\ main' = "open" /\ UNCHANGED disk
    /\ UNCHANGED <<told, release, running, flow, own, body, bodyOwn>>

MoveExeIn ==
    /\ main = "in"
    /\ \/ Move("exeNew", "exe") /\ main' = "spawn" /\ UNCHANGED mishaps
       \/ Mishap("busyExe") /\ main' = "open" /\ UNCHANGED disk
    /\ UNCHANGED <<told, release, running, flow, own, body, bodyOwn>>

\* The new launcher takes over and the old one exits; a file that cannot run
\* raises, and the old launcher goes on from the file it renamed.
SpawnExe ==
    /\ main = "spawn" /\ main' = "open"
    /\ running' = IF disk["exe"].whole THEN disk["exe"].v ELSE running
    /\ UNCHANGED <<disk, told, release, flow, own, body, bodyOwn, mishaps>>

\* Quit, a crash, or a second launcher that kills this one: every thread ends.
KillLauncher ==
    /\ main # "off"
    /\ Mishap(IF own > 0 \/ main # "open" THEN "killOwn" ELSE "kill")
    /\ main' = "off" /\ running' = 0 /\ flow' = Idle /\ own' = Unasked
    /\ UNCHANGED <<disk, told, release, body, bodyOwn>>

\* _check_and_download_launcher_update, once per start: a waiting file counts as
\* complete; a failed request ends the thread.
OwnCheck ==
    /\ main = "open" /\ own = Unasked
    /\ \/ /\ release > running /\ ~Has("exeNew")
          /\ own' = release /\ Put("exeNew", File(release, FALSE)) /\ UNCHANGED mishaps
       \/ /\ \/ (release <= running \/ Has("exeNew")) /\ UNCHANGED mishaps
             \/ Mishap("net")
          /\ own' = 0 /\ UNCHANGED disk
    /\ UNCHANGED <<told, release, main, running, flow, body, bodyOwn>>

OwnDownloadEnds ==
    /\ own > 0 /\ own' = 0
    /\ \/ Put("exeNew", File(own, TRUE)) /\ UNCHANGED mishaps
       \/ Mishap("net") /\ Put("exeNew", None)
    /\ UNCHANGED <<told, release, main, running, flow, body, bodyOwn>>

-----------------------------------------------------------------------------
(* The START button: startFlow, check_update, download_and_swap, launch. *)

To(place) == flow' = [flow EXCEPT !.at = place]

Alone(apart) == apart \/ "meet" \in Mishaps

HasUpdate == told = 0 \/ release > told

\* A failed check and an up-to-date body both go on to launch; otherwise the
\* download truncates whatever waits under the name.
PressStart ==
    /\ main = "open" /\ flow = Idle /\ Alone(body.at \in {"off", "open"})
    /\ \/ /\ HasUpdate /\ bodyOwn <= 0
          /\ flow' = [at |-> "load", v |-> release]
          /\ Put("bodyNew", File(release, FALSE)) /\ UNCHANGED mishaps
       \/ /\ \/ ~HasUpdate /\ UNCHANGED mishaps
             \/ Mishap("net")
          /\ To("launch") /\ UNCHANGED disk
    /\ UNCHANGED <<told, release, main, running, own, body, bodyOwn>>

DownloadEnds ==
    /\ flow.at = "load"
    /\ \/ Put("bodyNew", File(flow.v, TRUE)) /\ To("unlink") /\ UNCHANGED mishaps
       \/ Mishap("net") /\ Put("bodyNew", None) /\ To("launch")
    /\ UNCHANGED <<told, release, main, running, own, body, bodyOwn>>

\* apply_swap, one file operation at a time; a refused one abandons the swap.
\* Mutant: the old body is deleted where the code keeps it until the new one is in.
Deletes(place) ==
    /\ flow.at = place
    /\ \/ /\ CASE place = "unlink" -> Put("body", None) /\ To("in")
               [] place = "away"   -> Move("body", "bodyOld") /\ To("in")
               [] place = "in"     -> Move("bodyNew", "body") /\ To("clean")
          /\ UNCHANGED mishaps
       \/ Mishap("busy") /\ To("launch") /\ UNCHANGED disk
    /\ UNCHANGED <<told, release, main, running, own, body, bodyOwn>>

Swap(place) ==
    /\ flow.at = place
    /\ \/ /\ CASE place = "unlink" -> Put("bodyOld", None) /\ To("away")
               [] place = "away"   -> /\ IF Has("body") THEN Move("body", "bodyOld")
                                                        ELSE UNCHANGED disk
                                      /\ To("in")
               [] place = "in"     -> Move("bodyNew", "body") /\ To("clean")
          /\ UNCHANGED mishaps
       \/ Mishap("busy") /\ To("launch") /\ UNCHANGED disk
    /\ UNCHANGED <<told, release, main, running, own, body, bodyOwn>>

\* The last unlink of apply_swap may fail without consequence.
CleanOld ==
    /\ flow.at = "clean" /\ To("tell")
    /\ \/ Put("bodyOld", None) /\ UNCHANGED mishaps
       \/ Mishap("busy") /\ UNCHANGED disk
    /\ UNCHANGED <<told, release, main, running, own, body, bodyOwn>>

\* The version file gets the tag of a second request, whatever was downloaded.
\* Mutant: the version is recorded before the body is there.
RecordEarly ==
    /\ flow.at \in {"unlink", "tell"}
    /\ told' = release /\ To(IF flow.at = "tell" THEN "launch" ELSE "away")
    /\ UNCHANGED <<disk, release, main, running, own, body, bodyOwn, mishaps>>

Record ==
    /\ flow.at = "tell" /\ To("launch")
    /\ \/ told' = release /\ UNCHANGED mishaps
       \/ Mishap("net") /\ UNCHANGED told
    /\ UNCHANGED <<disk, release, main, running, own, body, bodyOwn>>

\* launch_aurora ends what listens on the port and starts the body, which leaves
\* its files alone (AURORA_ICT_FROM_LAUNCHER); the button is free again afterwards.
Launch ==
    /\ flow.at = "launch" /\ flow' = Idle
    /\ IF disk["body"].whole /\ body.at = "open"
         THEN body' = [at |-> "off", v |-> 0] /\ bodyOwn' = Unasked
         ELSE UNCHANGED <<body, bodyOwn>>
    /\ UNCHANGED <<disk, told, release, main, running, own, mishaps>>

-----------------------------------------------------------------------------
(* A body opened without the launcher: apply_pending_update and the background
   check of aurora_ict/updater.py. *)

OpenBody ==
    /\ body.at = "off" /\ disk["body"].whole /\ Mishap("direct") /\ Alone(flow = Idle)
    /\ body' = [at |-> IF Has("bodyNew") THEN "unlink" ELSE "open", v |-> disk["body"].v]
    /\ UNCHANGED <<disk, told, release, main, running, flow, own, bodyOwn>>

\* A file another process writes, or has taken away, cannot be renamed.
BodySwap(place, from, to, next) ==
    /\ body.at = place
    /\ LET free == place = "unlink" \/ (Has(from) /\ (from = "bodyNew" => flow.at # "load"))
       IN  \/ /\ free /\ body' = [body EXCEPT !.at = next] /\ UNCHANGED mishaps
              /\ IF place = "unlink" THEN Put(from, None) ELSE Move(from, to)
           \/ /\ IF free THEN Mishap("busy") ELSE UNCHANGED mishaps
              /\ body' = [body EXCEPT !.at = "open"] /\ UNCHANGED disk
    /\ UNCHANGED <<told, release, main, running, flow, own, bodyOwn>>

BodySpawn ==
    /\ body.at = "spawn"
    /\ body' = [at |-> "open", v |-> IF disk["body"].whole THEN disk["body"].v ELSE body.v]
    /\ UNCHANGED <<disk, told, release, main, running, flow, own, bodyOwn, mishaps>>

\* _check_and_download_sync, once per start.  One program at a time downloads a
\* body (bound).
BodyCheck ==
    /\ body.at = "open" /\ bodyOwn = Unasked /\ flow.at # "load"
    /\ \/ /\ release > body.v /\ ~Has("bodyNew")
          /\ bodyOwn' = release /\ Put("bodyNew", File(release, FALSE)) /\ UNCHANGED mishaps
       \/ /\ \/ (release <= body.v \/ Has("bodyNew")) /\ UNCHANGED mishaps
             \/ Mishap("net")
          /\ bodyOwn' = 0 /\ UNCHANGED disk
    /\ UNCHANGED <<told, release, main, running, flow, own, body>>

BodyDownloadEnds ==
    /\ bodyOwn > 0 /\ bodyOwn' = 0
    /\ \/ Put("bodyNew", File(bodyOwn, TRUE)) /\ UNCHANGED mishaps
       \/ Mishap("net") /\ Put("bodyNew", None)
    /\ UNCHANGED <<told, release, main, running, flow, own, body>>

\* The user closes it, a download half done.
CloseBody ==
    /\ body.at = "open"
    /\ body' = [at |-> "off", v |-> 0] /\ bodyOwn' = Unasked
    /\ UNCHANGED <<disk, told, release, main, running, flow, own, mishaps>>

Publish ==
    /\ release < LastRelease /\ release' = release + 1
    /\ IF flow.at = "idle" THEN UNCHANGED mishaps ELSE Mishap("hasty")
    /\ UNCHANGED <<disk, told, main, running, flow, own, body, bodyOwn>>

-----------------------------------------------------------------------------
LauncherSteps ==
    \/ UnlinkOldExe \/ MoveExeAway \/ MoveExeIn \/ SpawnExe
    \/ OwnCheck \/ OwnDownloadEnds
FlowSteps ==
    DownloadEnds \/ (\E p \in {"unlink", "away", "in"} : Swap(p)) \/ CleanOld \/ Record \/ Launch
BodySteps ==
    \/ BodySwap("unlink", "bodyOld", "", "away") \/ BodySwap("away", "body", "bodyOld", "in")
    \/ BodySwap("in", "bodyNew", "body", "spawn") \/ BodySpawn
    \/ BodyCheck \/ BodyDownloadEnds

FilesNext ==
    \/ StartLauncher \/ KillLauncher \/ LauncherSteps \/ PressStart \/ FlowSteps
    \/ OpenBody \/ BodySteps \/ CloseBody \/ Publish

\* A single mishap, whatever it is and wherever it strikes in download_and_swap
\* (launcher.py 1385-1426) or in the body's own updater, leaves a complete body on
\* the disk, in place or aside.  (A second one can cost it: the next swap unlinks the
\* body put aside and truncates the one that was not moved in.)
BodyKept ==
    mishaps <= 1 => \E r \in {"body", "bodyNew", "bodyOld"} : disk[r].whole

\* A release the version file does not know of arrives in place: the check offers it
\* (1366-1377) until a swap of that version or a newer one is complete.
UpdateArrives ==
    \A v \in Versions : (release = v /\ told < v) ~> (disk["body"].whole /\ disk["body"].v >= v)
=============================================================================
