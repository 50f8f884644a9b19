------------------------------- MODULE KeyGuard -------------------------------
(***************************************************************************)
(* What a bot does when the exchange refuses the key of its user:          *)
(* the adapter's counters (bot/aurora_adapter.py 100-143), the judgement   *)
(* at the end of every step (_run_loop) and the notice that goes out once  *)
(* for all bots of the user (bot/auth_stop_notify.py).  A call without an  *)
(* answer changes none of this and is left out.                            *)
(***************************************************************************)
EXTENDS Integers

CONSTANTS
    Threshold,    \* _AUTH_FAIL_STOP_THRESHOLD, _WRITE_FAIL_STOP_THRESHOLD
    Refusals,     \* what the answer to a refused key says of it: "expired", "invalid"
    BarsRefused   \* whether the exchange refuses such a key the bars as well

ASSUME KeyGuardAssumption ==
    Threshold \in Nat \ {0} /\ BarsRefused \in BOOLEAN /\ "none" \notin Refusals

VARIABLES
    key,        \* what the exchange makes of the key
    watch,      \* the bot: [runs, loop (_auth_fail_streak), auth (the adapter's
                \* auth_fail_streak), write (write_fail_streak)]
    beat,       \* whether the last step was an even one (_last_heartbeat_ms)
    recent      \* _LAST_SENT: the kinds sent within COOLDOWN_SEC

guards == <<key, watch, beat, recent>>

Notices == Refusals \cup {"permission"}
Counts == 0..Threshold
NewBot == [runs |-> FALSE, loop |-> 0, auth |-> 0, write |-> 0]

KeyGuardTypeOK ==
    /\ key \in {"good", "readOnly"} \cup Refusals
    /\ watch \in [runs : BOOLEAN, loop : Counts, auth : Counts, write : Counts]
    /\ beat \in BOOLEAN /\ recent \subseteq Notices

KeyGuardInit ==
    /\ key = "good" /\ watch = NewBot
    /\ beat = FALSE /\ recent = {}

Refused == key \in Refusals

\* The key expires, is deleted, loses the right to trade, or is repaired.
KeyBecomes(k) ==
    /\ k # key /\ key' = k
    /\ UNCHANGED <<watch, beat, recent>>

CooldownEnds(k) ==
    /\ k \in recent /\ recent' = recent \ {k}
    /\ UNCHANGED <<key, watch, beat>>

-----------------------------------------------------------------------------
(* A step of a bot, in which every counter may be raised by several calls. *)

\* How a step ends: it returns, also when the adapter has kept a refusal to itself; it
\* is refused; or something else goes wrong in it.
Ends == {"returns", "fails"} \cup (IF Refused THEN {"refused"} ELSE {})

Above(n) == {c \in Counts : c > n \/ c = Threshold}

\* _auth_fail_streak, auth_fail_streak and write_fail_streak after the step.  Any
\* answered reading clears the second, a write that is done the third.
LoopStreaks(end) ==
    CASE end = "returns" -> {0}
      [] end = "refused" -> {IF watch.loop < Threshold THEN watch.loop + 1 ELSE Threshold}
      [] end = "fails" -> {watch.loop}
AuthStreaks(end) ==
    IF ~Refused THEN {0}
    ELSE Above(watch.auth)
         \cup (IF end = "refused" THEN {watch.auth} ELSE {})
         \cup (IF BarsRefused THEN {} ELSE {0, 1})
WriteStreaks ==
    {watch.write} \cup
    CASE key = "good" -> {0} [] key = "readOnly" -> Above(watch.write) [] OTHER -> {}

\* The reason to stop, if there is one.
\* Mutant: the adapter's counters are looked at only when nothing went wrong.
VerdictInTry(end, loop, auth, write) ==
    IF (end = "refused" /\ loop = Threshold) \/ (end = "returns" /\ auth = Threshold) THEN key
    ELSE IF end = "returns" /\ write = Threshold THEN "permission" ELSE "none"

Verdict(end, loop, auth, write) ==
    IF (end = "refused" /\ loop = Threshold) \/ auth = Threshold THEN key
    ELSE IF write = Threshold THEN "permission" ELSE "none"

\* notify_auth_stop: the user is told unless that was done already, and the kind is
\* noted before it is.
Tells(kind) == recent' = recent \cup {kind}

\* The bot of another pair stops for the same reason.
AnotherTells(kind) == Tells(kind) /\ UNCHANGED <<key, watch, beat>>

Steps ==
    /\ watch.runs
    /\ \E end \in Ends : \E l \in LoopStreaks(end), a \in AuthStreaks(end), w \in WriteStreaks :
          LET kind == Verdict(end, l, a, w)
          IN /\ watch' = [runs |-> kind = "none", loop |-> l, auth |-> a, write |-> w]
             /\ IF kind = "none" THEN UNCHANGED recent ELSE Tells(kind)
    /\ beat' = ~beat /\ UNCHANGED key

\* START, or the background task: a bot that stopped itself goes on with its adapter,
\* whose first reading clears the one counter if it is answered.
Starts ==
    /\ ~watch.runs
    /\ \E a \in (IF Refused THEN Above(watch.auth) ELSE {0}) :
          watch' = [watch EXCEPT !.runs = TRUE, !.auth = a]
    /\ UNCHANGED <<key, beat, recent>>

\* STOP: the bot and its adapter are given up.
IsStopped ==
    /\ watch' = NewBot
    /\ UNCHANGED <<key, beat, recent>>

KeyGuardNext ==
    \/ \E k \in {"good", "readOnly"} \cup Refusals : KeyBecomes(k)
    \/ \E k \in Notices : AnotherTells(k) \/ CooldownEnds(k)
    \/ Starts \/ Steps \/ IsStopped

-----------------------------------------------------------------------------
(* Properties *)

\* A bot whose key is refused for good stops itself, however its steps end ("the
\* judgement used to be inside the try: with another exception the counter went to 13
\* and nothing stopped", bot_ict_instance.py 1167-1169), and its user has been told,
\* unless it is given up by STOP.  (A write_fail_streak left over from before the stop
\* makes it say "permission" of a key that has expired since.)
KeyStops ==
    (Refused /\ watch.runs) ~> (~Refused \/ watch = NewBot \/ (~watch.runs /\ {key, "permission"} \cap recent # {}))

\* What makes it stop: every step with a refused key ends the bot, or raises the adapter's
\* streak, or leaves that and raises the loop's; whatever else goes wrong in the step.
RefusalsCount ==
    [][(Refused /\ BarsRefused /\ watch.runs /\ beat' # beat) =>
         \/ ~watch'.runs
         \/ watch'.auth > watch.auth
         \/ watch'.auth = watch.auth /\ watch'.loop > watch.loop]_guards

\* A bot that ends by itself has told its user, and of a key that was not refused it says
\* only that it must not trade.
EndsTold ==
    [][(watch.runs /\ ~watch'.runs /\ beat' # beat) =>
         \E kind \in recent' : kind = "permission" \/ (Refused /\ kind = key)]_guards
=============================================================================
