------------------------------- MODULE Accounts -------------------------------
(***************************************************************************)
(* users.db of the SaaS (auth/users_db.py) with the requests of             *)
(* auth/router.py that write it and the sessions of auth/pin.py kept in it: *)
(* one user, whose row may have been written by the first schema, through   *)
(* restarts and the migrations every start makes.                           *)
(***************************************************************************)
EXTENDS UsersFile

CONSTANTS
    Keys,           \* API keys (their secrets with them)
    NoKey,          \* an empty column
    Pairs, Btc,     \* trading pairs, and the one of the first schema
    Tokens,         \* session tokens
    TTL,            \* _SESSION_TTL_SEC
    MaxClock        \* bound on time

ASSUME AccountsAssumption ==
    /\ NoKey \notin Keys /\ Btc \in Pairs /\ TTL \in Nat \ {0} /\ MaxClock \in Nat
    /\ "null" \notin Pairs

VARIABLES
    clock, up,      \* time; the server runs
    row,            \* the user's row
    sessions,       \* the sessions table: each token's expires_at, 0 when it has none
    saved,          \* history: the key the user last saved, each mode
    on              \* history: the pairs the user has switched on

accounts == <<clock, up, row, sessions, saved, on>>

Modes == {"demo", "live"}
Null == {"null"}        \* a column never written
MaybeKeys == Keys \cup {NoKey}

AccountsTypeOK ==
    /\ clock \in 0..MaxClock /\ up \in BOOLEAN
    /\ row \in [pin : BOOLEAN, legacy : MaybeKeys, demo : MaybeKeys, live : MaybeKeys,
                flag : BOOLEAN, running : {Null} \cup SUBSET Pairs]
    /\ sessions \in [Tokens -> 0..(MaxClock + TTL)]
    /\ saved \in [Modes -> MaybeKeys] /\ on \subseteq Pairs

\* A row of the first schema, with one key and one flag, or a new one; the server
\* has not yet started with this program.
AccountsInit ==
    /\ clock = 0 /\ up = FALSE
    /\ \E k \in MaybeKeys, f \in BOOLEAN :
          /\ row = [pin |-> FALSE, legacy |-> k, demo |-> NoKey, live |-> NoKey,
                    flag |-> f, running |-> Null]
          /\ saved = [m \in Modes |-> IF m = "demo" THEN k ELSE NoKey]
          /\ on = IF f THEN {Btc} ELSE {}
    /\ sessions = [t \in Tokens |-> 0]

-----------------------------------------------------------------------------
(* A start: the migrations, each of which leaves alone what is there. *)

\* _ensure_dual_key_columns
KeysMigrated(r) ==
    IF r.legacy # NoKey /\ r.demo = NoKey THEN [r EXCEPT !.demo = r.legacy] ELSE r

\* _ensure_bot_running_symbols_column
PairsMigrated(r) == IF r.flag /\ r.running = Null THEN [r EXCEPT !.running = {Btc}] ELSE r

\* cleanup_expired_sessions
Cleaned == [t \in Tokens |-> IF sessions[t] <= clock THEN 0 ELSE sessions[t]]

\* main of saas.py: init_db, then sessions in the table, cleaned.
Boots ==
    /\ ~up /\ up' = TRUE
    /\ row' = PairsMigrated(KeysMigrated(row)) /\ sessions' = Cleaned
    /\ UNCHANGED <<clock, saved, on>>

GoesDown ==
    /\ up /\ up' = FALSE
    /\ UNCHANGED <<clock, row, sessions, saved, on>>

Ticks ==
    /\ clock < MaxClock /\ clock' = clock + 1
    /\ UNCHANGED <<up, row, sessions, saved, on>>

-----------------------------------------------------------------------------
(* Sessions. *)

\* get_user_from_session
Valid(t) == sessions[t] > clock

\* create_session, with a token nobody has used.
Issues(t) ==
    /\ sessions[t] = 0
    /\ sessions' = [sessions EXCEPT ![t] = clock + TTL]

SetsPin(t) ==
    /\ up /\ ~row.pin /\ row' = [row EXCEPT !.pin = TRUE] /\ Issues(t)
    /\ UNCHANGED <<clock, up, saved, on>>

LogsIn(t) ==
    /\ up /\ row.pin /\ Issues(t)
    /\ UNCHANGED <<clock, up, row, saved, on>>

LogsOut(t) ==
    /\ up /\ sessions' = [sessions EXCEPT ![t] = 0]
    /\ UNCHANGED <<clock, up, row, saved, on>>

\* The administrator clears the PIN; sessions live on.
ClearsPin ==
    /\ up /\ row.pin /\ row' = [row EXCEPT !.pin = FALSE]
    /\ UNCHANGED <<clock, up, sessions, saved, on>>

-----------------------------------------------------------------------------
(* Keys and running pairs. *)

\* set_api_keys: the demo key is written to the first schema's column as well.
SavesKey(t, m, k) ==
    /\ up /\ Valid(t)
    /\ row' = IF m = "demo" THEN [row EXCEPT !.demo = k, !.legacy = k] ELSE [row EXCEPT !.live = k]
    /\ saved' = [saved EXCEPT ![m] = k]
    /\ UNCHANGED <<clock, up, sessions, on>>

\* delete_api_keys
\* Mutant: the first schema's column is forgotten.
DeletesOne(t, m) ==
    /\ up /\ Valid(t)
    /\ row' = IF m = "demo" THEN [row EXCEPT !.demo = NoKey] ELSE [row EXCEPT !.live = NoKey]
    /\ saved' = [saved EXCEPT ![m] = NoKey]
    /\ UNCHANGED <<clock, up, sessions, on>>

DeletesKey(t, m) ==
    /\ up /\ Valid(t)
    /\ row' = IF m = "demo" THEN [row EXCEPT !.demo = NoKey, !.legacy = NoKey]
                            ELSE [row EXCEPT !.live = NoKey]
    /\ saved' = [saved EXCEPT ![m] = NoKey]
    /\ UNCHANGED <<clock, up, sessions, on>>

\* get_api_keys: an empty demo column falls back to the first schema's.
KeyOf(m) ==
    IF m = "live" THEN row.live ELSE IF row.demo # NoKey THEN row.demo ELSE row.legacy

\* get_bot_running_symbols
RunningPairs == row.running \ Null

\* set_bot_running: the list, and the first schema's flag.
SetsRunning(s, running) ==
    LET list == IF running THEN RunningPairs \cup {s} ELSE RunningPairs \ {s}
    IN  /\ up
        /\ row' = [row EXCEPT !.running = list, !.flag = list # {}]
        /\ on' = IF running THEN on \cup {s} ELSE on \ {s}
        /\ UNCHANGED <<clock, up, sessions, saved>>

AccountsNext ==
    \/ Boots \/ GoesDown \/ Ticks \/ ClearsPin
    \/ \E t \in Tokens : \/ SetsPin(t) \/ LogsIn(t) \/ LogsOut(t)
                         \/ \E m \in Modes : DeletesKey(t, m) \/ \E k \in Keys : SavesKey(t, m, k)
    \/ \E s \in Pairs, r \in BOOLEAN : SetsRunning(s, r)

\* What a bot is given, and what is restarted after a restart of the server, is what
\* the user last saved, deleted or switched (get_api_keys 598-643, list_running_bots
\* 982-1004), whichever schema wrote the row first: no migration brings back a key
\* that was deleted or a bot that was stopped.  And a file that broke leaves its users
\* in a copy for a while (Recoverable).
Remembered ==
    /\ up => (\A m \in Modes : KeyOf(m) = saved[m]) /\ RunningPairs = on
    /\ Recoverable
=============================================================================
