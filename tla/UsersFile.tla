------------------------------ MODULE UsersFile ------------------------------
(***************************************************************************)
(* The file users.db and its daily copies (init_db and backup_db of        *)
(* auth/users_db.py, called by main of saas.py): a broken file is put      *)
(* aside and a new one made, and the copies of the last days are kept.     *)
(* What the file says of a user is in Accounts.                            *)
(***************************************************************************)
EXTENDS Integers, FiniteSets

CONSTANTS
    KeepCopies,   \* keep of backup_db
    LastDay       \* bound on the days

ASSUME UsersFileAssumption == KeepCopies \in Nat \ {0} /\ LastDay \in Nat \ {0}

VARIABLES
    today,        \* the UTC day
    db,           \* users.db: "users", "broken" or "new" (without the users it had)
    serving,      \* "down", "opened" (init_db is done) or "up"
    copies,       \* users.db.bak-<day>: [day, of]
    lost          \* history: [day, copied]: the day the users were put aside (0: they
                  \* were not) and whether a copy of them existed then

store == <<today, db, serving, copies, lost>>

UsersFileTypeOK ==
    /\ today \in 1..LastDay /\ db \in {"users", "broken", "new"}
    /\ serving \in {"down", "opened", "up"}
    /\ copies \subseteq [day : 1..LastDay, of : {"users", "new"}]
    /\ lost \in [day : 0..LastDay, copied : BOOLEAN]

UsersFileInit ==
    /\ today = 1 /\ db = "users" /\ serving = "down"
    /\ copies = {} /\ lost = [day |-> 0, copied |-> FALSE]

OfUsers == {c \in copies : c.of = "users"}

\* init_db: a file that is no database is quarantined, and a new one made.
OpensFile ==
    /\ serving = "down" /\ serving' = "opened"
    /\ IF db = "broken" THEN db' = "new" /\ lost' = [day |-> today, copied |-> OfUsers # {}]
       ELSE UNCHANGED <<db, lost>>
    /\ UNCHANGED <<today, copies>>

\* The newest of the copies, as many as are kept.
Newest(S) == {c \in S : Cardinality({d \in S : d.day > c.day}) < KeepCopies}

\* backup_db: one copy a day, the first start's.
CopiesFile ==
    /\ serving = "opened" /\ serving' = "up"
    /\ copies' = Newest(IF \E c \in copies : c.day = today THEN copies
                        ELSE copies \cup {[day |-> today, of |-> db]})
    /\ UNCHANGED <<today, db, lost>>

ServerEnds ==
    /\ serving # "down" /\ serving' = "down"
    /\ UNCHANGED <<today, db, copies, lost>>

\* The machine is killed while it writes: the header of the file is gone.
FileBreaks ==
    /\ serving = "up" /\ db = "users"
    /\ serving' = "down" /\ db' = "broken"
    /\ UNCHANGED <<today, copies, lost>>

DateChanges ==
    /\ today < LastDay /\ today' = today + 1
    /\ UNCHANGED <<db, serving, copies, lost>>

UsersFileNext == OpensFile \/ CopiesFile \/ ServerEnds \/ FileBreaks \/ DateChanges

\* The users of a file that broke can be restored from a copy on the day it is put aside
\* and KeepCopies - 2 days more; then the copies of the new file have pushed out the old.
Recoverable ==
    (lost.copied /\ today < lost.day + KeepCopies - 1) => OfUsers # {}
=============================================================================
