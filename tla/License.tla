------------------------------- MODULE License -------------------------------
(***************************************************************************)
(* The launcher's licence: license.json, the gate that asks the server when *)
(* the launcher starts, the code form, "enter another code", and the thread *)
(* that verifies once a day (aurora_ict_launcher: license_client.py,        *)
(* launcher.py, ui/js/app.js).  The server is known by how it is used.      *)
(***************************************************************************)
EXTENDS Integers

CONSTANTS
    Codes, Subs,    \* the codes, and those of a subscription (the rest: referral)
    SubDays,        \* days of a subscription
    Grace,          \* GRACE_DAYS_REFERRAL
    MaxDay          \* bound on the calendar

ASSUME LicenseAssumption ==
    /\ Subs \subseteq Codes /\ {SubDays, Grace, MaxDay} \subseteq Nat
    /\ "none" \notin Codes

VARIABLES
    day,
    server,     \* each code: "new", "live" or "void", its last day, the day it was voided
    file,       \* license.json: code, last day, last_verified_at; or NoFile
    screen,     \* "off", "gate", "asking" (the gate's verification), "redeeming", "main"
    held,       \* the payload the gate's verification or the redemption works on
    loop        \* the payload the daily thread works on

licence == <<day, server, file, screen, held, loop>>

Never == MaxDay + SubDays + 1
NoFile == [code |-> "none", exp |-> 0, seen |-> 0]
Payloads == {NoFile} \cup [code : Codes, exp : 0..Never, seen : 0..MaxDay]

LicenceTypeOK ==
    /\ day \in 0..MaxDay
    /\ server \in [Codes -> [is : {"new", "live", "void"}, exp : 0..Never, voided : 0..Never]]
    /\ screen \in {"off", "gate", "asking", "redeeming", "main"}
    /\ {file, held, loop} \subseteq Payloads

LicenceInit ==
    /\ day = 0 /\ server = [c \in Codes |-> [is |-> "new", exp |-> 0, voided |-> Never]]
    /\ file = NoFile /\ screen = "off" /\ held = NoFile /\ loop = NoFile

\* The server's word on a code; no answer at all is "network".
Answers(c) ==
    {"network", IF server[c].is = "live" /\ day < server[c].exp THEN "ok" ELSE "refused"}

\* is_within_grace: a subscription until its last day, a referral for some days
\* after the last verification that succeeded.
WithinGrace(p) == IF p.code \in Subs THEN day < p.exp ELSE day < p.seen + Grace

-----------------------------------------------------------------------------
\* checkLicenseGate, up to the request of get_license_status.
StartsUp ==
    /\ screen = "off"
    /\ screen' = (IF file = NoFile THEN "gate" ELSE "asking") /\ held' = file
    /\ UNCHANGED <<day, server, file, loop>>

\* save_license, which may fail.
Save(p) == file' \in {p, file}

\* Mutant: every answer stamps the file.
StampsAlways(p, answer) == Save([p EXCEPT !.seen = day])

\* get_license_status: a success is stamped and saved.
Stamps(p, answer) ==
    IF answer = "ok" THEN Save([p EXCEPT !.seen = day, !.exp = server[p.code].exp])
                     ELSE UNCHANGED file

\* The rest of the gate: in, in with a warning, or stopped.
GateDecides ==
    /\ screen = "asking"
    /\ \E a \in Answers(held.code) :
          /\ Stamps(held, a)
          /\ screen' = IF a = "ok" \/ (a = "network" /\ WithinGrace(held)) THEN "main" ELSE "gate"
    /\ held' = NoFile /\ UNCHANGED <<day, server, loop>>

\* redeem_code at the server: a code of this computer may be entered again.
Redeem(c) ==
    /\ screen = "gate" /\ server[c].is # "void"
    /\ LET exp == IF server[c].is = "live" THEN server[c].exp
                  ELSE IF c \in Subs THEN day + SubDays ELSE Never
       IN  /\ server' = [server EXCEPT ![c].is = "live", ![c].exp = exp]
           /\ held' = [code |-> c, exp |-> exp, seen |-> day]
    /\ screen' = "redeeming"
    /\ UNCHANGED <<day, file, loop>>

\* Its answer: the licence is saved and the main screen opens; or it is lost.
RedeemEnds ==
    /\ screen = "redeeming"
    /\ \/ Save(held) /\ screen' = "main"
       \/ UNCHANGED file /\ screen' = "gate"
    /\ held' = NoFile /\ UNCHANGED <<day, server, loop>>

\* reset_license: the file is deleted, which may fail; the code lives on.
Reset ==
    /\ screen = "main"
    /\ Save(NoFile) /\ screen' = "gate"
    /\ UNCHANGED <<day, server, held, loop>>

\* _license_verify_loop: nothing but the file learns of the answer.
LoopAsks ==
    /\ screen # "off" /\ loop = NoFile /\ file # NoFile /\ loop' = file
    /\ UNCHANGED <<day, server, file, screen, held>>

LoopEnds ==
    /\ loop # NoFile /\ loop' = NoFile
    /\ \E a \in Answers(loop.code) : Stamps(loop, a)
    /\ UNCHANGED <<day, server, screen, held>>

Closes ==
    /\ screen # "off" /\ screen' = "off" /\ held' = NoFile /\ loop' = NoFile
    /\ UNCHANGED <<day, server, file>>

\* The administrator voids a code.
Voids(c) ==
    /\ server[c].is = "live"
    /\ server' = [server EXCEPT ![c].is = "void", ![c].voided = day]
    /\ UNCHANGED <<day, file, screen, held, loop>>

\* A request takes seconds, not days.
DayPasses ==
    /\ day < MaxDay /\ held = NoFile /\ loop = NoFile /\ day' = day + 1
    /\ UNCHANGED <<server, file, screen, held, loop>>

LicenceNext ==
    \/ StartsUp \/ GateDecides \/ RedeemEnds \/ Reset \/ LoopAsks \/ LoopEnds \/ Closes \/ DayPasses
    \/ \E c \in Codes : Redeem(c) \/ Voids(c)

\* The gate (launcher.py 1138-1210) opens for a subscription only before its last
\* day, and for a referral code the server has voided only for the days of grace,
\* however often the launcher was started without a network in between.
OpensRightly ==
    [][(screen = "asking" /\ screen' = "main") =>
         LET c == held.code
         IN  IF c \in Subs THEN day < server[c].exp ELSE day < server[c].voided + Grace]_licence
=============================================================================
