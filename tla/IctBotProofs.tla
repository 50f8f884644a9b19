---------------------------- MODULE IctBotProofs ----------------------------
(***************************************************************************)
(* Theorems about IctBot, for every set of setups and every constant: the  *)
(* type invariant; that the bot never has two entries of its own alive at  *)
(* once (OneExposure) as long as reads do not silently fail, orders do not *)
(* lose their answer, cancelling works, the user trades elsewhere and      *)
(* nobody presses CANCEL; and, under the same conditions, that what it     *)
(* holds was filled and recorded (NoPhantom) and that it books a close     *)
(* only after one happened (CloseBacked).                                  *)
(* TLC refutes OneExposure without each of the conditions.                 *)
(***************************************************************************)
EXTENDS IctBot, TLAPS

-----------------------------------------------------------------------------
(* Type correctness *)

\* "No position" has the type of a position.
LEMMA FlatType == Flat \in Positions
BY DEF Flat, Positions

\* Counting an API failure stays within the bound on failures.
LEMMA FaultType ==
    ASSUME VenueTypeOK, NEW k, Fault(k)
    PROVE  faults' \in 0..MaxFaults
BY VenueAssumption DEF VenueTypeOK, Fault

\* Whatever the exchange is asked, its own state keeps its type.
LEMMA FetchType ==
    ASSUME VenueTypeOK, NEW a, NEW view, FetchPosition(a, view)
    PROVE  VenueTypeOK' /\ view \in Positions
<1>1. faults' \in 0..MaxFaults
  BY FaultType DEF FetchPosition, VenueTypeOK
<1> QED BY <1>1, FlatType DEF FetchPosition, VenueTypeOK

\* An entry order of the bot keeps the types of the exchange.
LEMMA PlaceType ==
    ASSUME VenueTypeOK, NEW s \in Setups, NEW a, PlaceEntry(s, a)
    PROVE  VenueTypeOK'
<1>1. faults' \in 0..MaxFaults
  BY FaultType DEF PlaceEntry, VenueTypeOK
<1> QED BY <1>1 DEF PlaceEntry, VenueTypeOK

\* Closing the position leaves a well-typed position and closed-pnl list.
LEMMA CloseAllType ==
    ASSUME VenueTypeOK, CloseAll
    PROVE  pos' \in Positions /\ closed' \subseteq Setups
BY FlatType DEF CloseAll, VenueTypeOK

\* A reduce-only close keeps the types of the exchange.
LEMMA ReduceType ==
    ASSUME VenueTypeOK, NEW d, NEW a, ReduceOnly(d, a)
    PROVE  VenueTypeOK'
<1>1. faults' \in 0..MaxFaults
  BY FaultType DEF ReduceOnly, VenueTypeOK
<1>2. pos' \in Positions /\ closed' \subseteq Setups
  BY CloseAllType DEF ReduceOnly, VenueTypeOK
<1> QED BY <1>1, <1>2 DEF ReduceOnly, VenueTypeOK

\* Registering a stop loss keeps the types of the exchange.
LEMMA SetStopType ==
    ASSUME VenueTypeOK, NEW d, NEW a, SetStop(d, a)
    PROVE  VenueTypeOK'
<1>1. faults' \in 0..MaxFaults
  BY FaultType DEF SetStop, VenueTypeOK
<1>2. pos' \in Positions
  BY DEF SetStop, VenueTypeOK, Positions
<1> QED BY <1>1, <1>2 DEF SetStop, VenueTypeOK

\* Cancelling the resting entry orders keeps the types of the exchange.
LEMMA CancelType ==
    ASSUME VenueTypeOK, CancelBotOrders
    PROVE  VenueTypeOK'
<1>1. faults' \in 0..MaxFaults
  BY FaultType DEF CancelBotOrders, VenueTypeOK
<1> QED BY <1>1 DEF CancelBotOrders, VenueTypeOK

\* A lot that joins or nets against the position leaves it well-typed.
LEMMA JoinType ==
    ASSUME VenueTypeOK, NEW lot \in Lots, NEW d \in Directions, Join(lot, d)
    PROVE  pos' \in Positions /\ closed' \subseteq Setups
<1>1. CASE pos' = [dir |-> d, lots |-> {lot}, sl |-> FALSE] /\ UNCHANGED closed
  BY <1>1 DEF VenueTypeOK, Positions
<1>2. CASE pos' = [pos EXCEPT !.lots = @ \cup {lot}] /\ UNCHANGED closed
  BY <1>2 DEF VenueTypeOK, Positions
<1>3. ASSUME NEW out \in pos.lots,
             pos' = IF pos.lots = {out} THEN Flat
                    ELSE [pos EXCEPT !.lots = @ \ {out}],
             closed' = closed \cup ({lot, out} \cap Setups)
      PROVE  pos' \in Positions /\ closed' \subseteq Setups
  <2>1. [pos EXCEPT !.lots = @ \ {out}] \in Positions
    BY DEF VenueTypeOK, Positions
  <2> QED BY <1>3, <2>1, FlatType DEF VenueTypeOK
<1> QED BY <1>1, <1>2, <1>3 DEF Join

\* Fills, closes, trades by hand and lost stops keep the types of the exchange.
LEMMA MarketType ==
    ASSUME VenueTypeOK, Market
    PROVE  VenueTypeOK'
<1>1. CASE \E s \in Setups : Fill(s)
  <2>1. PICK s \in Setups : Fill(s)
    BY <1>1
  <2>2. pos' \in Positions /\ closed' \subseteq Setups
    BY <2>1, JoinType, VenueAssumption DEF Fill, Lots
  <2> QED BY <2>1, <2>2 DEF Fill, VenueTypeOK
<1>2. CASE ExchangeClose
  BY <1>2, CloseAllType DEF ExchangeClose, VenueTypeOK
<1>3. CASE \E d \in Directions : UserOpen(d)
  <2>1. PICK d \in Directions : UserOpen(d)
    BY <1>3
  <2>2. pos' \in Positions /\ closed' \subseteq Setups
    BY <2>1, JoinType DEF UserOpen, Lots
  <2> QED BY <2>1, <2>2, VenueAssumption DEF UserOpen, VenueTypeOK
<1>4. CASE StripStop
  <2>1. faults' \in 0..MaxFaults
    BY <1>4, FaultType DEF StripStop
  <2>2. pos' \in Positions
    BY <1>4 DEF StripStop, VenueTypeOK, Positions
  <2> QED BY <1>4, <2>1, <2>2 DEF StripStop, VenueTypeOK
<1> QED BY <1>1, <1>2, <1>3, <1>4 DEF Market

\* An answer of the exchange to any task keeps the types.
LEMMA ServeType ==
    ASSUME TypeOK, NEW t \in Tasks, Serve(t)
    PROVE  TypeOK'
<1> USE VenueAssumption, BotAssumption
<1>1. PICK a \in {"ok", "fail"} :
        /\ Reply(t, a)
        /\ \/ /\ pc[t] \in FetchAt
              /\ \E view \in {pos, Flat} :
                    /\ FetchPosition(a, view)
                    /\ seen' = [seen EXCEPT ![t] = view]
           \/ /\ UNCHANGED seen
              /\ \/ pc[t] \in CancelAt /\ a = "ok" /\ CancelBotOrders
                 \/ pc[t] = "entry" /\ PlaceEntry(cur, a)
                 \/ pc[t] \in ReduceAt /\ ReduceOnly(CloseDir(t), a)
                 \/ pc[t] \in SetStopAt /\ SetStop(held[t].dir, a)
  BY DEF Serve
<1>2. /\ UNCHANGED <<memory, declined, tried, ledger, pc, held, ret>>
      /\ resp' \in [Tasks -> {"wait", "ok", "fail"}]
  BY <1>1 DEF Reply, TypeOK
<1>3. VenueTypeOK' /\ seen' \in [Tasks -> Positions]
  <2> VenueTypeOK
    BY DEF TypeOK
  <2>1. CASE \E view \in {pos, Flat} :
                /\ FetchPosition(a, view)
                /\ seen' = [seen EXCEPT ![t] = view]
    BY <2>1, FetchType DEF TypeOK
  <2>2. CASE UNCHANGED seen /\ CancelBotOrders
    BY <2>2, CancelType DEF TypeOK
  <2>3. CASE UNCHANGED seen /\ pc[t] = "entry" /\ PlaceEntry(cur, a)
    <3>1. cur \in Setups
      BY <2>3 DEF TypeOK, Tasks, ApiLabels, EntryLabels
    <3> QED BY <2>3, <3>1, PlaceType DEF TypeOK
  <2>4. CASE UNCHANGED seen /\ ReduceOnly(CloseDir(t), a)
    BY <2>4, ReduceType DEF TypeOK
  <2>5. CASE UNCHANGED seen /\ SetStop(held[t].dir, a)
    BY <2>5, SetStopType DEF TypeOK
  <2> QED BY <1>1, <2>1, <2>2, <2>3, <2>4, <2>5
<1> QED BY <1>2, <1>3 DEF TypeOK, memory, ledger

\* The bot's "active_position is None" has the type of a holding.
LEMMA NoPositionType == NoPosition \in Holdings
BY DEF NoPosition, Holdings

\* _pos_sig of a position is a signature.
LEMMA SignatureType ==
    ASSUME NEW p \in Positions
    PROVE  Signature(p) \in Signatures
BY DEF Signature, Signatures, Positions

\* After a successful sync read _declined_manual_sig is a signature still.
LEMMA SyncType ==
    ASSUME TypeOK, SyncRead
    PROVE  declined' \in Signatures
<1>1. seen["loop"] \in Positions
  BY DEF TypeOK, Tasks
<1>2. Signature(Flat) \in Signatures
  BY FlatType, SignatureType
<1> QED BY <1>1, <1>2, SignatureType DEF SyncRead, TypeOK

\* Recording a closing event counts it and touches no entry.
LEMMA RecordType ==
    ASSUME TypeOK, NEW S, RecordCloseOf(S)
    PROVE  closes' \in [Setups -> Nat] /\ entered' = entered
BY DEF RecordCloseOf, TypeOK

\* start() and _recover_position_from_exchange keep every type.
LEMMA RecoveryType ==
    ASSUME TypeOK, Start \/ RecoverFailed \/ RecoverNothing \/ RecoverAdopts \/ StartSwept
        \/ StartFinished
    PROVE  TypeOK'
<1> USE VenueAssumption, BotAssumption DEF TypeOK, VenueTypeOK, Await, Answered, Return,
    venueVars, memory, ledger, control, Tasks, Labels, FetchAt, CancelAt, ReduceAt, SetStopAt,
    PlainAt, ApiLabels, EntryLabels, ReturnPoints
<1>1. CASE Start
  BY <1>1 DEF Start
<1>2. CASE RecoverFailed
  BY <1>2 DEF RecoverFailed
<1>3. CASE RecoverNothing
  <2>1. faults' \in 0..MaxFaults
    BY <1>3, FaultType DEF RecoverNothing
  <2>2. declined' \in Signatures
    <3>1. seen["loop"] \in Positions
      OBVIOUS
    <3> QED BY <1>3, <3>1, SignatureType DEF RecoverNothing
  <2> QED BY <1>3, <2>1, <2>2 DEF RecoverNothing
<1>4. CASE RecoverAdopts
  <2>1. PICK h \in Adopted(seen["loop"]) :
          /\ active' = h
          /\ IF seen["loop"].sl
             THEN Return("loop", TRUE) /\ UNCHANGED <<held, ret>>
             ELSE Protect(h, ret["loop"]) /\ UNCHANGED pending
    BY <1>4 DEF RecoverAdopts
  <2>2. h \in Holdings
    <3>1. seen["loop"] \in Positions
      OBVIOUS
    <3> QED BY <3>1 DEF Adopted, RecordMatch, Unclosed, Holdings, Positions
  <2>3. /\ Answered("loop", "recFetch", "ok")
        /\ recoveryFailed' = FALSE
        /\ UNCHANGED <<venueVars, cur, tried, ledger, seen>>
    BY <1>4 DEF RecoverAdopts
  <2>4. declined' \in Signatures
    BY <1>4, FlatType, SignatureType DEF RecoverAdopts
  <2>5. CASE Return("loop", TRUE) /\ UNCHANGED <<held, ret>>
    BY <2>1, <2>2, <2>3, <2>4, <2>5
  <2>6. CASE Protect(h, ret["loop"]) /\ UNCHANGED pending
    BY <2>1, <2>2, <2>3, <2>4, <2>6 DEF Protect
  <2> QED BY <2>1, <2>5, <2>6
<1>5. CASE StartSwept
  BY <1>5 DEF StartSwept
<1>6. CASE StartFinished
  BY <1>6 DEF StartFinished, Fault, RecordCloseOf
<1> QED BY <1>1, <1>2, <1>3, <1>4, <1>5, <1>6

\* The entry half of step() keeps every type.
LEMMA EntryType ==
    ASSUME TypeOK, StepBegin \/ PendingWaits \/ PendingExpires \/ PendingCancelled
        \/ PendingFilled \/ NoSignal \/ (\E s \in Setups : Signal(s)) \/ ExecuteSkips
        \/ ExecuteOrders \/ OrderRefused \/ OrderPlaced \/ OrderRests \/ OrderFilled
    PROVE  TypeOK'
<1> USE VenueAssumption, BotAssumption DEF TypeOK, VenueTypeOK, Await, Answered, Return,
    venueVars, memory, ledger, control, Tasks, Labels, FetchAt, CancelAt, ReduceAt, SetStopAt,
    PlainAt, ApiLabels, EntryLabels, ReturnPoints
<1>1. CASE StepBegin
  BY <1>1 DEF StepBegin
<1>2. CASE PendingWaits
  BY <1>2 DEF PendingWaits
<1>3. CASE PendingExpires
  BY <1>3 DEF PendingExpires
<1>4. CASE PendingCancelled
  BY <1>4 DEF PendingCancelled
<1>5. CASE PendingFilled
  BY <1>5 DEF PendingFilled, Enter, RecordEntry, Protect, Holdings
<1>6. CASE NoSignal
  BY <1>6 DEF NoSignal
<1>7. CASE \E s \in Setups : Signal(s)
  <2>1. PICK s \in Setups : Signal(s)
    BY <1>7
  <2>2. s # NoSetup
    BY DEF Lots
  <2> QED BY <2>1, <2>2 DEF Signal
<1>8. CASE ExecuteSkips
  BY <1>8 DEF ExecuteSkips
<1>9. CASE ExecuteOrders
  BY <1>9 DEF ExecuteOrders
<1>10. CASE OrderRefused
  BY <1>10 DEF OrderRefused
<1>11. CASE OrderPlaced
  BY <1>11 DEF OrderPlaced
<1>12. CASE OrderRests
  BY <1>12 DEF OrderRests
<1>13. CASE OrderFilled
  BY <1>13 DEF OrderFilled, Enter, RecordEntry, Protect, Holdings
<1> QED BY <1>1, <1>2, <1>3, <1>4, <1>5, <1>6, <1>7, <1>8, <1>9, <1>10, <1>11, <1>12, <1>13

\* The flip close and _sync_position_state keep every type.
LEMMA ExitType ==
    ASSUME TypeOK, ManagePosition \/ FlipBegins \/ FlipClosed \/ FlipRetries \/ FlipGivesUp
        \/ SyncUnknown \/ SyncAdopts \/ SyncEmergency \/ SyncRearms \/ RearmDone \/ SyncAgrees
        \/ SyncGone \/ SyncRecordsClose
    PROVE  TypeOK'
<1> USE VenueAssumption, BotAssumption DEF TypeOK, VenueTypeOK, Await, Answered, Return,
    venueVars, memory, ledger, control, Tasks, Labels, FetchAt, CancelAt, ReduceAt, SetStopAt,
    PlainAt, ApiLabels, EntryLabels, ReturnPoints
<1>1. CASE ManagePosition
  BY <1>1 DEF ManagePosition
<1>2. CASE FlipBegins
  BY <1>2 DEF FlipBegins
<1>3. CASE FlipClosed
  BY <1>3 DEF FlipClosed, RecordCloseOf, NoPosition, Holdings
<1>4. CASE FlipRetries
  BY <1>4 DEF FlipRetries
<1>5. CASE FlipGivesUp
  BY <1>5 DEF FlipGivesUp
<1>6. CASE SyncUnknown
  BY <1>6 DEF SyncUnknown
<1>7. CASE SyncAdopts
  <2>1. declined' \in Signatures
    BY <1>7, SyncType DEF SyncAdopts
  <2> QED BY <1>7, <2>1 DEF SyncAdopts, SyncRead
<1>8. CASE SyncEmergency
  <2>1. declined' \in Signatures
    BY <1>8, SyncType DEF SyncEmergency
  <2> QED BY <1>8, <2>1 DEF SyncEmergency, SyncRead
<1>9. CASE SyncRearms
  <2>1. declined' \in Signatures
    BY <1>9, SyncType DEF SyncRearms
  <2> QED BY <1>9, <2>1 DEF SyncRearms, SyncRead
<1>10. CASE RearmDone
  BY <1>10 DEF RearmDone
<1>11. CASE SyncAgrees
  <2>1. declined' \in Signatures
    BY <1>11, SyncType DEF SyncAgrees
  <2> QED BY <1>11, <2>1 DEF SyncAgrees, SyncRead
<1>12. CASE SyncGone
  <2>1. declined' \in Signatures
    BY <1>12, SyncType DEF SyncGone
  <2> QED BY <1>12, <2>1 DEF SyncGone, SyncRead
<1>13. CASE SyncRecordsClose
  BY <1>13 DEF SyncRecordsClose, RecordCloseOf, NoPosition, Holdings
<1> QED BY <1>1, <1>2, <1>3, <1>4, <1>5, <1>6, <1>7, <1>8, <1>9, <1>10, <1>11, <1>12, <1>13

\* _ensure_protective_sl and _emergency_close keep every type.
LEMMA SafeguardType ==
    ASSUME TypeOK, ProtectAccepted \/ ProtectRetry \/ ProtectGivesUp
        \/ (\E t \in Tasks : Emergency(t))
    PROVE  TypeOK'
<1> USE VenueAssumption, BotAssumption DEF TypeOK, VenueTypeOK, Await, Answered, Return,
    venueVars, memory, ledger, control, Tasks, Labels, FetchAt, CancelAt, ReduceAt, SetStopAt,
    PlainAt, ApiLabels, EntryLabels, ReturnPoints
<1>1. CASE ProtectAccepted
  <2>1. [active EXCEPT !.sl = TRUE] \in Holdings
    BY DEF Holdings
  <2>2. UNCHANGED <<venueVars, recoveryFailed, cur, declined, tried, ledger, seen, held, ret>>
    BY <1>1 DEF ProtectAccepted
  <2>3. CASE active' = [active EXCEPT !.sl = TRUE] /\ Return("loop", TRUE)
    BY <2>1, <2>2, <2>3
  <2>4. CASE UNCHANGED active /\ Return("loop", FALSE)
    BY <2>2, <2>4
  <2>5. CASE Await("loop", "sleep") /\ UNCHANGED <<active, pending>>
    BY <2>2, <2>5
  <2> QED BY <1>1, <2>3, <2>4, <2>5 DEF ProtectAccepted
<1>2. CASE ProtectRetry
  BY <1>2 DEF ProtectRetry
<1>3. CASE ProtectGivesUp
  BY <1>3 DEF ProtectGivesUp
<1>4. CASE \E t \in Tasks : Emergency(t)
  <2>1. PICK t \in Tasks : Emergency(t)
    BY <1>4
  <2>2. CASE EmergencyFetched(t)
    BY <2>2 DEF EmergencyFetched
  <2>3. CASE EmergencyClosed(t)
    BY <2>3, NoPositionType, RecordType DEF EmergencyClosed
  <2>4. CASE EmergencyRefused(t)
    BY <2>4 DEF EmergencyRefused
  <2> QED BY <2>1, <2>2, <2>3, <2>4 DEF Emergency
<1> QED BY <1>1, <1>2, <1>3, <1>4

\* Dropping the bot object, with its tasks, leaves every variable typed.
LEMMA TearDownType ==
    ASSUME TypeOK, TearDown
    PROVE  TypeOK'
<1>1. declined' \in Signatures
  BY FlatType, SignatureType DEF TearDown
<1>2. orders' \subseteq Setups
  BY DEF TearDown, TypeOK, VenueTypeOK, Tasks, EntryLabels
<1>3. /\ pc' \in [Tasks -> Labels] /\ ret' \in [Tasks -> ReturnPoints]
      /\ pc'["api"] = "off" /\ pc'["loop"] = "off" /\ ret'["api"] = "off"
      /\ seen' \in [Tasks -> Positions] /\ held' \in [Tasks -> Holdings]
      /\ resp' \in [Tasks -> {"wait", "ok", "fail"}]
  BY FlatType, NoPositionType DEF TearDown, Tasks, Labels, PlainAt, ReturnPoints
<1> QED
  BY <1>1, <1>2, <1>3, NoPositionType, BotAssumption
  DEF TearDown, TypeOK, VenueTypeOK, ledger, ApiLabels, EntryLabels

\* The HTTP requests, stop() and a crash keep every type.
LEMMA RequestsType ==
    ASSUME TypeOK, RequestEmergency \/ RequestUiClose \/ UiFetched \/ UiDone \/ RequestCancel
        \/ CancelDone \/ RequestStop \/ StopCancelled \/ StopAtOnce \/ Crash
    PROVE  TypeOK'
<1> USE VenueAssumption, BotAssumption DEF TypeOK, VenueTypeOK, Await, Answered, Return,
    venueVars, memory, ledger, control, Tasks, Labels, FetchAt, CancelAt, ReduceAt, SetStopAt,
    PlainAt, ApiLabels, EntryLabels, ReturnPoints
<1>1. CASE RequestEmergency
  BY <1>1 DEF RequestEmergency
<1>2. CASE RequestUiClose
  BY <1>2 DEF RequestUiClose
<1>3. CASE UiFetched
  BY <1>3 DEF UiFetched
<1>4. CASE UiDone
  BY <1>4, NoPositionType DEF UiDone
<1>5. CASE RequestCancel
  BY <1>5 DEF RequestCancel
<1>6. CASE CancelDone
  BY <1>6 DEF CancelDone
<1>7. CASE RequestStop
  BY <1>7 DEF RequestStop
<1>8. CASE StopCancelled
  BY <1>8, TearDownType DEF StopCancelled
<1>9. CASE StopAtOnce
  BY <1>9, TearDownType DEF StopAtOnce
<1>10. CASE Crash
  BY <1>10, TearDownType DEF Crash
<1> QED BY <1>1, <1>2, <1>3, <1>4, <1>5, <1>6, <1>7, <1>8, <1>9, <1>10

\* So does any step of the system, as the disjuncts of Next do.
LEMMA NextType ==
    ASSUME TypeOK, [Next]_vars
    PROVE  TypeOK'
<1>1. CASE Exchange
  BY <1>1, MarketType DEF Exchange, TypeOK, memory, ledger, control
<1>2. CASE \E t \in Tasks : Serve(t)
  BY <1>2, ServeType
<1>3. CASE Start \/ Recovery
  BY <1>3, RecoveryType DEF Recovery
<1>4. CASE StepBegin \/ Entry
  BY <1>4, EntryType DEF Entry
<1>5. CASE Exit
  BY <1>5, ExitType DEF Exit
<1>6. CASE Safeguard \/ \E t \in Tasks : Emergency(t)
  BY <1>6, SafeguardType DEF Safeguard
<1>7. CASE Requests \/ Crash
  BY <1>7, RequestsType DEF Requests
<1>8. CASE UNCHANGED vars
  BY <1>8 DEF vars, TypeOK, VenueTypeOK
<1> QED BY <1>1, <1>2, <1>3, <1>4, <1>5, <1>6, <1>7, <1>8 DEF Next

\* The initial state, bot not started and exchange empty, is well-typed.
LEMMA InitType == Init => TypeOK
<1> SUFFICES ASSUME Init PROVE TypeOK
  OBVIOUS
<1>1. VenueTypeOK
  BY VenueAssumption, FlatType DEF Init, VenueInit, VenueTypeOK
<1>2. seen \in [Tasks -> Positions] /\ held \in [Tasks -> Holdings] /\ active \in Holdings
  BY FlatType, NoPositionType DEF Init
<1>3. /\ pc \in [Tasks -> Labels] /\ ret \in [Tasks -> ReturnPoints]
      /\ pc["api"] = "off" /\ pc["loop"] = "off" /\ ret["api"] = "off"
  BY DEF Init, Tasks, Labels, PlainAt, ReturnPoints
<1>4. resp \in [Tasks -> {"wait", "ok", "fail"}] /\ closes \in [Setups -> Nat]
  BY DEF Init
<1>5. declined \in Signatures
  BY FlatType, SignatureType DEF Init
<1> QED BY <1>1, <1>2, <1>3, <1>4, <1>5 DEF Init, TypeOK, ApiLabels, EntryLabels

\* Every variable of the bot and of the exchange keeps its type, whatever
\* fails and in whatever order the tasks run.
THEOREM TypeCorrect == Spec => []TypeOK
<1>1. Init => TypeOK
  BY InitType
<1>2. TypeOK /\ [Next]_vars => TypeOK'
  BY NextType
<1> QED BY <1>1, <1>2, PTL DEF Spec

-----------------------------------------------------------------------------
(* The inductive invariant behind OneExposure *)

\* What OneExposure needs of the environment.
Quiet ==
    /\ FaultKinds \cap {"net", "ack", "cancel"} = {}
    /\ MaxUserTrades = 0
    /\ "cancel" \notin ApiRequests

\* The answered read of the loop shows no position.
SawFlat == resp["loop"] = "ok" => seen["loop"] = Flat

\* A position consists of bot lots, and an entry is either an order or a lot.
Shape ==
    /\ User \notin pos.lots
    /\ pos = Flat \/ pos.lots # {}
    /\ orders \cap pos.lots = {}

\* Where an entry order may rest: while the bot is off or has not swept yet,
\* right after it was sent, or while the bot remembers it as pending and has
\* not seen it filled.
Tracked == orders # {} =>
    \/ pc["loop"] = "off"
    \/ pc["loop"] = "recFetch" /\ ret["loop"] = "recovered" /\ SawFlat
    \/ pc["loop"] = "startCancel" /\ resp["loop"] = "wait"
    \/ pc["loop"] = "entry" /\ resp["loop"] = "ok"
    \/ pc["loop"] = "fillFetch" /\ SawFlat
    \/ /\ pending # NoSetup
       /\ \/ pc["loop"] = "sleep"
          \/ pc["loop"] = "pendFetch" /\ SawFlat
          \/ pc["loop"] = "ttlCancel" /\ resp["loop"] = "wait"

\* Before an entry is sent, and while it is on its way, nothing else is alive.
SendClean ==
    \/ pc["loop"] = "execFetch" /\ resp["loop"] = "ok" /\ seen["loop"] = Flat
    \/ pc["loop"] = "entry" /\ resp["loop"] = "wait"
    => pos.lots = {}

\* A pending entry is remembered only between steps and while it is handled.
PendingHandled == pending # NoSetup =>
    \/ pc["loop"] \in {"sleep", "pendFetch", "ttlCancel"}
    \/ pc["loop"] \in {"protect1", "protect2", "emFetch", "emClose"} /\ ret["loop"] = "market"

\* Before it has recovered, the bot holds no position; the return points are
\* set when a subroutine is entered; nobody is cancelling the pending entry.
Returning ==
    /\ pc["loop"] = "off" => active = NoPosition
    /\ pc["loop"] = "recFetch" /\ ret["loop"] = "recovered" => active = NoPosition
    /\ pc["loop"] # "off" => ret["loop"] # "off"
    /\ ret["api"] = "off"
    /\ pc["api"] # "userCancel"

IInv ==
    /\ OneExposure
    /\ Shape
    /\ Tracked
    /\ SendClean
    /\ PendingHandled
    /\ Returning

\* start() sends no order, and leaves none resting unless the bot holds a position
\* read back from the exchange.
LEMMA RecoveryInv ==
    ASSUME Quiet, TypeOK, IInv,
           Start \/ RecoverFailed \/ RecoverNothing \/ RecoverAdopts \/ StartSwept
               \/ StartFinished
    PROVE  IInv'
<1> USE DEF TypeOK, IInv, OneExposure, Exposure, Shape, Tracked, SawFlat, SendClean,
    PendingHandled, Returning, Await, Answered, Return, venueVars, memory, Tasks, ReturnPoints
<1>1. CASE Start
  BY <1>1 DEF Start
<1>2. CASE RecoverFailed
  BY <1>2 DEF RecoverFailed
<1>3. CASE RecoverNothing
  BY <1>3 DEF RecoverNothing
<1>4. CASE RecoverAdopts
  BY <1>4 DEF RecoverAdopts, Protect
<1>5. CASE StartSwept
  BY <1>5 DEF StartSwept
<1>6. CASE StartFinished
  BY <1>6 DEF StartFinished
<1> QED BY <1>1, <1>2, <1>3, <1>4, <1>5, <1>6

\* step() sends an entry only after a read that showed no position and with
\* nothing pending, and forgets a pending one only when it is filled or cancelled.
LEMMA EntryInv ==
    ASSUME Quiet, TypeOK, IInv,
           StepBegin \/ PendingWaits \/ PendingExpires \/ PendingCancelled \/ PendingFilled
               \/ NoSignal \/ (\E s \in Setups : Signal(s)) \/ ExecuteSkips \/ ExecuteOrders
               \/ OrderRefused \/ OrderPlaced \/ OrderRests \/ OrderFilled
    PROVE  IInv'
<1> USE DEF TypeOK, IInv, OneExposure, Exposure, Shape, Tracked, SawFlat, SendClean,
    PendingHandled, Returning, Await, Answered, Return, venueVars, memory, Tasks, ReturnPoints
<1>1. CASE StepBegin
  BY <1>1 DEF StepBegin
<1>2. CASE PendingWaits
  BY <1>2 DEF PendingWaits
<1>3. CASE PendingExpires
  BY <1>3 DEF PendingExpires
<1>4. CASE PendingCancelled
  BY <1>4 DEF PendingCancelled
<1>5. CASE PendingFilled
  BY <1>5 DEF PendingFilled, Enter, Protect
<1>6. CASE NoSignal
  BY <1>6 DEF NoSignal
<1>7. CASE \E s \in Setups : Signal(s)
  BY <1>7 DEF Signal
<1>8. CASE ExecuteSkips
  BY <1>8 DEF ExecuteSkips
<1>9. CASE ExecuteOrders
  BY <1>9 DEF ExecuteOrders
<1>10. CASE OrderRefused
  BY <1>10 DEF OrderRefused
<1>11. CASE OrderPlaced
  BY <1>11 DEF OrderPlaced
<1>12. CASE OrderRests
  BY <1>12 DEF OrderRests, EntryLabels
<1>13. CASE OrderFilled
  BY <1>13 DEF OrderFilled, Enter, Protect
<1> QED BY <1>1, <1>2, <1>3, <1>4, <1>5, <1>6, <1>7, <1>8, <1>9, <1>10, <1>11, <1>12, <1>13

\* Managing or giving up a position sends no entry.
LEMMA ExitInv ==
    ASSUME Quiet, TypeOK, IInv,
           ManagePosition \/ FlipBegins \/ FlipClosed \/ FlipRetries \/ FlipGivesUp
               \/ SyncUnknown \/ SyncAdopts \/ SyncEmergency \/ SyncRearms \/ RearmDone
               \/ SyncAgrees \/ SyncGone \/ SyncRecordsClose
    PROVE  IInv'
<1> USE DEF TypeOK, IInv, OneExposure, Exposure, Shape, Tracked, SawFlat, SendClean,
    PendingHandled, Returning, Await, Answered, Return, venueVars, memory, Tasks, ReturnPoints
<1>1. CASE ManagePosition
  BY <1>1 DEF ManagePosition
<1>2. CASE FlipBegins
  BY <1>2 DEF FlipBegins
<1>3. CASE FlipClosed
  BY <1>3 DEF FlipClosed
<1>4. CASE FlipRetries
  BY <1>4 DEF FlipRetries
<1>5. CASE FlipGivesUp
  BY <1>5 DEF FlipGivesUp
<1>6. CASE SyncUnknown
  BY <1>6 DEF SyncUnknown
<1>7. CASE SyncAdopts
  <2>1. declined' \in Signatures
    BY <1>7, SyncType DEF SyncAdopts
  <2> QED BY <1>7, <2>1 DEF SyncAdopts, SyncRead
<1>8. CASE SyncEmergency
  <2>1. declined' \in Signatures
    BY <1>8, SyncType DEF SyncEmergency
  <2> QED BY <1>8, <2>1 DEF SyncEmergency, SyncRead
<1>9. CASE SyncRearms
  <2>1. declined' \in Signatures
    BY <1>9, SyncType DEF SyncRearms
  <2> QED BY <1>9, <2>1 DEF SyncRearms, SyncRead
<1>10. CASE RearmDone
  BY <1>10 DEF RearmDone
<1>11. CASE SyncAgrees
  <2>1. declined' \in Signatures
    BY <1>11, SyncType DEF SyncAgrees
  <2> QED BY <1>11, <2>1 DEF SyncAgrees, SyncRead
<1>12. CASE SyncGone
  <2>1. declined' \in Signatures
    BY <1>12, SyncType DEF SyncGone
  <2> QED BY <1>12, <2>1 DEF SyncGone, SyncRead
<1>13. CASE SyncRecordsClose
  BY <1>13 DEF SyncRecordsClose
<1> QED BY <1>1, <1>2, <1>3, <1>4, <1>5, <1>6, <1>7, <1>8, <1>9, <1>10, <1>11, <1>12, <1>13

\* Neither does protecting it or closing it in an emergency.
LEMMA SafeguardInv ==
    ASSUME Quiet, TypeOK, IInv,
           ProtectAccepted \/ ProtectRetry \/ ProtectGivesUp \/ (\E t \in Tasks : Emergency(t))
    PROVE  IInv'
<1> USE DEF TypeOK, IInv, OneExposure, Exposure, Shape, Tracked, SawFlat, SendClean,
    PendingHandled, Returning, Await, Answered, Return, venueVars, memory, Tasks, ReturnPoints
<1>1. CASE ProtectAccepted
  BY <1>1 DEF ProtectAccepted
<1>2. CASE ProtectRetry
  BY <1>2 DEF ProtectRetry
<1>3. CASE ProtectGivesUp
  BY <1>3 DEF ProtectGivesUp
<1>4. CASE \E t \in Tasks : Emergency(t)
  BY <1>4 DEF Emergency, EmergencyFetched, EmergencyClosed, EmergencyRefused, RecordCloseOf
<1> QED BY <1>1, <1>2, <1>3, <1>4

\* Requests other than CANCEL never forget a resting order, except by ending
\* the loop, whose next start sweeps it.
LEMMA RequestsInv ==
    ASSUME Quiet, TypeOK, IInv,
           RequestEmergency \/ RequestUiClose \/ UiFetched \/ UiDone \/ RequestCancel
               \/ CancelDone \/ RequestStop \/ StopCancelled \/ StopAtOnce \/ Crash
    PROVE  IInv'
<1> USE DEF TypeOK, IInv, OneExposure, Exposure, Shape, Tracked, SawFlat, SendClean,
    PendingHandled, Returning, Await, Answered, Return, venueVars, memory, Tasks, ReturnPoints
<1>1. CASE RequestEmergency
  BY <1>1 DEF RequestEmergency
<1>2. CASE RequestUiClose
  BY <1>2 DEF RequestUiClose
<1>3. CASE UiFetched
  BY <1>3 DEF UiFetched
<1>4. CASE UiDone
  BY <1>4 DEF UiDone
<1>5. CASE RequestCancel
  BY <1>5 DEF RequestCancel, Idle, Quiet
<1>6. CASE CancelDone
  BY <1>6 DEF CancelDone
<1>7. CASE RequestStop
  BY <1>7 DEF RequestStop
<1>8. CASE StopCancelled
  BY <1>8 DEF StopCancelled, TearDown
<1>9. CASE StopAtOnce
  BY <1>9 DEF StopAtOnce, TearDown
<1>10. CASE Crash
  BY <1>10 DEF Crash, TearDown
<1> QED BY <1>1, <1>2, <1>3, <1>4, <1>5, <1>6, <1>7, <1>8, <1>9, <1>10

\* What the exchange does on its own: no fill once the entry has been noticed,
\* and every fill takes its order away.
LEMMA MarketInv ==
    ASSUME Quiet, TypeOK, IInv, Exchange
    PROVE  IInv'
<1> USE DEF TypeOK, VenueTypeOK, IInv, OneExposure, Exposure, Shape, Tracked, SawFlat,
    SendClean,
            PendingHandled, Returning, memory, control
<1>1. CASE \E s \in Setups : Fill(s) /\ UNCHANGED <<memory, control>>
  <2>1. PICK s \in Setups : Fill(s) /\ UNCHANGED <<memory, control>>
    BY <1>1
  <2>2. pos'.lots \subseteq pos.lots \cup {s} /\ (pos' = Flat \/ pos'.lots # {})
    <3>1. Join(s, DirOf[s])
      BY <2>1 DEF Fill
    <3>2. CASE pos' = [dir |-> DirOf[s], lots |-> {s}, sl |-> FALSE]
      BY <3>2
    <3>3. CASE pos' = [pos EXCEPT !.lots = @ \cup {s}]
      BY <3>3 DEF Positions
    <3>4. ASSUME NEW out \in pos.lots,
                 pos' = IF pos.lots = {out} THEN Flat
                        ELSE [pos EXCEPT !.lots = @ \ {out}]
          PROVE  pos'.lots \subseteq pos.lots \cup {s} /\ (pos' = Flat \/ pos'.lots # {})
      BY <3>4 DEF Flat, Positions
    <3> QED BY <3>1, <3>2, <3>3, <3>4 DEF Join
  <2> QED BY <2>1, <2>2, VenueAssumption DEF Fill
<1>2. CASE ExchangeClose /\ UNCHANGED <<memory, control>>
  BY <1>2 DEF ExchangeClose, CloseAll, Flat
<1>3. CASE \E d \in Directions : UserOpen(d)
  BY <1>3 DEF UserOpen, Quiet
<1>4. CASE StripStop /\ UNCHANGED <<memory, control>>
  BY <1>4 DEF StripStop, Flat, Positions
<1> QED BY <1>1, <1>2, <1>3, <1>4 DEF Exchange, Market

\* The answers of the exchange.
LEMMA ServeInv ==
    ASSUME Quiet, TypeOK, IInv, NEW t \in Tasks, Serve(t)
    PROVE  IInv'
<1> USE DEF TypeOK, VenueTypeOK, IInv, OneExposure, Exposure, Shape, Tracked, SawFlat,
    SendClean,
            PendingHandled, Returning, memory, Tasks, Reply
<1>1. PICK a \in {"ok", "fail"} :
        /\ Reply(t, a)
        /\ \/ /\ pc[t] \in FetchAt
              /\ \E view \in {pos, Flat} :
                    /\ FetchPosition(a, view)
                    /\ seen' = [seen EXCEPT ![t] = view]
           \/ /\ UNCHANGED seen
              /\ \/ pc[t] \in CancelAt /\ a = "ok" /\ CancelBotOrders
                 \/ pc[t] = "entry" /\ PlaceEntry(cur, a)
                 \/ pc[t] \in ReduceAt /\ ReduceOnly(CloseDir(t), a)
                 \/ pc[t] \in SetStopAt /\ SetStop(held[t].dir, a)
  BY DEF Serve
<1>2. CASE /\ pc[t] \in FetchAt
           /\ \E view \in {pos, Flat} :
                 /\ FetchPosition(a, view)
                 /\ seen' = [seen EXCEPT ![t] = view]
  <2>1. PICK view \in {pos, Flat} :
          /\ FetchPosition(a, view)
          /\ seen' = [seen EXCEPT ![t] = view]
    BY <1>2
  <2>2. a = "ok" => view = pos
    BY <2>1 DEF FetchPosition, Fault, Quiet
  <2>3. pos # Flat => orders = {}
    BY DEF Positions, Lots
  <2>4. UNCHANGED <<pos, orders>>
    BY <2>1 DEF FetchPosition
  <2>5. CASE t = "api"
    BY <1>1, <1>2, <2>1, <2>4, <2>5 DEF FetchAt
  <2>6. CASE t = "loop"
    <3>1. Tracked'
      BY <1>1, <1>2, <2>1, <2>2, <2>3, <2>4, <2>6 DEF FetchAt
    <3>2. SendClean'
      BY <1>1, <1>2, <2>1, <2>2, <2>4, <2>6 DEF FetchAt, Flat
    <3> QED BY <1>1, <1>2, <2>1, <2>4, <2>6, <3>1, <3>2 DEF FetchAt
  <2> QED BY <2>5, <2>6
<1>3. CASE UNCHANGED seen /\ pc[t] \in CancelAt /\ a = "ok" /\ CancelBotOrders
  <2>1. orders' = {}
    BY <1>3 DEF CancelBotOrders, Fault, Quiet
  <2> QED BY <1>1, <1>3, <2>1 DEF CancelBotOrders, CancelAt
<1>4. CASE UNCHANGED seen /\ pc[t] = "entry" /\ PlaceEntry(cur, a)
  <2>1. t = "loop"
    BY <1>4 DEF ApiLabels
  <2>2. orders = {} /\ pos.lots = {}
    BY <1>1, <1>4, <2>1
  <2>3. orders' = IF a = "ok" THEN {cur} ELSE {}
    BY <1>4, <2>2 DEF PlaceEntry, Fault, Quiet
  <2> QED BY <1>1, <1>4, <2>1, <2>2, <2>3 DEF PlaceEntry
<1>5. CASE UNCHANGED seen /\ pc[t] \in ReduceAt /\ ReduceOnly(CloseDir(t), a)
  <2>1. pos' \in {pos, Flat} /\ UNCHANGED orders
    BY <1>5 DEF ReduceOnly, CloseAll
  <2> QED BY <1>1, <1>5, <2>1 DEF ReduceAt, Flat
<1>6. CASE UNCHANGED seen /\ pc[t] \in SetStopAt /\ SetStop(held[t].dir, a)
  <2>1. pos'.lots = pos.lots /\ (pos = Flat => pos' = Flat) /\ UNCHANGED orders
    BY <1>6 DEF SetStop, Positions
  <2> QED BY <1>1, <1>6, <2>1 DEF SetStopAt
<1> QED BY <1>1, <1>2, <1>3, <1>4, <1>5, <1>6

\* The invariant is inductive.
LEMMA NextInv ==
    ASSUME Quiet, TypeOK, IInv, [Next]_vars
    PROVE  IInv'
<1>1. CASE Exchange
  BY <1>1, MarketInv
<1>2. CASE \E t \in Tasks : Serve(t)
  BY <1>2, ServeInv
<1>3. CASE Start \/ Recovery
  BY <1>3, RecoveryInv DEF Recovery
<1>4. CASE StepBegin \/ Entry
  BY <1>4, EntryInv DEF Entry
<1>5. CASE Exit
  BY <1>5, ExitInv DEF Exit
<1>6. CASE Safeguard \/ \E t \in Tasks : Emergency(t)
  BY <1>6, SafeguardInv DEF Safeguard
<1>7. CASE Requests \/ Crash
  BY <1>7, RequestsInv DEF Requests
<1>8. CASE UNCHANGED vars
  BY <1>8 DEF vars, IInv, OneExposure, Exposure, Shape, Tracked, SawFlat, SendClean,
              PendingHandled, Returning
<1> QED BY <1>1, <1>2, <1>3, <1>4, <1>5, <1>6, <1>7, <1>8 DEF Next

\* Through stops, crashes, restarts, fills nobody has noticed yet and refused
\* calls, the bot never has two entries of its own alive at once.
THEOREM OneExposureHolds ==
    ASSUME Quiet
    PROVE  Spec => []OneExposure
<1>1. Init => TypeOK /\ IInv
  BY InitType DEF Init, VenueInit, Flat, Tasks, IInv, OneExposure, Exposure, Shape, Tracked,
                  SendClean, PendingHandled, Returning
<1>2. TypeOK /\ IInv /\ [Next]_vars => TypeOK' /\ IInv'
  BY NextType, NextInv
<1>3. IInv => OneExposure
  BY DEF IInv
<1> QED BY <1>1, <1>2, <1>3, PTL DEF Spec

-----------------------------------------------------------------------------
(* The inductive invariant behind NoPhantom and CloseBacked *)

\* The setups whose entry has been filled, still held or closed since.
Arrived == pos.lots \cup closed

\* What is remembered of a position, and what was read of it, has arrived.
Known ==
    /\ active.setup \in Setups => active.setup \in entered \cap Arrived
    /\ \A t \in Tasks : held[t].setup \in Setups => held[t].setup \in Arrived
    /\ \A t \in Tasks : seen[t].lots \subseteq Arrived

\* While the bot waits for an entry, nothing but that entry is alive, so that a
\* position that is read is the entry's.
Expected ==
    /\ pc["loop"] \in {"entry", "fillFetch"} => Exposure \subseteq {cur}
    /\ pending # NoSetup => Exposure \subseteq {pending}
    /\ pc["loop"] = "pendFetch" => pending = cur
    /\ /\ pc["loop"] \in {"fillFetch", "pendFetch"}
       /\ resp["loop"] = "ok" /\ seen["loop"] # Flat
       => cur \in Arrived

\* A close the bot has been told of, or has inferred from an empty account, has
\* happened.
Ended ==
    /\ \A t \in Tasks : pc[t] \in ReduceAt /\ resp[t] = "ok" /\ held[t].setup \in Setups
                          => held[t].setup \in closed
    /\ /\ pc["loop"] = "syncFetch" /\ resp["loop"] = "ok" /\ seen["loop"] = Flat
       /\ active.setup \in Setups
       => active.setup \in closed
    /\ pc["loop"] = "closedPnl" /\ held["loop"].setup \in Setups => held["loop"].setup \in closed

Backed == Known /\ Expected /\ Ended /\ CloseBacked

\* start() adopts only what the exchange has shown and the store has an entry for, and
\* books closes only from the closed-pnl list.
LEMMA RecoveryBacked ==
    ASSUME Quiet, TypeOK, IInv, Backed,
           Start \/ RecoverFailed \/ RecoverNothing \/ RecoverAdopts \/ StartSwept
               \/ StartFinished
    PROVE  Backed'
<1> USE DEF TypeOK, IInv, Shape, PendingHandled, Returning, Backed, Known, Expected, Ended,
    CloseBacked, Arrived, Exposure, NoPosition, ReduceAt, Await, Answered, Return, venueVars, memory, ledger,
    Tasks, ReturnPoints
<1>1. CASE Start
  BY <1>1 DEF Start
<1>2. CASE RecoverFailed
  BY <1>2 DEF RecoverFailed
<1>3. CASE RecoverNothing
  BY <1>3 DEF RecoverNothing
<1>4. CASE RecoverAdopts
  BY <1>4, BotAssumption DEF RecoverAdopts, Protect, Adopted, RecordMatch, Unclosed, Lots
<1>5. CASE StartSwept
  BY <1>5 DEF StartSwept
<1>6. CASE StartFinished
  BY <1>6 DEF StartFinished, RecordCloseOf, Unclosed
<1> QED BY <1>1, <1>2, <1>3, <1>4, <1>5, <1>6

\* An entry is taken into memory and recorded only when it has been filled.
LEMMA EntryBacked ==
    ASSUME Quiet, TypeOK, IInv, Backed,
           StepBegin \/ PendingWaits \/ PendingExpires \/ PendingCancelled \/ PendingFilled
               \/ NoSignal \/ (\E s \in Setups : Signal(s)) \/ ExecuteSkips \/ ExecuteOrders
               \/ OrderRefused \/ OrderPlaced \/ OrderRests \/ OrderFilled
    PROVE  Backed'
<1> USE DEF TypeOK, IInv, Tracked, SendClean, Shape, PendingHandled, Returning, Backed,
    Known, Expected, Ended,
    CloseBacked, Arrived, Exposure, ReduceAt, Await, Answered, Return, venueVars, memory, ledger,
    Tasks, ReturnPoints
<1>1. CASE StepBegin
  BY <1>1 DEF StepBegin
<1>2. CASE PendingWaits
  BY <1>2 DEF PendingWaits
<1>3. CASE PendingExpires
  BY <1>3 DEF PendingExpires
<1>4. CASE PendingCancelled
  BY <1>4 DEF PendingCancelled
<1>5. CASE PendingFilled
  BY <1>5 DEF PendingFilled, Enter, RecordEntry, Protect
<1>6. CASE NoSignal
  BY <1>6 DEF NoSignal
<1>7. CASE \E s \in Setups : Signal(s)
  BY <1>7 DEF Signal
<1>8. CASE ExecuteSkips
  BY <1>8 DEF ExecuteSkips
<1>9. CASE ExecuteOrders
  BY <1>9 DEF ExecuteOrders
<1>10. CASE OrderRefused
  BY <1>10 DEF OrderRefused
<1>11. CASE OrderPlaced
  BY <1>11 DEF OrderPlaced
<1>12. CASE OrderRests
  BY <1>12 DEF OrderRests
<1>13. CASE OrderFilled
  BY <1>13 DEF OrderFilled, Enter, RecordEntry, Protect
<1> QED BY <1>1, <1>2, <1>3, <1>4, <1>5, <1>6, <1>7, <1>8, <1>9, <1>10, <1>11, <1>12, <1>13

\* What the bot closes or finds gone is booked only once the exchange has closed it.
LEMMA ExitBacked ==
    ASSUME Quiet, TypeOK, IInv, Backed,
           ManagePosition \/ FlipBegins \/ FlipClosed \/ FlipRetries \/ FlipGivesUp
               \/ SyncUnknown \/ SyncAdopts \/ SyncEmergency \/ SyncRearms \/ RearmDone
               \/ SyncAgrees \/ SyncGone \/ SyncRecordsClose
    PROVE  Backed'
<1> USE DEF TypeOK, IInv, Shape, PendingHandled, Returning, Backed, Known, Expected, Ended,
    CloseBacked, Arrived, Exposure, ReduceAt, Await, Answered, Return, venueVars, memory, ledger,
    Tasks, ReturnPoints
<1>1. CASE ManagePosition
  BY <1>1 DEF ManagePosition
<1>2. CASE FlipBegins
  BY <1>2 DEF FlipBegins
<1>3. CASE FlipClosed
  BY <1>3, BotAssumption DEF FlipClosed, RecordCloseOf, NoPosition, Lots
<1>4. CASE FlipRetries
  BY <1>4 DEF FlipRetries
<1>5. CASE FlipGivesUp
  BY <1>5 DEF FlipGivesUp
<1>6. CASE SyncUnknown
  BY <1>6 DEF SyncUnknown
<1>7. CASE SyncAdopts
  BY <1>7 DEF SyncAdopts, SyncRead
<1>8. CASE SyncEmergency
  BY <1>8 DEF SyncEmergency, SyncRead
<1>9. CASE SyncRearms
  BY <1>9 DEF SyncRearms, SyncRead
<1>10. CASE RearmDone
  BY <1>10 DEF RearmDone
<1>11. CASE SyncAgrees
  BY <1>11 DEF SyncAgrees, SyncRead
<1>12. CASE SyncGone
  BY <1>12 DEF SyncGone, SyncRead
<1>13. CASE SyncRecordsClose
  BY <1>13, BotAssumption DEF SyncRecordsClose, RecordCloseOf, NoPosition, Lots
<1> QED BY <1>1, <1>2, <1>3, <1>4, <1>5, <1>6, <1>7, <1>8, <1>9, <1>10, <1>11, <1>12, <1>13

\* A protected position stays the one that was entered; an emergency close is booked
\* only when the exchange has accepted it.
LEMMA SafeguardBacked ==
    ASSUME Quiet, TypeOK, IInv, Backed,
           ProtectAccepted \/ ProtectRetry \/ ProtectGivesUp \/ (\E t \in Tasks : Emergency(t))
    PROVE  Backed'
<1> USE DEF TypeOK, IInv, Shape, PendingHandled, Returning, Backed, Known, Expected, Ended,
    CloseBacked, Arrived, Exposure, ReduceAt, Await, Answered, Return, venueVars, memory, ledger,
    Tasks, ReturnPoints
<1>1. CASE ProtectAccepted
  BY <1>1 DEF ProtectAccepted, Holdings
<1>2. CASE ProtectRetry
  BY <1>2 DEF ProtectRetry
<1>3. CASE ProtectGivesUp
  BY <1>3 DEF ProtectGivesUp
<1>4. ASSUME NEW t \in Tasks, Emergency(t)
      PROVE  Backed'
  <2>1. CASE EmergencyFetched(t)
    BY <2>1 DEF EmergencyFetched
  <2>2. CASE EmergencyClosed(t)
    BY <2>2, BotAssumption DEF EmergencyClosed, RecordCloseOf, NoPosition, Lots
  <2>3. CASE EmergencyRefused(t)
    BY <2>3 DEF EmergencyRefused
  <2> QED BY <1>4, <2>1, <2>2, <2>3 DEF Emergency
<1> QED BY <1>1, <1>2, <1>3, <1>4

\* A request works on a copy of the position it found, and books nothing else.
LEMMA RequestsBacked ==
    ASSUME Quiet, TypeOK, IInv, Backed,
           RequestEmergency \/ RequestUiClose \/ UiFetched \/ UiDone \/ RequestCancel
               \/ CancelDone \/ RequestStop \/ StopCancelled \/ StopAtOnce \/ Crash
    PROVE  Backed'
<1> USE DEF TypeOK, IInv, Shape, PendingHandled, Returning, Backed, Known, Expected, Ended,
    CloseBacked, Arrived, Exposure, ReduceAt, Await, Answered, Return, venueVars, memory, ledger,
    Tasks, ReturnPoints
<1>0. ASSUME TearDown PROVE Backed'
  BY <1>0, BotAssumption DEF TearDown, NoPosition, Flat, Lots
<1>1. CASE RequestEmergency
  BY <1>1 DEF RequestEmergency
<1>2. CASE RequestUiClose
  BY <1>2 DEF RequestUiClose
<1>3. CASE UiFetched
  BY <1>3 DEF UiFetched
<1>4. CASE UiDone
  BY <1>4, BotAssumption DEF UiDone, NoPosition, Lots
<1>5. CASE RequestCancel
  BY <1>5 DEF RequestCancel, Idle, Quiet
<1>6. CASE CancelDone
  BY <1>6 DEF CancelDone
<1>7. CASE RequestStop
  BY <1>7 DEF RequestStop
<1>8. CASE StopCancelled
  BY <1>8, <1>0 DEF StopCancelled
<1>9. CASE StopAtOnce
  BY <1>9, <1>0 DEF StopAtOnce
<1>10. CASE Crash
  BY <1>10, <1>0 DEF Crash
<1> QED BY <1>1, <1>2, <1>3, <1>4, <1>5, <1>6, <1>7, <1>8, <1>9, <1>10

\* What has arrived stays so: a lot leaves the position only as a close.
LEMMA MarketArrived ==
    ASSUME TypeOK, IInv, Market
    PROVE  Arrived \subseteq Arrived' /\ closed \subseteq closed'
<1> USE DEF TypeOK, VenueTypeOK, IInv, Shape, Arrived
<1>1. ASSUME NEW s \in Setups, Fill(s)
      PROVE  Arrived \subseteq Arrived' /\ closed \subseteq closed'
  <2>1. Join(s, DirOf[s])
    BY <1>1 DEF Fill
  <2>2. CASE pos = Flat /\ UNCHANGED closed
    BY <2>2 DEF Flat
  <2>3. CASE pos' = [pos EXCEPT !.lots = @ \cup {s}] /\ UNCHANGED closed
    BY <2>3 DEF Positions
  <2>4. ASSUME NEW out \in pos.lots,
               pos' = IF pos.lots = {out} THEN Flat
                      ELSE [pos EXCEPT !.lots = @ \ {out}],
               closed' = closed \cup ({s, out} \cap Setups)
        PROVE  Arrived \subseteq Arrived' /\ closed \subseteq closed'
    BY <2>4 DEF Flat, Positions, Lots
  <2> QED BY <2>1, <2>2, <2>3, <2>4 DEF Join
<1>2. CASE ExchangeClose
  BY <1>2 DEF ExchangeClose, CloseAll, Flat, Positions, Lots
<1>3. ASSUME NEW d \in Directions, UserOpen(d)
      PROVE  Arrived \subseteq Arrived' /\ closed \subseteq closed'
  BY <1>3 DEF UserOpen, Join, Flat, Directions
<1>4. CASE StripStop
  BY <1>4 DEF StripStop, Positions
<1> QED BY <1>1, <1>2, <1>3, <1>4 DEF Market

\* Nothing comes alive without the bot: a fill turns an order into a lot.
LEMMA MarketExposure ==
    ASSUME Quiet, TypeOK, Market, UNCHANGED control, UNCHANGED memory
    PROVE  Exposure' \subseteq Exposure
<1> USE DEF TypeOK, VenueTypeOK, Exposure, control, memory
<1>1. ASSUME NEW s \in Setups, Fill(s)
      PROVE  Exposure' \subseteq Exposure
  <2>1. Join(s, DirOf[s])
    BY <1>1 DEF Fill
  <2>2. pos'.lots \subseteq pos.lots \cup {s}
    BY <2>1 DEF Join, Flat, Positions
  <2> QED BY <1>1, <2>2 DEF Fill
<1>2. CASE ExchangeClose
  BY <1>2 DEF ExchangeClose, CloseAll, Flat
<1>3. ASSUME NEW d \in Directions, UserOpen(d)
      PROVE  Exposure' \subseteq Exposure
  BY <1>3 DEF UserOpen, Quiet
<1>4. CASE StripStop
  BY <1>4 DEF StripStop, Positions
<1> QED BY <1>1, <1>2, <1>3, <1>4 DEF Market

\* So whatever happens at the exchange leaves the memory of the bot true.
LEMMA MarketBacked ==
    ASSUME Quiet, TypeOK, IInv, Backed, Exchange
    PROVE  Backed'
<1>1. Arrived \subseteq Arrived' /\ closed \subseteq closed' /\ Exposure' \subseteq Exposure
  BY MarketArrived, MarketExposure DEF Exchange
<1>2. UNCHANGED <<memory, ledger, control>>
  BY DEF Exchange
<1> QED BY <1>1, <1>2 DEF Backed, Known, Expected, Ended, CloseBacked, memory, ledger, control

\* The exchange answers: a read shows what has arrived, an accepted close has closed
\* every lot, and an accepted order is the only one.
LEMMA ServeBacked ==
    ASSUME Quiet, TypeOK, IInv, Backed, NEW t \in Tasks, Serve(t)
    PROVE  Backed'
<1> USE DEF TypeOK, VenueTypeOK, IInv, Shape, Backed, Known, Expected, Ended, CloseBacked,
    Arrived, Exposure, memory, ledger, Tasks, Reply
<1>1. PICK a \in {"ok", "fail"} :
        /\ Reply(t, a)
        /\ \/ /\ pc[t] \in FetchAt
              /\ \E view \in {pos, Flat} :
                    /\ FetchPosition(a, view)
                    /\ seen' = [seen EXCEPT ![t] = view]
           \/ /\ UNCHANGED seen
              /\ \/ pc[t] \in CancelAt /\ a = "ok" /\ CancelBotOrders
                 \/ pc[t] = "entry" /\ PlaceEntry(cur, a)
                 \/ pc[t] \in ReduceAt /\ ReduceOnly(CloseDir(t), a)
                 \/ pc[t] \in SetStopAt /\ SetStop(held[t].dir, a)
  BY DEF Serve
<1>2. CASE /\ pc[t] \in FetchAt
           /\ \E view \in {pos, Flat} :
                 /\ FetchPosition(a, view)
                 /\ seen' = [seen EXCEPT ![t] = view]
  <2>1. PICK view \in {pos, Flat} :
          /\ FetchPosition(a, view)
          /\ seen' = [seen EXCEPT ![t] = view]
    BY <1>2
  <2>2. a = "ok" => view = pos
    BY <2>1 DEF FetchPosition, Fault, Quiet
  <2>3. view.lots \subseteq Arrived
    BY <2>1 DEF Flat
  <2>4. UNCHANGED <<pos, orders, closed>>
    BY <2>1 DEF FetchPosition
  <2>5. Known'
    BY <1>1, <2>1, <2>3, <2>4
  <2>6. Ended'
    BY <1>1, <1>2, <2>1, <2>2, <2>4 DEF FetchAt, ReduceAt, Flat
  <2>7. Expected'
    <3>1. ASSUME t = "loop", pc["loop"] \in {"fillFetch", "pendFetch"}, a = "ok", view # Flat
          PROVE  cur \in Arrived
      <4>1. pos.lots # {} /\ pos.lots \subseteq Exposure
        BY <2>2, <3>1 DEF Positions, Lots
      <4>2. pc["loop"] = "pendFetch" => pending # NoSetup
        BY <3>1, BotAssumption DEF EntryLabels, Lots
      <4> QED BY <3>1, <4>1, <4>2
    <3> QED BY <1>1, <1>2, <2>1, <2>4, <3>1 DEF FetchAt
  <2> QED BY <1>1, <2>4, <2>5, <2>6, <2>7
<1>3. CASE UNCHANGED seen /\ pc[t] \in CancelAt /\ a = "ok" /\ CancelBotOrders
  <2>1. orders' \subseteq orders /\ UNCHANGED <<pos, closed>>
    BY <1>3 DEF CancelBotOrders
  <2> QED BY <1>1, <1>3, <2>1 DEF CancelAt, ReduceAt
<1>4. CASE UNCHANGED seen /\ pc[t] = "entry" /\ PlaceEntry(cur, a)
  <2>1. t = "loop" /\ resp["loop"] = "wait"
    BY <1>1, <1>4 DEF ApiLabels
  <2>2. orders' \subseteq orders \cup {cur} /\ UNCHANGED <<pos, closed>>
    BY <1>4 DEF PlaceEntry
  <2>3. pending = NoSetup
    BY <1>4, <2>1 DEF PendingHandled
  <2> QED BY <1>1, <1>4, <2>1, <2>2, <2>3 DEF ReduceAt
<1>5. CASE UNCHANGED seen /\ pc[t] \in ReduceAt /\ ReduceOnly(CloseDir(t), a)
  <2>1. UNCHANGED orders /\ pos'.lots \subseteq pos.lots /\ closed \subseteq closed'
        /\ Arrived' = Arrived
    BY <1>5 DEF ReduceOnly, CloseAll, Flat, Positions, Lots
  <2>2. a = "ok" => Arrived \subseteq closed'
    BY <1>5 DEF ReduceOnly, CloseAll, Positions, Lots
  <2> QED BY <1>1, <1>5, <2>1, <2>2 DEF ReduceAt
<1>6. CASE UNCHANGED seen /\ pc[t] \in SetStopAt /\ SetStop(held[t].dir, a)
  <2>1. pos'.lots = pos.lots /\ UNCHANGED <<orders, closed>>
    BY <1>6 DEF SetStop, Positions
  <2> QED BY <1>1, <1>6, <2>1 DEF SetStopAt, ReduceAt
<1> QED BY <1>1, <1>2, <1>3, <1>4, <1>5, <1>6

\* Backed is inductive beside IInv.
LEMMA NextBacked ==
    ASSUME Quiet, TypeOK, IInv, Backed, [Next]_vars
    PROVE  Backed'
<1>1. CASE Exchange
  BY <1>1, MarketBacked
<1>2. CASE \E t \in Tasks : Serve(t)
  BY <1>2, ServeBacked
<1>3. CASE Start \/ Recovery
  BY <1>3, RecoveryBacked DEF Recovery
<1>4. CASE StepBegin \/ Entry
  BY <1>4, EntryBacked DEF Entry
<1>5. CASE Exit
  BY <1>5, ExitBacked DEF Exit
<1>6. CASE Safeguard \/ \E t \in Tasks : Emergency(t)
  BY <1>6, SafeguardBacked DEF Safeguard
<1>7. CASE Requests \/ Crash
  BY <1>7, RequestsBacked DEF Requests
<1>8. CASE UNCHANGED vars
  BY <1>8 DEF vars, Backed, Known, Expected, Ended, CloseBacked, Arrived, Exposure
<1> QED BY <1>1, <1>2, <1>3, <1>4, <1>5, <1>6, <1>7, <1>8 DEF Next

\* The three invariants hold together from the start.
LEMMA AllInvariants ==
    ASSUME Quiet
    PROVE  Spec => [](TypeOK /\ IInv /\ Backed)
<1>1. Init => TypeOK /\ IInv
  BY InitType DEF Init, VenueInit, Flat, Tasks, IInv, OneExposure, Exposure, Shape, Tracked,
                  SendClean, PendingHandled, Returning
<1>2. Init => Backed
  BY BotAssumption DEF Init, VenueInit, Flat, NoPosition, Lots, Tasks, Backed, Known, Expected,
                       Ended, CloseBacked, ReduceAt
<1>3. TypeOK /\ IInv /\ Backed /\ [Next]_vars => TypeOK' /\ IInv' /\ Backed'
  BY NextType, NextInv, NextBacked
<1> QED BY <1>1, <1>2, <1>3, PTL DEF Spec

\* What the bot holds for a setup is an entry that was filled and recorded, whatever
\* was refused, closed by a request or interrupted by a crash.
THEOREM NoPhantomHolds ==
    ASSUME Quiet
    PROVE  Spec => []NoPhantom
<1>1. Backed => NoPhantom
  BY DEF Backed, Known, NoPhantom, Arrived
<1> QED BY <1>1, AllInvariants, PTL

\* A closing event stands for a lot the exchange really closed: not for an order that
\* was refused, a position that a second task has closed, or one that was never filled.
THEOREM CloseBackedHolds ==
    ASSUME Quiet
    PROVE  Spec => []CloseBacked
<1>1. Backed => CloseBacked
  BY DEF Backed
<1> QED BY <1>1, AllInvariants, PTL

=============================================================================
