-------------------------------- MODULE MCParts --------------------------------
(***************************************************************************)
(* Parts that share no state, side by side: an open position of the ICT     *)
(* bot, the desktop program's files, processes and licence, the accounts of *)
(* the SaaS and the copies of their file, and the backtest of the first     *)
(* bot.  A behaviour is one of one part, chosen at the start.               *)
(***************************************************************************)
EXTENDS Manage, Install, Supervisor, License, Accounts, Engine

VARIABLE part

vars == <<part, managed, files, procs, licence, accounts, store, engine>>

OfPosition(A) == part = "position" /\ A /\ UNCHANGED <<part, files, procs, licence, accounts, engine, store>>
OfFiles(A)    == part = "files" /\ A /\ UNCHANGED <<part, managed, procs, licence, accounts, engine, store>>
OfProcs(A)    == part = "processes" /\ A /\ UNCHANGED <<part, managed, files, licence, accounts, engine, store>>
OfLicence(A)  == part = "licence" /\ A /\ UNCHANGED <<part, managed, files, procs, accounts, engine, store>>
OfBacktest(A) == part = "backtest" /\ A /\ UNCHANGED <<part, managed, files, procs, licence, accounts, store>>
OfAccounts(A) == part = "accounts" /\ A /\ UNCHANGED <<part, managed, files, procs, licence, engine, store>>
OfStore(A)    == part = "store" /\ A
                 /\ UNCHANGED <<part, managed, files, procs, licence, accounts, engine>>

\* The subscription's settings, the defaults with the half sold by the bot or left at
\* the exchange, and the structure trail alone.
SomeStyles == {{"be", "half", "trailing"}, {"half"}, {"be", "half", "halfAtExchange"}, {"trail"}}

TwoChunks == <<1, 1>>

Init ==
    /\ part \in {"position", "files", "processes", "licence", "accounts", "store", "backtest"}
    /\ ManageInit /\ FilesInit /\ ProcsInit /\ LicenceInit /\ AccountsInit /\ EngineInit
    /\ UsersFileInit
    /\ part # "position" => style = {"half"}
    /\ part # "files" => told = 1
    /\ part # "backtest" => minute.close = 1 /\ trailing = "moving_target"
    /\ part # "accounts" => row.legacy = NoKey /\ ~row.flag

Next ==
    \/ OfPosition(ManageNext) \/ OfFiles(FilesNext) \/ OfProcs(ProcsNext)
    \/ OfLicence(LicenceNext) \/ OfAccounts(AccountsNext)
    \/ OfStore(UsersFileNext) \/ OfBacktest(EngineNext)

\* Position: the loop and the watcher's handler go on, bars end.  Files: the user keeps
\* opening the launcher and pressing START, and the programs go on.  Processes: threads
\* and programs are scheduled; nothing is assumed of the user.
Fairness ==
    /\ WF_vars(OfPosition(LoopSteps)) /\ WF_vars(OfPosition(NewBar))
    /\ WF_vars(OfPosition(WatcherFires \/ WatcherAnswered))
    /\ WF_vars(OfFiles(StartLauncher)) /\ SF_vars(OfFiles(PressStart))
    /\ WF_vars(OfFiles(LauncherSteps)) /\ SF_vars(OfFiles(FlowSteps)) /\ WF_vars(OfFiles(BodySteps))
    /\ WF_vars(OfProcs(ThreadSteps)) /\ WF_vars(OfProcs(Ready \/ Deadline))
    /\ WF_vars(OfProcs(BodyRuns))

Spec == Init /\ [][Next]_vars /\ Fairness
=============================================================================
