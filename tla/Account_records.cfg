\* Records: write failures, torn lines and failed reads, or crashes.  Sizes: one or two
\* symbols.  Bars: two bots.
\* Keys: one of the bots of a user.
SPECIFICATION Spec
CONSTANTS
    MaxTrades = 3
    Trades <- SomeTrades
    MaxTime = 5
    Tol = 1
    Gap = 2
    FaultKinds = {"write", "torn", "fetch", "read"}
    MaxFaults = 2
    MaxCrashes = 2
    Mixed = FALSE
    QuietStart = TRUE
    Symbols = {btc, eth}
    Price = 100
    Leverage = 10
    Distances = {2, 5}
    Widening = 200
    Percents = {20}
    PositionMax = 60
    Votes = {0, 3}
    DdPct = 25
    DdFactor = 70
    MinQty = 5
    MinRatio = 50
    Deposit = 500
    Results <- SomeResults
    MaxEntries = 2
    Sharers = {b1, b2}
    Depth = 3
    RefreshTail = 1
    LastBar = 5
    Threshold = 2
    Refusals = {"expired", "invalid"}
    BarsRefused = TRUE
INVARIANTS ThrottleSurvives RefusedOnlyByRace
PROPERTIES KeepsBook ExitBooked KeepsBars KeyStops
CHECK_DEADLOCK FALSE
