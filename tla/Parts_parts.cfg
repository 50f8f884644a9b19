SPECIFICATION Spec
CONSTANTS
    Zone = {2, 3}
    FlipMin = 3
    MaxTouches = 2
    Styles <- SomeStyles
    Troubles = {"refused", "unread", "crash"}
    MaxTroubles = 1
    MaxPositions = 1
    MaxMoves = 4
    LastRelease = 2
    Mishaps = {"net", "busy", "kill", "direct"}
    MaxMishaps = 2
    Bodies = {b1, b2, b3}
    NoProc = NoProc
    HealthAnswers = TRUE
    Guarded = TRUE
    Hectic = FALSE
    Codes = {s, r}
    Subs = {s}
    SubDays = 2
    Grace = 2
    MaxDay = 4
    Keys = {k1, k2}
    NoKey = NoKey
    Pairs = {btc, eth}
    Btc = btc
    Tokens = {t1, t2}
    TTL = 2
    MaxClock = 3
    KeepCopies = 3
    LastDay = 5
    Allocations <- TwoChunks
    TriggerTarget = 1
    Quotes = {1, 2, 3}
    Timeframe = 2
    PauseAfter = 2
    PauseMinutes = 3
    MaxLoss = 5
    TrailingModes = {"moving_target", "percent_below_highest"}
    MaxMinutes = 10
    MaxGap = 1
INVARIANTS HalfOnce HeldIsKnown BodyKept OneBodyServes Remembered StopFromPast
PROPERTIES StopOnlyTightens FlipHappens UpdateArrives NotStranded OpensRightly EntersWithinRisk
CHECK_DEADLOCK FALSE
