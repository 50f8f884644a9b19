SPECIFICATION Spec
CONSTANTS
    Wing = 1
    ObWing = 1
    MinGap = 1
    Lookback = 2
    Confirm = 2
    WindowOf <- TwoWindows
    StaleBars = 5
    Window = 4
    Ttl = 3
    HourBars = 4
    MinBars = 5
    MinExtra = 5
    MaxPrice = 3
    MaxBars = 5
    Prices <- SomePrices
    Frames <- ManyFrames
INVARIANTS TargetIsDraw StructureSound ClosedBarsStand TradesStand
CHECK_DEADLOCK FALSE
