SPECIFICATION FairSpec
CONSTANTS
    PairLimit = 1
    ProfitLimit = 1
    Setups <- ThreeSetups
    DirOf <- Directions
    Mmbm = {3}
    Forced = 9
    Scenes <- SomeScenes
    Aligned = TRUE
PROPERTIES DailyStop RepeatNeedsOther GateIsTemporary
CHECK_DEADLOCK FALSE
