SPECIFICATION FairSpec
CONSTANTS
    Allocations <- TwoTargets
    TriggerTarget = 1
    Ranks = {1, 2}
    Modes = {"moving_target"}
    Timeouts = FALSE
    Dust = 1
    Troubles <- TwoKinds
INVARIANTS OneEntry SoldOnce
PROPERTIES StopFires
CHECK_DEADLOCK FALSE
