CONSTANTS
    s1 = s1
    s2 = s2
    s3 = s3
    Setups <- TwoSetups
    DirOf <- TwoDirs
    User = User
    NoSetup = NoSetup
    FaultKinds = {"auth"}
    MaxFaults = 1
    MaxUserTrades = 0
    ApiRequests = {}
SPECIFICATION FairSpec
PROPERTY RecoveryRetried
