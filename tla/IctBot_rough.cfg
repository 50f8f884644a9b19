CONSTANTS
    s1 = s1
    s2 = s2
    s3 = s3
    Setups <- TwoSetups
    DirOf <- TwoDirs
    User = User
    NoSetup = NoSetup
    FaultKinds = {"auth", "net", "write", "ack", "cancel", "strip"}
    MaxFaults = 1
    MaxUserTrades = 1
    ApiRequests = {"cancel"}
SPECIFICATION FairSpec

PROPERTY PendingResolves
