CONSTANTS
    s1 = s1
    s2 = s2
    s3 = s3
    Setups <- TwoSetups
    DirOf <- TwoDirs
    User = User
    NoSetup = NoSetup
    FaultKinds = {"auth", "write", "strip"}
    MaxFaults = 2
    MaxUserTrades = 0
    ApiRequests = {"emergency", "uiClose", "stop"}
SPECIFICATION Spec
INVARIANTS NoPhantom OneExposure CloseBacked
