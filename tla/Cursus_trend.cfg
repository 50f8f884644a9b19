CONSTANTS
    EntryQty = 4
    Targets = {1, 2, 3, 4}
    TrailFrom = 2
    Ttl = 0
    AuthStop = 1
    WriteStop = 3
    FaultKinds = {"auth", "net", "write", "ack", "cancel"}
    MaxFaults = 1
    MaxEntries = 2
    Gains <- SomeGains
    FirstEntry = {"long"}
    Mixed = FALSE
    MaxRequests = 1
    ApiRequests = {"uiClose", "stop", "crash"}
SPECIFICATION FairSpec
INVARIANTS OneEntry Accounted
PROPERTIES StopNeverBack NakedGetsProtected
