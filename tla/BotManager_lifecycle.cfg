SPECIFICATION FairSpec
CONSTANTS
    Users = {"u"}
    Pairs = {"p", "q"}
    Default = "p"
    FixedOf <- OneFixed
    Clients = {"c1", "c2"}
    Routes = {"start", "stop", "stopAll", "startAll", "view", "switch"}
    Trading = {}
    MaxPairsPerUser = 10
    MaxChoicePairs = 3
    MaxTotalBots = 120
    Chunk = 6
    Mishaps = {"create", "delist", "autoStop"}
    MaxRequests = 2
    MaxMishaps = 1
    MaxRestarts = 1
INVARIANTS NoGhost
PROPERTY KeptRunning
