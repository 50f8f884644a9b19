SPECIFICATION FairSpec
CONSTANTS
    Users = {"u"}
    Pairs = {"p", "f", "g"}
    Default = "p"
    FixedOf <- OwnFixed
    Clients = {"c1"}
    Routes = {"start", "switch", "runMode"}
    Trading = {"p"}
    MaxPairsPerUser = 10
    MaxChoicePairs = 3
    MaxTotalBots = 2
    Chunk = 2
    Mishaps = {"create"}
    MaxRequests = 2
    MaxMishaps = 1
    MaxRestarts = 0
PROPERTY ModelConverges
