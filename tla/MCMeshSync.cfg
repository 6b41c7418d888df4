SPECIFICATION FairMeshSpec
CONSTANTS
    a = a
    b = b
    c = c
    Nobody = Nobody
    Node = {a, b}
    FirstLinks <- Pair
    Pairs <- Pair
    MaxHops = 3
    MaxRelayFanout = 2
    Fanout = 1
    RateLimit = 1
    StrikeLimit = 2
    Kinds = {}
    SyncPairs <- Both
    IdsBatch = 2
    DataBatch = 2
    Collide = {}
    MaxSync = 1
    MaxMessages = 2
    MaxFaults = 1
    MaxLosses = 1
    MaxTime = 0
PROPERTIES
    SyncSpreads
CHECK_DEADLOCK FALSE
