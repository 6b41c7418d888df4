SPECIFICATION MeshSpec
CONSTANTS
    a = a
    b = b
    c = c
    Nobody = Nobody
    Node = {a, b, c}
    FirstLinks <- Triangle
    Pairs <- Triangle
    MaxHops = 2
    MaxRelayFanout = 2
    Fanout = 1
    RateLimit = 1
    StrikeLimit = 2
    Kinds = {"gossip"}
    SyncPairs = {}
    IdsBatch = 1
    DataBatch = 1
    Collide = {}
    MaxSync = 2
    MaxMessages = 2
    MaxFaults = 1
    MaxLosses = 0
    MaxTime = 1
SYMMETRY Symmetry
INVARIANTS
    DeliveredOnce
    FloodBounded
CHECK_DEADLOCK FALSE
