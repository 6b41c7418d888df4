SPECIFICATION MeshSpec
CONSTANTS
    a = a
    b = b
    c = c
    Nobody = Nobody
    Node = {a, b, c}
    FirstLinks <- Line
    Pairs <- Line
    MaxHops = 8
    MaxRelayFanout = 2
    Fanout = 1
    RateLimit = 1
    StrikeLimit = 2
    Kinds = {}
    SyncPairs = {}
    IdsBatch = 1
    DataBatch = 1
    Collide = {}
    MaxSync = 2
    MaxMessages = 1
    MaxFaults = 0
    MaxLosses = 0
    MaxTime = 0
INVARIANTS
    RelayedVerifies
CHECK_DEADLOCK FALSE
