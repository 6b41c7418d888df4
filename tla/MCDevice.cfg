CONSTANTS
    MaxSecret = 4
    MaxRingKey = 2
    App = {a1, a2}
    Official = a1
    MaxStoreOps = 3
    Call = {c1, c2}
    Key = {k1, k2, k3}
    MaxKeys = 1
    MaxCallRate = 3
    MaxBroadcastRate = 1
    SessionTtl = 1
    CapTtl = 2
    RateWindow = 1
    BroadcastWindow = 1
    MaxTick = 3
    MaxMoves = 3
    Device = {a, b, c}
    Author = {a}
    MaxPosts = 1
    MaxScopeOps = 3
    Peer = {p, q}
    Me = me
    Capacity = 2
    MaxArrivals = 3
    MaxInboxOps = 2
    MaxInstant = 2
    Self = me
    Person = {p, q}
    Ttl = 0
    MaxNearby = 2
    MaxProxInbox = 1
    MaxProxTick = 1
    MaxPayloads = 3
    MaxProxOps = 3
    Addr = {x, y, bad}
    BadAddr = {bad}
    Relay = relay
    MaxDialOps = 4
    MaxStarts = 3
    MaxShellOps = 2
    SimNode = {n1, n2}
    SimMessage = {m1}
    Latency = {0, 2}
    NoLink = NoLink
    Budget = 2
    SecondLength = 2
    MaxSimTime = 1
    MaxSends = 3
    MaxHarnessOps = 1

SPECIFICATION DeviceSpec

INVARIANTS
    SecretsStable
    InstalledFilesComplete
    
    
    RateBounded
    QuotaOvershootBounded
    CopiesTakenIn
    
    DecisionsStick
    ArrivedAccounted
    MessagesWereMutual
    StopIsFinal
    AddedStayTargets
    DirectoryServedOnce
    CopiesConserved
    LinksAreHonest


    
    

CHECK_DEADLOCK FALSE
