SPECIFICATION StepsSpec
CONSTANTS
    a = a
    b = b
    c = c
    p1 = p1
    p2 = p2
    t1 = t1
    t2 = t2
    Thread = {t1, t2}
    MaxCrashes = 0
    Address <- MCAddress
    Peer <- MCPeer
    Submitted <- MCSubmitted
    Carried = {{}}
    GenesisAmounts = {3}
    MaxU64 = 7
    MaxBalance = 5
    MaxTransfer = 2
    MaxTxPerHour = 2
    MaxOutbound = 3
    HourMs = 3
    MaxStoredEvents = 2
    MinWitnesses = 2
SYMMETRY Symmetry
INVARIANTS
    OneTransactionPerNonce
CHECK_DEADLOCK FALSE
