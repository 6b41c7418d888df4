SPECIFICATION Spec
CONSTANTS
    a = a
    b = b
    c = c
    p1 = p1
    p2 = p2
    p3 = p3
    Address <- MCAddress
    Peer <- MCPeer
    Submitted <- MCSubmitted
    Carried <- MCCarried
    GenesisAmounts = {3}
    MaxU64 = 7
    MaxBalance = 5
    MaxTransfer = 2
    MaxTxPerHour = 2
    MaxOutbound = 3
    HourMs = 3
    MaxStoredEvents = 2
    MinWitnesses = 2
SYMMETRY PeerSymmetry
INVARIANTS
    BalanceCapped
    NoncesSpentOnce
    PendingIsUnconfirmed
    ValueConserved
    
CHECK_DEADLOCK FALSE
