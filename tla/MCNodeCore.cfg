SPECIFICATION NodeSpec
CONSTANTS
    p1 = p1
    p2 = p2
    p3 = p3
    Peer = {p1, p2, p3}
    MaxPeers = 2
    MaxConns = 3
    PendingCap = 2
    Budget <- SmallBudget
    MaxMessages = 2
    MaxRelayFanout = 2
    RelayPriority = {2}
    EnergyStates = {"Active", "Passive"}
SYMMETRY Symmetry
INVARIANTS
    QueueSound
    DirectPeersSound
PROPERTIES
    LowestEvicted
CHECK_DEADLOCK FALSE
