SPECIFICATION FairRelaySpec
CONSTANTS
    p1 = p1
    p2 = p2
    Peer = {p1, p2}
    MaxConnections = 3
    MaxReservations = 2
    MaxToggles = 2
    MaxLosses = 1
INVARIANTS
    ListedReachable
    OptOutHeard
PROPERTIES
    EnabledListed
CHECK_DEADLOCK FALSE
