SPECIFICATION NetSpec
CONSTANTS
    n1 = n1
    n2 = n2
    n3 = n3
    Node <- MCNode
    Amounts = {1}
    Fee = 1
    Genesis <- Funded
    FaucetAmount = 3
    FaucetNodes = {n2}
    CrashNodes = {n1}
    MaxSubmits = 2
    MaxU64 = 15
    MaxBalance = 6
    MaxTransfer = 2
    MaxTxPerHour = 9
    MaxOutbound = 9
    HourMs = 3
    MaxStoredEvents = 9
    MinWitnesses = 2
INVARIANTS
    
    WitnessesAccepted
    
CHECK_DEADLOCK FALSE
