SPECIFICATION FairWalletSpec
CONSTANTS
    hot = hot
    cold = cold
    Hot = hot
    Cold = cold
    Node <- Pair
    Amounts = {2}
    Fee = 1
    Genesis <- Full
    FaucetAmount = 3
    FaucetNodes = {}
    CrashNodes = {cold}
    MaxSubmits = 4
    MaxCache = 3
    Threshold = 2
    RefillAmount = 2
    MaxRequests = 1
    MaxFailures = 1
    MaxU64 = 31
    MaxBalance = 15
    MaxTransfer = 2
    MaxTxPerHour = 9
    MaxOutbound = 9
    HourMs = 3
    MaxStoredEvents = 9
    MinWitnesses = 1
INVARIANTS
    RepaidOnlyByFailure
PROPERTIES
    CapRestored
    
CHECK_DEADLOCK FALSE
