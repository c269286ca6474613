SPECIFICATION PollerSpec
CONSTANTS
    Sessions <- MCSessions
    Withdrawals <- MCWithdrawals
    Chain <- MCChain
    Unsent = {5, 7}
    Old = {1, 5}
    Limit = 1
    MaxScanFaults = 1
    Jobs = 2
    Slots = 1
    EarlierBatch <- MCEarlierBatch
    Arriving = {2}
INVARIANTS
    SlotsAccounted
    SkipsAreDepartures
    RepeatsAreArrivals
PROPERTIES
    ImplementsPool
    BatchReturns
    QuietWalksReachAll
