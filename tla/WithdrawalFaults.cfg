SPECIFICATION AllSpec
CONSTANTS
    x1 = x1
    x2 = x2
    x3 = x3
    x4 = x4
    u1 = u1
    w1 = w1
    w2 = w2
    NoWithdrawal = NoWithdrawal
    Users = {u1}
    Withdrawals = {x1, x2, x3, x4}
    Workers = {w1, w2}
    Owner <- AllOwner
    Amount <- AllAmount
    Reserved <- AllReserved
    Funds <- Rich
    ChainOf <- AllChain
    Supported = {x1, x3, x4}
    Matching = {x1, x2, x3, x4}
    Aging = {x1, x2, x3, x4}
    Faulty <- FaultPoints
    MaxRetries = 1
    MaxRows = 2
    MaxFaults = 1
    MaxCrashes = 1
    MaxBacklog = 1
SYMMETRY WorkerSymmetry
INVARIANTS
    TypeOK
    DebitedOnce
    NeverFailedAndDebited
    FailedIsReleased
    CompletedMeansSettled
    StrandedForAReason
