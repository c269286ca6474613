SPECIFICATION FreshSpec
CONSTANTS
    x1 = x1
    x2 = x2
    x3 = x3
    x4 = x4
    u1 = u1
    w1 = w1
    w2 = w2
    NoWithdrawal = NoWithdrawal
    Users = {u1}
    Withdrawals = {x1, x2}
    Workers = {w1, w2}
    Owner <- SharedOwner
    Amount <- SharedAmount
    Reserved <- SharedReserved
    Funds <- SharedFunds
    ChainOf <- SharedChain
    Supported = {x1, x2}
    Matching = {x1, x2}
    Aging = {x2}
    Faulty = {}
    MaxRetries = 0
    MaxRows = 1
    MaxFaults = 0
    MaxCrashes = 0
    MaxBacklog = 1
SYMMETRY WorkerSymmetry
INVARIANTS
    Conserved
    ReleasedOnce
    ReservationHeld
