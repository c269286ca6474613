SPECIFICATION FreshFairSpec
CONSTANTS
    x1 = x1
    x2 = x2
    x3 = x3
    x4 = x4
    u1 = u1
    w1 = w1
    w2 = w2
    NoWithdrawal = NoWithdrawal
    Users = {u1}
    Withdrawals = {x1}
    Workers = {w1}
    Owner <- OneOwner
    Amount <- OneAmount
    Reserved <- OneReserved
    Funds <- Rich
    ChainOf <- OneChain
    Supported = {x1}
    Matching = {}
    Aging = {}
    Faulty = {}
    MaxRetries = 1
    MaxRows = 1
    MaxFaults = 0
    MaxCrashes = 0
    MaxBacklog = 1
PROPERTIES
    UnmatchedAreFailed
