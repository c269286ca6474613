SPECIFICATION FreshFairSpec
CONSTANTS
    s1 = s1
    s2 = s2
    s3 = s3
    s4 = s4
    s5 = s5
    u1 = u1
    w1 = w1
    w2 = w2
    NoSession = NoSession
    Sessions = {s1}
    Users = {u1}
    Workers = {w1, w2}
    Owner <- OneOwner
    Cents <- OneCents
    ChainOf <- OneChain
    Supported = {s1}
    Transfers <- OneTransfers
    Aging = {s1}
    Faulty <- Recoverable
    MaxRetries = 0
    MaxFaults = 1
    MaxCrashes = 0
    MaxBacklog = 1
PROPERTIES
    PaidSessionsSettle
