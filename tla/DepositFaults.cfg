SPECIFICATION AllSpec
CONSTANTS
    s1 = s1
    s2 = s2
    s3 = s3
    s4 = s4
    s5 = s5
    u1 = u1
    w1 = w1
    w2 = w2
    NoSession = NoSession
    Sessions = {s1, s2, s3, s4, s5}
    Users = {u1}
    Workers = {w1, w2}
    Owner <- AllOwner
    Cents <- AllCents
    ChainOf <- AllChain
    Supported = {s1, s2, s4, s5}
    Transfers <- AllTransfers
    Aging = {s1}
    Faulty <- FaultPoints
    MaxRetries = 1
    MaxFaults = 1
    MaxCrashes = 1
    MaxBacklog = 1
SYMMETRY WorkerSymmetry
INVARIANTS
    TypeOK
    CreditedOnce
    CreditsAreRecorded
    PaidBeforeRecorded
    CompletedMeansCredited
    StrandedForAReason
    NeverOverCredited
    NoLostCredit
PROPERTIES
    CompletedStays
