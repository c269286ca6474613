SPECIFICATION FairSpec
CONSTANTS
    u1 = u1
    u2 = u2
    c1 = c1
    c2 = c2
    a = a
    NoUser = NoUser
    Users = {u1, u2}
    Conns = {c1, c2}
    UserOf <- TwoOfOne
    Senders = {a}
    Sendable <- AllSorts
    RegisterCap = 1
    UnregisterCap = 1
    BroadcastCap = 1
    MaxMessages = 3
CHECK_DEADLOCK FALSE
INVARIANTS
    Consistent
    OnlyOwnMessages
    InOrder
    ClosedOrKnown
    GhostsOvertook
PROPERTIES
    SendersGoOn
    GoneAreClosed
