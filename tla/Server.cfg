SPECIFICATION ServerSpec
CONSTANTS
    good = good
    forged = forged
    Secret = "secret"
    NoSecret = ""
    NoToken = NoToken
    Tokens = {good, forged}
    MaxNow = 1
    ClaimsOf <- MCClaimsOf
    Requests = {r1, r2}
    Calls <- MCCalls
    BroadcastCap = 1
    RegisterCap = 1
INVARIANTS
    GracefulMeansAnswered
PROPERTIES
    ShutdownEnds
    AnsweredUnlessStuck
CHECK_DEADLOCK FALSE
