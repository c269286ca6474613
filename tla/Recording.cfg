SPECIFICATION RecordingSpec
CONSTANTS
    ExclusiveOr <- MCExclusiveOr
    Prices = {1, 3}
    MaxRetries = 3
    BackoffBases = {0, 1, 40}
    BaseURLs = {"mainnet-beta"}
    Mints <- MCMints
    Fractions <- MCFractions
    FractionsPerCent = 8
    Error = 1
    ListLimit = 2
    MaxRows = 2
    Subjects <- MCSubjects
    Histories <- MCHistories
    MaxAttempts = 3
CHECK_DEADLOCK FALSE
INVARIANTS
    RowsArePaid
    MismatchIsTruncation
    AtMostOneBurst
