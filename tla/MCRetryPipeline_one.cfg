CONSTANTS
    WordBits = 8
    Second = 1
    Minute = 3
    Calls = {c1}
    Methods = {"GET", "POST", "DELETE"}
    MaxAttempts = 3
    RetryWrites = FALSE
    Disabled = FALSE
    MinBackoff = 1
    MaxBackoff = 2
    Statuses = {200, 404, 429, 500, 504}
    RetryAfters <- ShortAndLong
    MaxRotations = 1
SPECIFICATION FairSpec
INVARIANTS
    TypeOK
    AtMostOnce
    RefusedNeverApplies
    SuccessIsReal
    RetryAfterHonoured
    CancelEndsRetries
    GivesUpOnlyWhenSpent
PROPERTIES
    ImplementsContract
    EveryCallReturns
CHECK_DEADLOCK FALSE
