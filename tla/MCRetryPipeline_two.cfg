CONSTANTS
    WordBits = 8
    Second = 1
    Minute = 3
    Calls = {c1, c2}
    Methods = {"GET"}
    MaxAttempts = 2
    RetryWrites = FALSE
    Disabled = FALSE
    MinBackoff = 1
    MaxBackoff = 1
    Statuses = {200, 503}
    RetryAfters <- OneShort
    MaxRotations = 1
SPECIFICATION Spec
INVARIANT HooksPerAttempt
CHECK_DEADLOCK FALSE
