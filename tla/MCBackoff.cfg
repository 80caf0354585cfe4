CONSTANTS
    WordBits = 8
    Second = 2
    Minute = 24
    Durations <- SomeDurations
    Headers <- SomeHeaders
    MaxRetry = 9
SPECIFICATION WaitsSpec
INVARIANTS
    WaitBounded
    AdviceHonoured
PROPERTY CeilingNeverFalls
CHECK_DEADLOCK FALSE
