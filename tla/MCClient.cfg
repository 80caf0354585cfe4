CONSTANTS
    WordBits = 6
    MaxDigits = 0
    Null = Null
    Default = Default
    Kept = Kept
    Options <- AllOptions
    MaxOptions = 3
    Calls <- AllCalls
    Probes <- FewCalls
    RawPaths <- SomeRawPaths
    LocalToday <- Thursday
SPECIFICATION Spec
INVARIANTS
    ConfigContract
    OwnRoute
    SentWithinBounds
    RefusedForCause
    SentAsAsked
