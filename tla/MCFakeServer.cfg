CONSTANTS
    WordBits = 6
    MaxDigits = 0
    Null = Null
    Tests = {t1, t2}
    Faults <- FewFaults
    MaxFails = 2
    Attempts = 2
    RetryWrites = FALSE
    Calls <- AllCalls
    Shared <- FewCalls
SPECIFICATION Spec
INVARIANTS
    FaultFailsOnce
    FaultReachesItsTest
    FixtureOfItsOperation
