CONSTANTS
    Verbs = {"GET", "DELETE", "POST"}
    Attempts = 2
    RetryWrites = FALSE
    MaxCalls = 3
    Answers <- AllAnswers
SPECIFICATION Spec
CHECK_DEADLOCK FALSE
INVARIANTS
    SentinelsNest
    AnswersAgree
    GaveUpForGood
    CancelEndsRequeue
