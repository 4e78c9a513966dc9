SPECIFICATION AnyFrontEnd
VIEW Read
CONSTANTS
    GateRetryLimit = 2
    PatchRetryLimit = 1
    CounterBound = 0
    FailingGates <- MCFewFailingGates
    GuardedFrontEnd = FALSE
INVARIANTS
    RetriesSurvive
