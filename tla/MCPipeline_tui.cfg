SPECIFICATION FairSpec
CONSTANTS
    GateRetryLimit = 5
    PatchRetryLimit = 4
    CounterBound = 6
    FailingGates <- MCFailingGates
    GuardedFrontEnd = TRUE
INVARIANTS
    JobInOrder
    AgreedBeforeBuilt
    ValidationIsRecorded
    DecisionsSurvive
PROPERTIES
    LoopTerminates
    LoopReturnExplained
    FulfilsContract
