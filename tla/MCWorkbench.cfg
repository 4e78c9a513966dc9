SPECIFICATION FairSpec
CONSTANTS
    j1 = j1
    j2 = j2
    w1 = w1
    w2 = w2
    None = None
    Jobs <- MCJobs
    Workers <- MCWorkers
    Codegen = 1
    Last = 2
INVARIANTS
    JobsInOrder
    AwaitedMeansStopped
PROPERTIES
    ApprovalIsActedOn
CONSTRAINT MCLimit
ACTION_CONSTRAINT MCOneCrossing
