SPECIFICATION RevSpec
CONSTANTS
    j1 = j1
    j2 = j2
    p1 = p1
    p2 = p2
    r1 = r1
    f1 = f1
    f2 = f2
    None = None
    Jobs <- MCJobs
    Projects <- MCProjects
    Default = p1
    Revs <- MCRevs
    Files <- MCFiles
    Code = 1
    Last = 2
CONSTRAINT MCBound
SYMMETRY MCSymmetry
INVARIANTS
    ResumedIsTrue
    CompletedIsWhole
PROPERTIES
    AcceptedIsTheCandidate
