SPECIFICATION FairConsoleSpec
CONSTANTS
    None = None
    Requests = {q1, q2}
    MaxTurns = 2
PROPERTIES
    StartedAsApproved
    GivesWay
CHECK_DEADLOCK FALSE
