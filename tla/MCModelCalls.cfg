SPECIFICATION FairSpec
CONSTANTS
    Nobody = Nobody
    Callers = {worker, request}
    CallsEach = 2
    MaxRetries = 1
    Streaming = TRUE
    TimeoutsEnabled = TRUE
INVARIANTS
    ReturnedIsTrue
PROPERTY
    CallsEnd
