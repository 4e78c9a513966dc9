SPECIFICATION FairSpec
CONSTANTS
    MaxBatch = 2
    RepeatLimit = 2
    Diagnostics <- MCDiagnostics
    MaxTurns = 3
    MaxStalls = 1
    GivesIds = TRUE
    Chars <- MCChars
    Period = 3
    CallChars = 9
    MaxHistory = 70
    Threshold = 60
    AnswerTokens = 5
    RecentResults = 1
    ToolLimits <- MCToolLimits
    PlainLimits <- MCPlainLimits
    Frame = 2
    Mark = 1
INVARIANTS
    ConversationIsWellFormed
    GivesUpOnRepetition
    ResultIsTrue
PROPERTIES
    Ends
CHECK_DEADLOCK FALSE
