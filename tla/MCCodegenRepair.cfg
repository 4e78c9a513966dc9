SPECIFICATION Spec
CONSTANTS
    RouteLimit = 2
    DefaultTurns = 3
    Increment = 1
    RecursionLimit = 25
    TurnBound = 5
    Fixes <- MCFixes
    Projects <- MCProjects
    Contexts <- MCContexts
    PromptLimit = 18
    FilesLimit = 16
    FileLimit = 12
    ShortLimit = 5
    TinyLimit = 3
    Capped = 6
    Note = 1
INVARIANTS
    LimitOnlyIfExhausted
    PauseIsAnswerable
PROPERTIES
    HandsOnFairly
    AgentIsToldWhy
    AnswersThePipeline
