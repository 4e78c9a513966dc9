SPECIFICATION SpecJob
CONSTANTS
    NoMother = "none"
    Gap = 1
    Clearance = 2
    Nothing = Nothing
    Requests <- MCRequests
    Drafts <- MCDrafts
    Physics = {"drafted"}
    Tables = {"si", "air"}
    Many = 3
    Outcomes <- MCOutcomes
    Shelves <- MCShelves
    Leftovers <- MCLeftovers
INVARIANTS
    RepairContains
    PassedCanMeasure
    ConfirmedSourceBinds
CHECK_DEADLOCK FALSE
