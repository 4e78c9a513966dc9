SPECIFICATION FilesSpec
CONSTANTS
    None = None
    Absent = Absent
    Includes <- MCIncludes
    Paths <- MCPaths
    AutoApply <- MCAutoApply
    Sources <- MCSources
    Macros = {"macros/run.mac"}
    Template <- MCTemplate
    Edits <- MCEdits
    Builds <- MCBuilds
    Succeeds <- MCSucceeds
    Writes <- MCWrites
    Deposits <- MCDeposits
    Expected = 2
    Asked = {1}
    Cases <- MCCases
    HandEvents = {1}
    MaxEdits = 1
    MaxPasses = 2
    MaxCopies = 1
INVARIANTS
    PassedIsReproducible
    AppliedIsGated
    ValidationIsSound
    HardeningIsRepeatable
