SPECIFICATION FairSpec
CONSTANTS
    Steps <- MCSteps
    Cases <- MCCases
    Retries = {0, 1}
    MaxResumes = 3
    MaxCrashes = 1
INVARIANTS
    TypeOK
    CompiledOrderIsTopological
    DependenciesFirst
    CompleteRunsAreFinished
    AttemptsAccumulate
PROPERTIES
    FinishedWorkIsKept
    RunReturns
CHECK_DEADLOCK FALSE
