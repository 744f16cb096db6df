SPECIFICATION FairSpec
CONSTANTS
    WorkPackages = {1, 2, 3}
    DependsOn <- MCDependsOn
    Requires <- MCRequires
    Workers <- MCWorkers
    InitialWorkers <- MCInitialWorkers
    Permitted = {"write"}
    KnownCapabilities = {"write", "deploy"}
    Outcomes <- MCOutcomes
    NoHash = NoHash
INVARIANTS
    TypeOK
    EventsRespectDependencies
    CompletedPassedGates
    GraphAndAssignmentsAgree
    TelemetryMatchesResults
PROPERTIES
    VerdictsAreFinal
    ImplementsSupervisedRun
    ReadyWorkSettles
    ApprovedWorkSettles
