SPECIFICATION FairSpec
CONSTANTS
    Nodes <- MCNodes
    Capacity = 4
    Data <- MCData
    Manifest <- MCManifest
    Sources <- MCSources
    MaxCalls = 2
    MaxDrops = 1
    Deadlines = TRUE
INVARIANTS
    TypeOK
    OffersAreHeld
    NothingIsLost
    SuccessIsWhole
    QuietCallsSucceed
PROPERTIES
    CallsReturn
CHECK_DEADLOCK FALSE
