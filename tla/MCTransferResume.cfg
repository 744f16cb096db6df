SPECIFICATION FairSpec
CONSTANTS
    Nodes <- MCNodes
    Capacity = 4
    Data <- MCData
    Manifest <- MCManifest
    Sources <- MCOneSource
    MaxCalls = 2
    MaxDrops = 1
    Deadlines = FALSE
PROPERTIES
    InterruptedTransferResumes
CHECK_DEADLOCK FALSE
