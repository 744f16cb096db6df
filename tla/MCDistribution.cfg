SPECIFICATION FairSpec
CONSTANTS
    Nodes <- MCNodes
    Capacity = 3
    Packages <- MCPackages
    Published <- MCPublished
    Wanted <- MCWanted
    Calls = {1, 2}
    Sessions = {3, 4}
    MaxDrops = 1
    Nil = Nil
INVARIANTS
    TypeOK
    StoredPayloadsAreWhole
    UndisturbedExchangesDeliver
PROPERTIES
    UndisturbedExchangesEnd
CHECK_DEADLOCK FALSE
