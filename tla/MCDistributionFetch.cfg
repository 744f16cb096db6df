SPECIFICATION Spec
CONSTANTS
    Nodes <- MCNodes
    Capacity = 3
    Packages <- MCPackages
    Published <- MCPublished
    Wanted <- MCWanted
    Calls = {1, 2}
    Sessions = {3, 4}
    MaxDrops = 0
    Nil = Nil
INVARIANTS
    FetchedArtifactsAreTheirOwn
CHECK_DEADLOCK FALSE
