SPECIFICATION FairSpec
CONSTANTS
    Ingresses = {i1, i2}
    MaxSent = 2
    MaxFaults = 2
INVARIANTS
    TypeOK
    StoredInOrder
    NoneLost
PROPERTIES
    RunsUntilStopped
    StopEnds
