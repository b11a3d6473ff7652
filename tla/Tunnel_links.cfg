SPECIFICATION FairSpec
CONSTANTS
    Agents = {a1}
    MaxConns = 3
    MaxCuts = 1
    MaxStalls = 1
    MaxErrors = 1
    MaxCrashes = 2
    MaxStops = 2
    MaxFaults = 2
    Nil = Nil
INVARIANTS
    TypeOK
    OneLink
    LiveIsListed
PROPERTIES
    ProvidesLinks
    GoneNodesLeave
    Reconnects
    ShutdownEnds
