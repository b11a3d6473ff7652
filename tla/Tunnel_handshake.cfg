SPECIFICATION FairSpec
CONSTANTS
    Agents = {a1}
    MaxConns = 3
    MaxCuts = 1
    MaxStalls = 1
    MaxErrors = 0
    MaxCrashes = 0
    MaxStops = 0
    MaxFaults = 4
    Nil = Nil
PROPERTIES
    ReProvided
