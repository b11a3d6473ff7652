SPECIFICATION FairSpec
CONSTANTS
    Ends = {2, 3}
    Tails = {FALSE, TRUE}
    BatchSize = 2
    Blank = Blank
    Window = 1
    MaxStored = 3
    MaxAsks = 2
    MaxFaults = 2
PROPERTIES
    QueryEnds
    Follows
INVARIANTS
    TypeOK
    CutAtOffset
    EndIsComplete
