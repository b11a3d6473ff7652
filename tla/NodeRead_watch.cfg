SPECIFICATION Spec
CONSTANTS
    Ends = {2}
    Tails = {TRUE}
    BatchSize = 2
    Blank = Blank
    Window = 1
    MaxStored = 2
    MaxAsks = 1
    MaxFaults = 1
INVARIANT WatchWaits
