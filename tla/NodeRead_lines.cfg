SPECIFICATION Spec
CONSTANTS
    Ends = {2}
    Tails = {FALSE}
    BatchSize = 2
    Blank = Blank
    Window = 1
    MaxStored = 2
    MaxAsks = 1
    MaxFaults = 1
INVARIANT LinesAreRecords
