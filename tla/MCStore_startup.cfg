SPECIFICATION Spec
CONSTANTS
    URIs = {u1}
    Writers = {w1}
    Readers = {r1}
    MaxFiles = 6
    MaxSize = 2
    BatchLimit = 1
    WriteSizes = {1, 2}
    Starts = {0}
    Ends = {9}
    Nil = Nil
    MaxCalls = 2
    MaxReads = 1
    MaxFaults = 0
    MaxStops = 1
INVARIANTS
    StartupSucceeds
