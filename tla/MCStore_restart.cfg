SPECIFICATION Spec
CONSTANTS
    URIs = {u1}
    Writers = {w1, w2}
    Readers = {r1}
    MaxFiles = 8
    MaxSize = 2
    BatchLimit = 1
    WriteSizes = {1, 2}
    Starts = {0}
    Ends = {1, 9}
    Nil = Nil
    MaxCalls = 3
    MaxReads = 1
    MaxFaults = 1
    MaxStops = 2
INVARIANTS
    TypeOK
    BlockBound
    AckedReachable
    BatchAtomic
    StoredOnce
    ReadsInOrder
    NoWaitChains
PROPERTY Implements
SYMMETRY
    Symmetry
