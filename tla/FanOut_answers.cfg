SPECIFICATION FairSpec
CONSTANTS
    Nodes = {n1, n2}
    MaxReplies = 2
    MaxFaults = 2
INVARIANTS
    IndInv
    InOrder
    NoneDropped
    CutOnlyByFault
    WaitIsComplete
PROPERTY CancelEnds
