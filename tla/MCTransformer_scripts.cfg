SPECIFICATION FairSpec
CONSTANTS
    Callers = {c1, c2}
    Strings <- MCStrings
    Cut <- MCCut
    Results <- MCResults
    Empty = ""
    Trap = Trap
    Inputs <- MCInputs
    Garbage <- MCGarbage
    MaxCalls = 2
INVARIANTS
    TypeOK
    FreedOnce
    OnlyRefusedLeaks
    
PROPERTIES
    ServesCalls
    CallsEnd
