SPECIFICATION Spec
CONSTANTS
    Cli = {c1, c2}
    MaxData = 1
    MaxMsgs = 1
INVARIANTS
    RefCountIsHolders
    NoUseAfterFree
    SweepLeavesNoClosed
PROPERTIES
    ClosedLeavesVector
    
CHECK_DEADLOCK FALSE
