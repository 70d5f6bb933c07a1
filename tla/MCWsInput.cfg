SPECIFICATION Spec
CONSTANTS
    Chunk = {a, b}
    MaxChunks = 4
INVARIANTS
    NothingLost
    SleepsOnlyWhenDone
PROPERTIES
    
    
    ImplementsPipe
\* A connection whose task thread left TaskExcute, or sleeps after the close,
\* takes no further step.
CHECK_DEADLOCK FALSE
