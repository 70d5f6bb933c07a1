SPECIFICATION FairSpec
CONSTANTS
    c1 = c1
    c2 = c2
    k1 = k1
    k2 = k2
    None = None
    Conns = {c1, c2}
    Keys = {k1, k2}
    KeyOf <- OneEach
    w1 = w1
    w2 = w2
    Workers = {w1, w2}
    Writable = {c1}
    MaxConnections = 2
    MaxBurst = 1
INVARIANTS UsageIsHolders NoUseAfterFree
PROPERTIES Reclaimed
CHECK_DEADLOCK FALSE
