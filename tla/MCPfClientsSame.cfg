SPECIFICATION Spec
CONSTANTS
    c1 = c1
    c2 = c2
    k1 = k1
    k2 = k2
    None = None
    Conns = {c1, c2}
    Keys = {k1}
    KeyOf <- SameKey
    w1 = w1
    w2 = w2
    Workers = {w1, w2}
    Writable = {c1, c2}
    MaxConnections = 2
    MaxBurst = 2
SYMMETRY Symmetry
INVARIANTS FoundIsAlive
CHECK_DEADLOCK FALSE
