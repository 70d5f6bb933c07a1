SPECIFICATION FairSpec
CONSTANTS
    Clients = {c1, c2}
    Readers = {r1, r2}
    Exclusive = TRUE
    RequireRegistration = TRUE
    MaxPackets = 2
    Tag <- SomeTags
    NumPackets = 3
INVARIANTS HeldIsAlive InOrder
PROPERTIES RemovedAreFreed
CHECK_DEADLOCK FALSE
