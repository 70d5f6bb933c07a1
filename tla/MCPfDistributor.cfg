SPECIFICATION FairSpec
CONSTANTS
    Items = {i1, i2}
    Pushers = {p1}
    MaxWork = 1
INVARIANTS HoldsWhatItLists
PROPERTIES ServedWhilePushed LateAddIsServed StopEnds
CHECK_DEADLOCK FALSE
