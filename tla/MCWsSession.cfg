SPECIFICATION Spec
CONSTANTS
    Clients <- AllClients
INVARIANTS
    MessagesAccounted
    SplitIsLost
PROPERTIES
    WholeIsUpgraded
    EchoesAll
\* The client sends no more, or the process is gone.
CHECK_DEADLOCK FALSE
