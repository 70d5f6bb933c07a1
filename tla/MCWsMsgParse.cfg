SPECIFICATION Spec
CONSTANTS
    Streams <- AllStreams
    StaleLens = {0, 1, 9}
    MaxDelivered = 3
INVARIANTS InSync WaitsForGoodReason DeliveredInOrder
PROPERTIES JamIsForever EventuallyDelivered ImplementsMsgStream
\* The whole stream may have arrived and been handed over.
CHECK_DEADLOCK FALSE
