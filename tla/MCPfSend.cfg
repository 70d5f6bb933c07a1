SPECIFICATION FairSpec
CONSTANTS
    Packets <- FourPackets
    SizeOf <- Sizes
    Broadcast = {2, 4}
    BufferSize = 5
    SendBufferSize = 2
    MaxIo = 2
INVARIANTS SendsWhatItTook
PROPERTIES FlushedInTheEnd
CHECK_DEADLOCK FALSE
