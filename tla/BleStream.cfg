CONSTANTS
    Magic <- MCMagic
    MaxPayload = 6
    QueueDepth = 2
    Lengths = {1, 5, 6}
    MaxSize = 5
    Chunks = {3, 4}
    MaxLinks = 2
    MaxCaptured = 4
SPECIFICATION BleSpec
INVARIANT
    ForgedByTearing
PROPERTY
    BleFifoSpec
CHECK_DEADLOCK FALSE
