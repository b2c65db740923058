CONSTANTS
    Magic <- MCMagic
    MaxPayload = 2
    Bytes = {0, 1, 2, 3}
    MaxStream = 7
    MaxChunk = 2
SPECIFICATION ReaderSpec
INVARIANTS
    FindsTheFrames
    BoundedBuffer
CHECK_DEADLOCK FALSE
