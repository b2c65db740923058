CONSTANTS
    Magic <- MCMagic
    MaxPayload = 4
    Sizes = {1, 4, 5}
    Chatter = TRUE
    Stalls = TRUE
    MaxPackets = 4
SPECIFICATION UsbSpec
INVARIANTS
    EveryPacketHeard
    Resync
CHECK_DEADLOCK FALSE
