CONSTANTS
    QueueLen = 32
    Flood = FALSE
    MaxFlaps = 4
SPECIFICATION FairSpec
INVARIANTS
    Inv
    AddressBringsClient
    LossEndsClient
PROPERTIES
    LoopReturns
    MqttComesUp
CHECK_DEADLOCK FALSE
