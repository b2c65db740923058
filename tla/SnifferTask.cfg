CONSTANTS
    Callers = {"console"}
    QueueLen = 2
    MaxFrames = 2
    MaxStarts = 3
SPECIFICATION FairSpec
INVARIANTS
    Inv
    LeftItemsFreed
    
PROPERTIES
    FifoSpec
    
CHECK_DEADLOCK FALSE
