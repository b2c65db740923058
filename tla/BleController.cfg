CONSTANTS
    Starts = 2
    MaxLinks = 3
    Faults = 2
SPECIFICATION FairSpec
INVARIANTS
    Inv
    StopCloses
    UiHonest
PROPERTIES
    WatchdogSafe
    Reconnects
CHECK_DEADLOCK FALSE
