CONSTANTS
    Images = {"a", "b"}
    Tasks = {1, 2}
    Updates = 4
    Resets = 3
SPECIFICATION FairSpec
INVARIANTS
    Inv
PROPERTIES
    ConfirmedStays
    TrialEnds
CHECK_DEADLOCK FALSE
