CONSTANT
    Setups <- MCSetups
SPECIFICATION FairSpec
INVARIANTS
    Inv
    BleWindowClean
PROPERTIES
    AllReturn
CHECK_DEADLOCK FALSE
