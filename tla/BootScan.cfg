CONSTANTS
    Scans = {s1, s2}
    BaseWait = 4
    ScanTimeout = 5
    ScanTime = 3
SPECIFICATION FairSpec
INVARIANTS
    Inv
PROPERTIES
    BootWaits
    AdvertisingReturns
    StationConnects
CHECK_DEADLOCK FALSE
