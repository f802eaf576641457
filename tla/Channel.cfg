SPECIFICATION Spec
CONSTANTS
    MaxId = 3
    MaxRetries = 1
    MaxStops = 1
    Timeouts = FALSE
    NowDuringSpawn = FALSE
    LongGrace = FALSE
INVARIANTS
    OneAtATime
    Reachable
    NoOrphanFreeze
    CancelIsHonoured
    CleanStop
    StoppedRowsRecovered
PROPERTIES
    IsSerialQueue
