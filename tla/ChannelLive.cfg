SPECIFICATION FairSpec
CONSTANTS
    MaxId = 2
    MaxRetries = 1
    MaxStops = 0
    Timeouts = TRUE
    NowDuringSpawn = FALSE
    LongGrace = FALSE
PROPERTIES
    FrozenResumes
    NormalStarts
    NowStarts
