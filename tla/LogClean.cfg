SPECIFICATION FairSpec
CONSTANTS
    MaxId = 2
    Cleaners = {timer}
    Timer = timer
    MaxAge = 0
    MaxBytes = 1
    Keep = 1
    Hooks = {"post-job"}
    LogCap = 1
    Stuck = {1}
    MaxTime = 1
    MaxStops = 1
INVARIANTS
    OwnOutputOnly
PROPERTIES
    UnfinishedLogKept
    PlansAreRight
    LimitsKept
