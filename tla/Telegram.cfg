SPECIFICATION FairSpec
CONSTANTS
    Bots = {b1}
    LocalJobs = {here}
    WorkerJobs = {there}
    Whats = {"requeue"}
    Stale = 2
    AliveSave = 1
    Guard = 1
    Limit = 1
    SeenMax = 2
    MaxTime = 5
    MaxPresses = 2
    MaxEpoch = 2
    MaxStops = 1
    Faults = {}
INVARIANTS
    StaleNeverRun
    AtMostOnce
    NoDoubleRequeue
PROPERTIES
    DroppedOnlyAfterOutage
    Responsive
