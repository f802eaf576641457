SPECIFICATION Spec
CONSTANTS
    Bots = {b1}
    LocalJobs = {here}
    WorkerJobs = {}
    Whats = {"requeue"}
    Stale = 2
    AliveSave = 1
    Guard = 1
    Limit = 1
    SeenMax = 2
    MaxTime = 4
    MaxPresses = 1
    MaxEpoch = 1
    MaxStops = 2
    Faults = {"interrupt"}
INVARIANT StaleNeverRun
