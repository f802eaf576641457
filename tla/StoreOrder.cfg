SPECIFICATION Spec
CONSTANTS
    Channels = {1, 2}
    MaxId = 3
    MaxDeps = 1
    MaxRetries = 0
    MaxCrashes = 0
    Keep = 3
    OnFail = {FALSE}
    Lanes = {FALSE}
    Outcomes = {"done"}
    Edits = TRUE
    Pauses = FALSE
INVARIANTS
    NoWaitCycle
    NoDoomedWaiter
