SPECIFICATION Spec
CONSTANTS
    Channels = {1}
    MaxId = 3
    MaxDeps = 1
    MaxRetries = 1
    MaxCrashes = 0
    Keep = 3
    OnFail = {TRUE}
    Lanes = {FALSE, TRUE}
    Outcomes = {"done", "failed"}
    Edits = TRUE
    Pauses = TRUE
INVARIANTS
    RetriesHappen
    FailurePauses
