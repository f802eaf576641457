SPECIFICATION Spec
CONSTANTS
    Channels = {1, 2}
    MaxId = 3
    MaxDeps = 2
    MaxRetries = 0
    MaxCrashes = 1
    Keep = 1
    OnFail = {FALSE}
    Lanes = {FALSE}
    Outcomes = {"done", "failed"}
    Edits = FALSE
    Pauses = FALSE
INVARIANTS
    DependenciesKept
    RanAsAsked
    SkipsDeserved
