SPECIFICATION FairSpec
CONSTANTS
    Channels = {1, 2}
    MaxId = 3
    MaxDeps = 1
    MaxRetries = 0
    MaxCrashes = 1
    Keep = 1
    OnFail = {FALSE}
    Lanes = {FALSE}
    Outcomes = {"done"}
    Edits = FALSE
    Pauses = FALSE
PROPERTIES
    QueueDrains
