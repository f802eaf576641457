SPECIFICATION FairSpec
CONSTANTS
    Jobs = {1, 2}
    Pids = {11, 12}
    LockSecs = 1
    MaxSessions = 2
    MaxFlagged = 1
    MaxRestarts = 1
INVARIANTS
    EditorUndisturbed
    RunsAsEdited
PROPERTIES
    NoLostUpdate
    ChannelGoesOn
CHECK_DEADLOCK FALSE
