SPECIFICATION Spec
CONSTANTS
    Runs = {run}
    Reruns = {rerun}
    Drivers = {d1, d2}
    MaxFolders = 2
    MaxJobs = 2
    MaxLost = 1
    Faults = {}
SYMMETRY Symmetry
INVARIANTS
    MadeOnce
    JobFolderWhole
    RowsTrue
    NeverFromRedacted
CHECK_DEADLOCK FALSE
