SPECIFICATION FairSpec
CONSTANTS
    Runs = {r1}
    Kinds = {"done"}
    MaxSeq = 2
    MaxEpoch = 2
    MaxStops = 1
    Page = 1
    MaxPages = 2
    Burst = 1
    SendAttempts = 2
    PullAttempts = 1
    Faults = {}
INVARIANTS
    NothingSilentlyLost
    OwnFinalsKept
PROPERTIES
    HistoryNotReplayed
    EventsAnnounced
    PullsHappen
