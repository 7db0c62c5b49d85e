CONSTANTS
    Jobs = {j1, j2}
    NoJob = NoJob
    Final = 2
    InOrder = TRUE
    MaxActs = 3
    MaxFails = 1
SPECIFICATION VFairSpec
INVARIANTS
    VTypeOK
    WatchedWhileOpen
    NoIdlePolling
    FlagIsLive
PROPERTIES
    OnlyAskedFor
    FollowsToEnd
CHECK_DEADLOCK FALSE
