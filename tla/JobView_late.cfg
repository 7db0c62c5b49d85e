CONSTANTS
    Jobs = {j1}
    NoJob = NoJob
    Final = 2
    InOrder = FALSE
    MaxActs = 2
    MaxFails = 0
SPECIFICATION VFairSpec
PROPERTY FollowsToEnd
CHECK_DEADLOCK FALSE
