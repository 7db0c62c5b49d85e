CONSTANTS
    j1 = j1
    j2 = j2
    t1 = t1
    Jobs = {j1, j2}
    Tenants = {t1}
    TenantOf <- TwoTenantOf
    Priority <- TwoPriority
    QueuedAt <- TwoQueuedAt
    SkipLocked = TRUE
    Workers = {w1, w2}
    NoWorker = NoWorker
    NoJob = NoJob
    NumChannels = 1
    MaxRetries = 0
    Backoff = 1
    LockTimeout = 1
    MaxStep = 1
    MaxStops = 0
    MaxEnds = 0
    MinWorkers = 1
    TargetQueue = 1
    HardCap = 2
    Recommended = {2}
    UpCooldown = 0
    DownCooldown = 1
SPECIFICATION MFairSpec
PROPERTIES
    LocksReleased
    Settles
