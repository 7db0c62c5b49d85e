CONSTANTS
    j1 = j1
    j2 = j2
    j3 = j3
    t1 = t1
    t2 = t2
    Jobs = {j1}
    Tenants = {t1, t2}
    TenantOf <- OneTenantOf
    Priority <- OnePriority
    QueuedAt <- OneQueuedAt
    SkipLocked = FALSE
    Workers = {w1, w2}
    NoWorker = NoWorker
    NoJob = NoJob
    NumChannels = 2
    MaxRetries = 1
    Backoff = 1
    LockTimeout = 2
    MaxStep = 2
    MaxStops = 2
SPECIFICATION FairSpec
INVARIANTS
    Exclusive
    CompletedIsWhole
PROPERTIES
    Settles
