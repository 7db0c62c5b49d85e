CONSTANTS
    j1 = j1
    j2 = j2
    j3 = j3
    t1 = t1
    t2 = t2
    Jobs = {j1, j2, j3}
    Tenants = {t1, t2}
    TenantOf <- ThreeTenantOf
    Priority <- ThreePriority
    QueuedAt <- ThreeQueuedAt
    SkipLocked = FALSE
    Workers = {w1, w2}
    NoWorker = NoWorker
    NoJob = NoJob
    NumChannels = 1
    MaxRetries = 0
    Backoff = 1
    LockTimeout = 1
    MaxStep = 1
    MaxStops = 0
SPECIFICATION Spec
SYMMETRY WorkerSymmetry
PROPERTY UrgentFirst
