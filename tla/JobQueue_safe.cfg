CONSTANTS
    j1 = j1
    j2 = j2
    j3 = j3
    t1 = t1
    t2 = t2
    Jobs = {j1, j2, j3}
    Tenants = {t1, t2}
    TenantOf <- ThreeTenantOf
    Priority <- ThreePriority
    QueuedAt <- ThreeQueuedAt
    SkipLocked = TRUE
    Workers = {w1, w2}
    NoWorker = NoWorker
    NoJob = NoJob
    NumChannels = 1
    MaxRetries = 1
    Backoff = 1
    LockTimeout = 1
    MaxStep = 1
    MaxStops = 1
SPECIFICATION Spec
SYMMETRY WorkerSymmetry
CONSTRAINT NoFailureOfThree
INVARIANTS
    TypeOK
    Exclusive
    Recoverable
    DeadLetterExact
    CompletedIsWhole
PROPERTIES
    TerminalIsFinal
    BackoffKept
    UrgentFirst
    FairShare
    KeepsContract
