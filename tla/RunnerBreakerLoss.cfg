SPECIFICATION Spec
CONSTANTS
    N = 3
    Bounded = TRUE
    BatchRead = FALSE
    BatchSize = 1
    Buffer = 1
    CheckpointEvery = 2
    Rejected = {}
    Filtered = {}
    BatchChain = FALSE
    IdentityRequired = FALSE
    HasDLQ = TRUE
    HasAcker = FALSE
    HasBreaker = TRUE
    MaxFailures = 1
    CooldownSec = 30
    CommitTimeoutSec = 30
    FlushTimeoutSec = 10
    HasAlertChecker = FALSE
    MaxRuns = 2
    MaxCrashes = 0
    MaxPanics = 0
INVARIANTS
    NoSilentLoss
CHECK_DEADLOCK FALSE
