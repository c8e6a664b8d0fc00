SPECIFICATION Spec
CONSTANTS
    N = 4
    Bounded = TRUE
    BatchRead = TRUE
    BatchSize = 2
    Buffer = 1
    CheckpointEvery = 2
    Rejected = {1}
    Filtered = {2}
    BatchChain = FALSE
    IdentityRequired = TRUE
    HasDLQ = TRUE
    HasAcker = TRUE
    HasBreaker = TRUE
    MaxFailures = 1
    CooldownSec = 30
    CommitTimeoutSec = 30
    FlushTimeoutSec = 10
    HasAlertChecker = FALSE
    MaxRuns = 2
    MaxCrashes = 1
    MaxPanics = 1
INVARIANTS
    QuiescentWhenIdle
    OnlyBreakerLoses
    ShutdownDelivers
PROPERTIES
    BlockedUntilRestart
CHECK_DEADLOCK FALSE
