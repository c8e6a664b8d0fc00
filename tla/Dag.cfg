SPECIFICATION Spec
CONSTANTS
    Sources = {"a"}
    Sinks = {"k"}
    N = 2
    Unbounded = {}
    Routes <- PoolRoutes
    Broken <- PoolBroken
    Parallel = TRUE
    BatchSize = 1
    Buffer = 1
    PoolSize = 2
    MaxRuns = 2
    MaxFaults = 1
    MaxCrashes = 1
INVARIANTS
    CoveredIsSettled
    NoGenerationOverlap
    FansAreSafe
PROPERTIES
    BlockedCheckpointStays
    FanOutRunEnds
CHECK_DEADLOCK FALSE
