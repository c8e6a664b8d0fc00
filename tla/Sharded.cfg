SPECIFICATION MCSpec
CONSTANTS
    Workers = {w1}
    NoWorker = NoWorker
    Tasks = {0, 1}
    Labelled = {}
    Matching = {}
    Slots = 1
    LeaseTTL = 0
    StaleAfter = 0
    MaxAttempts = 1
    StoreErrors = FALSE
    Lossy = FALSE
    MaxRows = 2
    MaxCrashes = 1
    MaxStarts = 2
INVARIANTS
    CompletedRunDidAll
PROPERTIES
    DispatchedRunEnds
