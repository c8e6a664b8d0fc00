SPECIFICATION Spec
CONSTANTS
    Workers = {v, w}
    NoWorker = NoWorker
    Tasks = {0}
    Labelled = {}
    Matching = {}
    Slots = 2
    LeaseTTL = 0
    StaleAfter = 0
    MaxAttempts = 2
    StoreErrors = FALSE
    Lossy = TRUE
    MaxRows = 1
    MaxCrashes = 1
INVARIANTS
    GenerationIsUnique
    ResultIsGenuine
PROPERTIES
    GenerationNeverFalls
    CompletedStays
