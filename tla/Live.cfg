SPECIFICATION Spec
INVARIANTS
    ConcurrencyDoesNotShow
PROPERTIES
    NothingWaitsForEver
CHECK_DEADLOCK FALSE
