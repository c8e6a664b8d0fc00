SPECIFICATION Spec
CONSTANTS
    Ids = {1, 2}
    Types <- TypesOfTwo
    Versions <- VersionsOfTwo
    Handles = {1}
    MaxCalls = 1
    MaxChanges = 3
INVARIANTS
    OneTriggerPerSchedule
    RuntimeFollowsStore
PROPERTIES
    ImplementsBoard
    RemovedTickersEnd
    ChangesAreUndoneOrWhole
CHECK_DEADLOCK FALSE
