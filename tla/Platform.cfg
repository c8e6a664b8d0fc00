SPECIFICATION Spec
INVARIANTS
    DeadLettersAreDelivered
    
    StoreIsWhole
PROPERTIES
    MaintenanceLosesNothing
    MaintenanceGetsDone
CHECK_DEADLOCK FALSE
