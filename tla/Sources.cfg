SPECIFICATION Spec
INVARIANTS
    ResumeMissesNothing

    
CHECK_DEADLOCK FALSE
