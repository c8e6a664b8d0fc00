SPECIFICATION Spec
INVARIANTS
    TargetShowsSource
    
    NothingCountsTwice
    JoinedWithTheRightRow
    ReplaysTheTable
    AlgorithmsMeetDefinitions
PROPERTIES
    ReplayNeverRegresses
CHECK_DEADLOCK FALSE
