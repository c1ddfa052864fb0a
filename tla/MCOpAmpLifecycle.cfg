SPECIFICATION LifeSpec
INVARIANTS
    DisposedOnceAndIdle
PROPERTIES
    StartedBeforeStopped
    ExitReachesDisposal
CHECK_DEADLOCK FALSE
