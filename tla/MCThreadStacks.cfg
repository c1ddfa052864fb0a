SPECIFICATION StacksSpec
CONSTANTS
    Threads = {t1, t2, t3, t4}
    NoThread = none
    MaximumFramesPerStack = 5
    MaximumFrameCapacity = 7
    MaximumThreads = 3
    InitialStackFrames = 3
INVARIANTS
    BudgetIsExact
    CohortIsReady
SYMMETRY ThreadSymmetry
CHECK_DEADLOCK FALSE
