CONSTANTS
    Plans <- MCPlans
    Frames = {"managed", "native", "noRip"}
    HeldSets <- MCHeldSets
    MaxRounds = 2
SPECIFICATION FairSpec
INVARIANTS
    WalkCannotDeadlock
PROPERTIES
    CommitsOnlyToWaitingSampler
    TargetIsResumed
    WorkerReturns
CHECK_DEADLOCK FALSE
