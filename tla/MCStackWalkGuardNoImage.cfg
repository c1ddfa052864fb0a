CONSTANTS
    Plans <- MCPlans
    Frames = {"managed", "native", "noImage"}
    HeldSets <- MCHeldSets
    MaxRounds = 1
SPECIFICATION FairSpec
INVARIANTS
    WalkCannotDeadlock
CHECK_DEADLOCK FALSE
