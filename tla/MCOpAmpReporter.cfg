CONSTANTS
    Workers = {w1, w2}
    NoWorker = NoWorker
SPECIFICATION FairSpec
INVARIANTS
    NothingForgotten
    ScheduledOnce
    RevocationIsHonoured
PROPERTIES
    IntervalIsKept
    EveryRequestIsServed
CHECK_DEADLOCK FALSE
