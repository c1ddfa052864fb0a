SPECIFICATION FairSpec
CONSTANTS
    MaximumSize = 3
    ReaderLength = 3
    Sizes = {1, 2, 4}
    Intervals = {10, 20}
    MaxBatches = 3
INVARIANTS
    NothingIsLost
    NoGapInSelected
PROPERTIES
    ImplementsQueue
    EveryBatchArrives
