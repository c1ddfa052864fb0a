CONSTANTS
    Appliers = {a1, a2}
    Closers = {c1}
    Configs <- MCConfigs
    MaxCalls = 3
SPECIFICATION FairSpec
INVARIANTS
    ProducersMatchCommitted
    OnlyCommittedIsObserved
    DeadWorkerNotAcknowledged
PROPERTIES
    FailureSparesProducers
    ImplementsController
    CallsReturn
CHECK_DEADLOCK FALSE
