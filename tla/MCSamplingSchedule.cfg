SPECIFICATION FairSpec
CONSTANTS
    Configs <- IntervalSets
    MaxStages = 3
PROPERTIES
    CohortIsFresh
    EveryNthIsContinuous
    NoLostWakeup
