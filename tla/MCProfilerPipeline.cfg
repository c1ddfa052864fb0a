CONSTANTS
    Domains = {d1, d2}
    NoDomain = NoDomain
    MaxChanges = 2
SPECIFICATION PipelineFairSpec
INVARIANTS
    NothingOutlivesExit
    NoUseAfterDispose
    OneReader
PROPERTIES
    BuffersAreRead
CHECK_DEADLOCK FALSE
