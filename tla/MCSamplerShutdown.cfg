CONSTANTS
    Ticks = {t1}
    Setters = {s1}
    Callers = {c1, c2}
SPECIFICATION FairSpec
INVARIANTS
    QuietAfterReturn
    NoTickBehindCapture
PROPERTIES
    ShutdownReturns
    CallbacksReturn
CHECK_DEADLOCK FALSE
