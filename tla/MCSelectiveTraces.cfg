SPECIFICATION Spec
CONSTANTS
    Spans <- SpanSet
    Threads = {th1, th2}
    Starters = {s1}
    MaxTraces = 2
    MaxAge = 2
    MaxNow = 3
INVARIANTS
    SelectionIsCurrent
PROPERTIES
    ExpiredIsDropped
SYMMETRY ThreadSymmetry
