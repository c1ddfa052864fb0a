CONSTANTS
    Scopes = {a1, a2, a3}
    Closers = {c1, c2}
    ClosingBit = 3
SPECIFICATION FairSpec
INVARIANTS
    GateIsExact
PROPERTIES
    ImplementsDrainGate
    EveryCloserReturns
