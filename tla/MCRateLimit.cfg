SPECIFICATION MCSpec
CONSTANTS
    Keys = {k1}
    Callers = {c1, c2, c3}
    Capacity = 2
    Rate = 1
    IdleTimeout = 4
    MaxDelay = 1
    Horizon = 9
    NoBucket = NoBucket
    NoKey = NoKey
    NoTick = NoTick
    NotYet = NotYet
SYMMETRY Symmetry
INVARIANTS TypeOK RateBound
PROPERTIES QuietKeyServed
