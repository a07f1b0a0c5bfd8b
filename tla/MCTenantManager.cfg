SPECIFICATION MCSpec
CONSTANTS
    Ids = {g1, g2, g3}
    Callers = {c1, c2, c3}
    Deleters = {}
    MaxOpen = 2
    OpenLimit = 2
    Graceful = FALSE
    NoStore = NoStore
    NoId = NoId
INVARIANTS TypeOK ExclusiveStore OpenAccounted CacheCoherent SingleFlight OpenBound TenantIsolation
PROPERTIES EvictsLRU
SYMMETRY Symmetry
CHECK_DEADLOCK FALSE
