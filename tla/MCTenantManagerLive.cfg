SPECIFICATION MCLiveSpec
CONSTANTS
    Ids = {g1, g2}
    Callers = {c1, c2, c3}
    Deleters = {d1}
    MaxOpen = 1
    OpenLimit = 2
    Graceful = TRUE
    NoStore = NoStore
    NoId = NoId
INVARIANTS CleanShutdown
PROPERTIES GetReturns Implements DropProtects
