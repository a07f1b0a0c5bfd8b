SPECIFICATION MCSpec
CONSTANTS
    Users = {u1}
    Extends <- NoExtension
    Anon = Anon
    Gids = {g1, g2}
    Workers = {w1, w2}
    Requests <- CountedRequests
    MaxPrivate = 1
    CounterLimit = 3
    Faults = {"crash", "error"}
    MaxDrift = 2
    NoUser = NoUser
    NoGid = NoGid
    NoGen = NoGen
SYMMETRY Symmetry
INVARIANTS QuotaDrift
