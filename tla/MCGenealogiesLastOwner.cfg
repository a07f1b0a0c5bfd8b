SPECIFICATION Spec
CONSTANTS
    Users = {u1, u2}
    Extends <- NoExtension
    Anon = Anon
    Gids = {g1}
    Workers = {w1, w2}
    Requests <- Departures
    MaxPrivate = 1
    CounterLimit = 3
    Faults = {}
    NoUser = NoUser
    NoGid = NoGid
    NoGen = NoGen
SYMMETRY Symmetry
PROPERTIES LastOwnerStays
