SPECIFICATION Spec
CONSTANTS
    Users = {u1, u2}
    Extends <- OneExtension
    Anon = Anon
    Gids = {g1}
    Workers = {w1}
    Requests <- EveryRequest
    MaxPrivate = 1
    CounterLimit = 3
    Faults = {"crash"}
    NoUser = NoUser
    NoGid = NoGid
    NoGen = NoGen
SYMMETRY Symmetry
INVARIANTS TypeOK ListingAgrees NoOrphanMembers CacheFresh
PROPERTIES LastOwnerStays
