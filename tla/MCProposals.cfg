SPECIFICATION MCSpec
CONSTANTS
    Users = {u1}
    Workers = {w1, w2}
    Pids = {p1, p2}
    MaxPersons = 1
    Faults = {"crash", "error"}
    NoUser = NoUser
    NoPid = NoPid
SYMMETRY Symmetry
INVARIANTS TypeOK CountExact PersonOvershoot FilteredListing
PROPERTIES OnlyAuthorizedChange
