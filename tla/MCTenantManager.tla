-------------------------- MODULE MCTenantManager --------------------------
(***************************************************************************)
(* Instances of TenantManager for TLC, with two history variables: for     *)
(* each id, the ids used since it was last used; for each deletion, the    *)
(* handles of its genealogy that were in service when it called Drop.      *)
(***************************************************************************)
EXTENDS TenantManager, TLC

VARIABLES
    since,      \* since[i]: the ids used after the last use of i
    served      \* served[d]: the handles a deletion in progress must outlive

MCvars == <<vars, since, served>>

\* An id is used by the Get that finds it cached and by the one that installs it.
Used ==
    {i \in Ids :
        \/ \E c \in Callers : pc[c] = "idle" /\ pc'[c] = "using" /\ arg'[c] = i
        \/ index[i] = NoStore /\ index'[i] # NoStore}

\* The handles of id that are open and installed, or with a request.
InService(id) ==
    {s \in open \cup {got[c] : c \in {x \in Callers : pc[x] = "using"}} : s[1] = id}
        \ {got[c] : c \in {x \in Callers : pc[x] = "publishing"}}

ObserveDrop ==
    served' = [d \in Deleters |->
        IF pc'[d] # "dropped" THEN {}
        ELSE IF pc[d] = "dropped" THEN served[d] ELSE InService(arg'[d])]

ObserveUse ==
    since' = [i \in Ids |-> IF i \in Used THEN {} ELSE since[i] \cup Used]

MCInit == Init /\ since = [i \in Ids |-> {}] /\ served = [d \in Deleters |-> {}]
MCSpec == MCInit /\ [][Next /\ ObserveUse /\ UNCHANGED served]_MCvars
MCLiveSpec == MCInit /\ [][Next /\ ObserveDrop /\ UNCHANGED since]_MCvars /\ Fairness

Symmetry == Permutations(Ids) \cup Permutations(Callers)

-----------------------------------------------------------------------------
\* An id leaves the cache, other than by Drop or Close, after at least MaxOpen
\* other ids were used.
EvictsOldest ==
    \A i \in Ids :
        (index[i] # NoStore /\ index'[i] = NoStore /\ ~closed' /\ loading # loading')
           => Cardinality(since'[i]) >= MaxOpen

\* evictLocked closes least recently used stores only, however the Gets that
\* use and install them interleave.
EvictsLRU == [][EvictsOldest]_MCvars

\* A deletion's last step finds none of those handles open.
RemovesClosed ==
    \A d \in Deleters : pc[d] = "dropped" /\ pc'[d] = "idle" => served[d] \cap open = {}

\* RemoveOnDisk: "The store MUST be closed first (call Drop)".  When a deletion
\* removes the directory, every handle that was in the cache or with a request
\* at its Drop is closed; only an open that Drop could not see (in flight, or
\* begun after it) may still use the directory.
DropProtects == [][RemovesClosed]_MCvars
=============================================================================
