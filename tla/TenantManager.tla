--------------------------- MODULE TenantManager ---------------------------
(***************************************************************************)
(* The per-genealogy store cache, src/internal/tenants/manager.go.         *)
(*                                                                         *)
(* Requests (Callers) call Get; deletions (Deleters) call Drop and then    *)
(* RemoveOnDisk, as DeleteGenealogy does; the process calls Close once.    *)
(* A step is what happens under one acquisition of Manager.mu, or the one  *)
(* piece of disk I/O done outside it (badger.Open, os.RemoveAll).          *)
(*                                                                         *)
(* A handle returned by badger.Open is <<id, n>>: the n-th successful open *)
(* of genealogy id.  The request id "" that Get refuses is not an Id.      *)
(***************************************************************************)
EXTENDS Naturals, Sequences, FiniteSets, SequencesExt

CONSTANTS
    Ids,            \* genealogy ids
    Callers,        \* goroutines that call Get
    Deleters,       \* goroutines that call Drop, then RemoveOnDisk
    MaxOpen,        \* Config.MaxOpen
    OpenLimit,      \* bound: successful opens per id
    Graceful,       \* TRUE: Close waits for the calls in flight to return
    NoStore,        \* the nil *badger.Store
    NoId            \* the id of a goroutine that is not in a call

ASSUME ProcsAssumption == Callers \cap Deleters = {}
ASSUME CallersAssumption == IsFiniteSet(Callers)
ASSUME MaxOpenAssumption == MaxOpen \in Nat \ {0}
ASSUME OpenLimitAssumption == OpenLimit \in Nat
ASSUME GracefulAssumption == Graceful \in BOOLEAN

Procs  == Callers \cup Deleters
Stores == Ids \X (Nat \ {0})

ASSUME NoStoreAssumption == NoStore \notin Stores
ASSUME NoIdAssumption == NoId \notin Ids

VARIABLES
    cache,      \* list.List of entries, front == most recently used
    index,      \* id -> the store of its list element, NoStore if absent
    loading,    \* the ids that have a loadOp
    closed,     \* Manager.closed; index is then the nil map
    crashed,    \* an unrecovered panic has ended the process
    open,       \* the handles that are open
    opens,      \* number of successful opens of each id
    onDisk,     \* the ids whose directory exists
    pc, arg, got \* per goroutine: where it is, its id, its handle

mvars == <<cache, index, loading, closed, crashed>>
dvars == <<open, opens, onDisk>>
pvars == <<pc, arg, got>>
vars  == <<mvars, dvars, pvars>>

Entry(id, st) == [id |-> id, store |-> st]

PCs == {"idle", "opening", "publishing", "waiting", "using", "failed", "dropped"}

TypeOK ==
    /\ cache \in Seq([id : Ids, store : Stores])
    /\ index \in [Ids -> Stores \cup {NoStore}]
    /\ loading \subseteq Ids
    /\ closed \in BOOLEAN
    /\ crashed \in BOOLEAN
    /\ open \subseteq Stores
    /\ opens \in [Ids -> Nat]
    /\ onDisk \subseteq Ids
    /\ pc \in [Procs -> PCs]
    /\ arg \in [Procs -> Ids \cup {NoId}]
    /\ \A p \in Procs : pc[p] # "idle" => arg[p] \in Ids
    /\ got \in [Procs -> Stores \cup {NoStore}]

\* New: an empty cache; directories left by an earlier run may exist.
Init ==
    /\ cache = <<>>
    /\ index = [i \in Ids |-> NoStore]
    /\ loading = {}
    /\ closed = FALSE
    /\ crashed = FALSE
    /\ open = {}
    /\ opens = [i \in Ids |-> 0]
    /\ onDisk \in SUBSET Ids
    /\ pc = [p \in Procs |-> "idle"]
    /\ arg = [p \in Procs |-> NoId]
    /\ got = [p \in Procs |-> NoStore]

-----------------------------------------------------------------------------
(* The list and its index *)

Position(c, id) == CHOOSE i \in DOMAIN c : c[i].id = id

MoveToFront(c, id) ==
    LET i == Position(c, id) IN <<c[i]>> \o RemoveAt(c, i)

\* evictLocked: the tail beyond MaxOpen.
Kept(c) == IF Len(c) > MaxOpen THEN SubSeq(c, 1, MaxOpen) ELSE c

\* Mutant: evictLocked closes one handle too few.
Evicted_OffByOne(c) == {c[i] : i \in {j \in DOMAIN c : j > MaxOpen + 1}}

Evicted(c) == {c[i] : i \in {j \in DOMAIN c : j > MaxOpen}}

Forget(ids) == [i \in Ids |-> IF i \in ids THEN NoStore ELSE index[i]]

\* Mutant: the evicted store is not closed.
evictLocked_NoClose(c, idx) ==
    /\ cache' = Kept(c)
    /\ index' = [i \in Ids |-> IF \E e \in Evicted(c) : e.id = i THEN NoStore ELSE idx[i]]
    /\ open' = open

\* Mutant: the evicted id stays in the map.
evictLocked_NoDelete(c, idx) ==
    /\ cache' = Kept(c)
    /\ index' = idx
    /\ open' = open \ {e.store : e \in Evicted(c)}

evictLocked(c, idx) ==
    /\ cache' = Kept(c)
    /\ index' = [i \in Ids |-> IF \E e \in Evicted(c) : e.id = i THEN NoStore ELSE idx[i]]
    /\ open' = open \ {e.store : e \in Evicted(c)}

\* installLocked; the first branch is its "lost a race".
installLocked(id, st) ==
    IF index[id] # NoStore
    THEN /\ cache' = MoveToFront(cache, id)
         /\ open' = open \ {st}
         /\ UNCHANGED index
    ELSE evictLocked(<<Entry(id, st)>> \o cache, [index EXCEPT ![id] = st])

-----------------------------------------------------------------------------
(* Get *)

Goto(p, where, id, st) ==
    /\ pc' = [pc EXCEPT ![p] = where]
    /\ arg' = [arg EXCEPT ![p] = id]
    /\ got' = [got EXCEPT ![p] = st]

Calls(p) == ~crashed /\ pc[p] = "idle"

\* Get after Close: ErrShutdown.
GetRefused(c, id) ==
    /\ Calls(c)
    /\ closed
    /\ Goto(c, "failed", id, NoStore)
    /\ UNCHANGED <<mvars, dvars>>

\* Mutant: a hit does not move the entry to the front.
GetHit_NoMove(c, id) ==
    /\ Calls(c)
    /\ ~closed
    /\ index[id] # NoStore
    /\ Goto(c, "using", id, index[id])
    /\ UNCHANGED <<mvars, dvars>>

\* Get of a cached id.
GetHit(c, id) ==
    /\ Calls(c)
    /\ ~closed
    /\ index[id] # NoStore
    /\ cache' = MoveToFront(cache, id)
    /\ Goto(c, "using", id, index[id])
    /\ UNCHANGED <<index, loading, closed, crashed, dvars>>

\* Get of an id that another goroutine is opening: block on op.done.
GetJoin(c, id) ==
    /\ Calls(c)
    /\ ~closed
    /\ index[id] = NoStore
    /\ id \in loading
    /\ Goto(c, "waiting", id, NoStore)
    /\ UNCHANGED <<mvars, dvars>>

\* Mutant: m.loading is not consulted.
GetLead_NoCoalesce(c, id) ==
    /\ Calls(c)
    /\ ~closed
    /\ index[id] = NoStore
    /\ loading' = loading \cup {id}
    /\ Goto(c, "opening", id, NoStore)
    /\ UNCHANGED <<cache, index, closed, crashed, dvars>>

\* Mutant: the loadOp is not registered.
GetLead_NoRegister(c, id) ==
    /\ Calls(c)
    /\ ~closed
    /\ index[id] = NoStore
    /\ id \notin loading
    /\ Goto(c, "opening", id, NoStore)
    /\ UNCHANGED <<mvars, dvars>>

\* Get of any other id: register a loadOp and go and open the store.
GetLead(c, id) ==
    /\ Calls(c)
    /\ ~closed
    /\ index[id] = NoStore
    /\ id \notin loading
    /\ loading' = loading \cup {id}
    /\ Goto(c, "opening", id, NoStore)
    /\ UNCHANGED <<cache, index, closed, crashed, dvars>>

\* badger.Open, outside the mutex; it creates the directory.
OpenOk(c) ==
    LET id == arg[c]
        st == <<id, opens[id] + 1>>
    IN  /\ ~crashed
        /\ pc[c] = "opening"
        /\ opens[id] < OpenLimit
        /\ opens' = [opens EXCEPT ![id] = @ + 1]
        /\ open' = open \cup {st}
        /\ onDisk' = onDisk \cup {id}
        /\ Goto(c, "publishing", id, st)
        /\ UNCHANGED mvars

OpenErr(c) ==
    /\ ~crashed
    /\ pc[c] = "opening"
    /\ Goto(c, "publishing", arg[c], NoStore)
    /\ UNCHANGED <<mvars, dvars>>

\* Mutant: the result goes to every waiter.
Served_All(c) == {c} \cup {w \in Callers : pc[w] = "waiting"}

\* Mutant: op.done is never closed.
Served_Leader(c) == {c}

\* The goroutines that op's result goes to.
Served(c) == {c} \cup {w \in Callers : pc[w] = "waiting" /\ arg[w] = arg[c]}

\* Mutant: the store is installed even if the open failed.
Publish_InstallsNil(c) ==
    /\ ~crashed
    /\ pc[c] = "publishing"
    /\ ~closed
    /\ loading' = loading \ {arg[c]}
    /\ pc' = [p \in Procs |-> IF p \in Served(c)
                              THEN IF got[c] = NoStore THEN "failed" ELSE "using"
                              ELSE pc[p]]
    /\ got' = [p \in Procs |-> IF p \in Served(c) THEN got[c] ELSE got[p]]
    /\ installLocked(arg[c], got[c])
    /\ UNCHANGED <<arg, closed, crashed, opens, onDisk>>

\* The second critical section of Get: publish the result, wake the waiters,
\* unregister the loadOp, install the store.
Publish(c) ==
    /\ ~crashed
    /\ pc[c] = "publishing"
    /\ ~(closed /\ got[c] # NoStore)
    /\ loading' = loading \ {arg[c]}
    /\ pc' = [p \in Procs |-> IF p \in Served(c)
                              THEN IF got[c] = NoStore THEN "failed" ELSE "using"
                              ELSE pc[p]]
    /\ got' = [p \in Procs |-> IF p \in Served(c) THEN got[c] ELSE got[p]]
    /\ IF got[c] = NoStore THEN UNCHANGED <<cache, index, open>>
                           ELSE installLocked(arg[c], got[c])
    /\ UNCHANGED <<arg, closed, crashed, opens, onDisk>>

\* The same section once Close has set index to nil: the assignment
\* m.index[id] = elem panics, and nothing recovers it.
PublishPanic(c) ==
    /\ ~crashed
    /\ pc[c] = "publishing"
    /\ closed
    /\ got[c] # NoStore
    /\ crashed' = TRUE
    /\ UNCHANGED <<cache, index, loading, closed, dvars, pvars>>

\* The request is over and forgets the handle.
Return(c) ==
    /\ ~crashed
    /\ pc[c] \in {"using", "failed"}
    /\ Goto(c, "idle", NoId, NoStore)
    /\ UNCHANGED <<mvars, dvars>>

-----------------------------------------------------------------------------
(* Drop, RemoveOnDisk, Close *)

\* Mutant: Drop forgets the handle without closing it.
Drop_NoClose(d, id) ==
    /\ Calls(d)
    /\ IF index[id] = NoStore
       THEN UNCHANGED <<cache, index>>
       ELSE /\ cache' = RemoveAt(cache, Position(cache, id))
            /\ index' = Forget({id})
    /\ Goto(d, "dropped", id, NoStore)
    /\ UNCHANGED <<loading, closed, crashed, dvars>>

Drop(d, id) ==
    /\ Calls(d)
    /\ IF index[id] = NoStore
       THEN UNCHANGED <<cache, index, open>>
       ELSE /\ cache' = RemoveAt(cache, Position(cache, id))
            /\ index' = Forget({id})
            /\ open' = open \ {index[id]}
    /\ Goto(d, "dropped", id, NoStore)
    /\ UNCHANGED <<loading, closed, crashed, opens, onDisk>>

\* os.RemoveAll, which may fail.
RemoveOnDisk(d) ==
    /\ ~crashed
    /\ pc[d] = "dropped"
    /\ onDisk' \in {onDisk, onDisk \ {arg[d]}}
    /\ Goto(d, "idle", NoId, NoStore)
    /\ UNCHANGED <<mvars, open, opens>>

\* Mutant: Close forgets the handles without closing them.
Close_Leaks ==
    /\ ~crashed
    /\ ~closed
    /\ Graceful => \A p \in Procs : pc[p] = "idle"
    /\ closed' = TRUE
    /\ cache' = <<>>
    /\ index' = Forget(Ids)
    /\ UNCHANGED <<loading, crashed, dvars, pvars>>

Close ==
    /\ ~crashed
    /\ ~closed
    /\ Graceful => \A p \in Procs : pc[p] = "idle"
    /\ closed' = TRUE
    /\ open' = open \ {cache[i].store : i \in DOMAIN cache}
    /\ cache' = <<>>
    /\ index' = Forget(Ids)
    /\ UNCHANGED <<loading, crashed, opens, onDisk, pvars>>

-----------------------------------------------------------------------------
\* What a call in flight does next by itself.
Step(c) == OpenOk(c) \/ OpenErr(c) \/ Publish(c) \/ PublishPanic(c) \/ Return(c)

Next ==
    \/ \E c \in Callers, id \in Ids :
          GetRefused(c, id) \/ GetHit(c, id) \/ GetJoin(c, id) \/ GetLead(c, id)
    \/ \E c \in Callers : Step(c)
    \/ \E d \in Deleters, id \in Ids : Drop(d, id)
    \/ \E d \in Deleters : RemoveOnDisk(d)
    \/ Close

\* A call in flight keeps running: disk I/O ends and the mutex is granted.
Fairness ==
    /\ \A c \in Callers : WF_vars(Step(c))
    /\ \A d \in Deleters : WF_vars(RemoveOnDisk(d))

Spec == Init /\ [][Next]_vars /\ Fairness

-----------------------------------------------------------------------------
(* Properties *)

\* doc.go: "no genealogy is ever opened twice in parallel".  At no time are two
\* handles open on one directory, whatever Get, Drop, eviction and Close do.
ExclusiveStore == \A s, t \in open : s[1] = t[1] => s = t

\* Nothing is open that the manager has lost track of: an open handle is in
\* the cache, or with the goroutine that opened it and has yet to install it;
\* and a cached handle is open.
OpenAccounted ==
    open = {index[i] : i \in {j \in Ids : index[j] # NoStore}}
           \cup {got[c] : c \in {p \in Callers : pc[p] = "publishing" /\ got[p] # NoStore}}

\* The list and the map agree, an id is in the list once, and the list is
\* within MaxOpen between critical sections.
CacheCoherent ==
    /\ Len(cache) <= MaxOpen
    /\ \A i, j \in DOMAIN cache : cache[i].id = cache[j].id => i = j
    /\ \A i \in DOMAIN cache : index[cache[i].id] = cache[i].store
    /\ \A id \in Ids : index[id] # NoStore => \E i \in DOMAIN cache : cache[i].id = id

\* Singleflight: an id being opened has one goroutine at it and is not in the
\* cache, so installLocked's "Lost a race" branch is never taken.
SingleFlight ==
    \A c \in Callers : pc[c] \in {"opening", "publishing"} =>
        /\ arg[c] \in loading
        /\ index[arg[c]] = NoStore
        /\ \A d \in Callers \ {c} :
              pc[d] \in {"opening", "publishing"} => arg[d] # arg[c]

\* The bound MaxOpen gives on open handles: those being installed come on top.
OpenBound ==
    Cardinality(open) <= MaxOpen + Cardinality({c \in Callers : pc[c] = "publishing"})

\* A request for one genealogy is never handed another genealogy's store.
TenantIsolation ==
    \A c \in Callers : pc[c] \in {"using", "failed"} =>
        /\ pc[c] = "using" => got[c] # NoStore /\ got[c][1] = arg[c]
        /\ pc[c] = "failed" => got[c] = NoStore

\* Server.Close stops the RPCs before the manager: then Close never makes an
\* in-flight Get panic, and leaves no handle open.
CleanShutdown == Graceful => ~crashed /\ (closed => open = {})

\* Every Get returns, the ones waiting for another goroutine's open included.
GetReturns ==
    \A c \in Callers :
        pc[c] \in {"opening", "publishing", "waiting"} ~> pc[c] \in {"using", "failed"} \/ crashed

\* The abstract specification: what the disk sees of the manager.
Table == INSTANCE StoreTable WITH Ids <- Ids, open <- open, opens <- opens
Implements == Table!Spec
=============================================================================
