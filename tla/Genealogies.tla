---------------------------- MODULE Genealogies ----------------------------
(***************************************************************************)
(* The genealogy records and who may do what with them: the RPC handlers   *)
(* of src/internal/service/genealogies.go, over the platform store         *)
(* (internal/platform), the cached authorization decisions                 *)
(* (internal/authz) and the private-genealogy quota (internal/quotas).     *)
(*                                                                         *)
(* Each handler runs on a goroutine (Workers) as a sequence of Badger      *)
(* transactions and cache operations; each of those is one step here, and  *)
(* local computation goes with the step that follows it.  Names, times,    *)
(* reasons and error texts are left out.  Per-genealogy data is the        *)
(* business of TenantManager and Proposals.                                *)
(***************************************************************************)
EXTENDS Integers, FiniteSets

CONSTANTS
    Users,          \* authenticated subjects
    Extends,        \* the pairs <<t, s>> of them with t equal to s, a slash and more
    Anon,           \* the subject "" of an unauthenticated request
    Gids,           \* the uuids that CreateGenealogy draws from
    Workers,        \* goroutines that serve requests
    Requests,       \* the requests that clients send
    MaxPrivate,     \* Limits.MaxPrivateGenealogiesPerUser, 0 for no limit
    CounterLimit,   \* bound: no visibility change starts with a counter this high
    Faults,         \* subset of {"crash", "error"}
    NoUser, NoGid, NoGen

(* platform.Role *)
None        == 0
Viewer      == 1
Contributor == 2
Curator     == 3
Owner       == 4
Roles       == None..Owner

Visibilities == {"Private", "Unlisted", "Public"}
Subjects     == Users \cup {Anon}
GenRecords   == [vis : Visibilities, by : Users]
Members      == [role : Roles, by : Users \cup {NoUser}]
NoMember     == [role |-> None, by |-> NoUser]

Ops == {"Create", "UpdateVisibility", "Delete", "Upsert", "Remove", "Leave",
        "Ban", "Unban", "Get", "ListMembers"}

AllRequests ==
    [op : Ops, sub : Subjects, gid : Gids \cup {NoGid}, tgt : Users \cup {NoUser},
     role : Roles, vis : Visibilities \cup {"none"}]

\* CreateGenealogy and LeaveGenealogy refuse the anonymous subject, roleFromProto
\* and visibilityFromProto the values outside the enumerations.
Valid(rq) ==
    CASE rq.op = "Create"           -> rq.sub \in Users /\ rq.vis \in Visibilities
      [] rq.op = "UpdateVisibility" -> rq.gid \in Gids /\ rq.vis \in Visibilities
      [] rq.op = "Upsert"           -> rq.gid \in Gids /\ rq.tgt \in Users /\ rq.role # None
      [] rq.op = "Leave"            -> rq.gid \in Gids /\ rq.sub \in Users
      [] rq.op \in {"Remove", "Ban", "Unban"} -> rq.gid \in Gids /\ rq.tgt \in Users
      [] OTHER                      -> rq.gid \in Gids

ASSUME UsersAssumption == IsFiniteSet(Users)
ASSUME ExtendsAssumption == Extends \subseteq {p \in Users \X Users : p[1] # p[2]}
ASSUME MaxPrivateAssumption == MaxPrivate \in Nat
ASSUME CounterLimitAssumption == CounterLimit \in Nat
ASSUME FaultsAssumption == Faults \subseteq {"crash", "error"}
ASSUME RequestsAssumption == Requests \subseteq AllRequests /\ \A rq \in Requests : Valid(rq)
ASSUME NullsAssumption ==
    /\ Anon \notin Users /\ NoUser \notin Users
    /\ NoGid \notin Gids /\ NoGen \notin GenRecords

VARIABLES
    gen,        \* "g/": genealogy id -> record, NoGen if absent
    mem,        \* "m/" and "mr/": id -> subject -> membership
    bans,       \* "b/": the pairs <<id, subject>> with a ban record
    priv,       \* "c/u/": subject -> number of private genealogies
    cache,      \* authz cache: <<subject, id>> -> cached role, None if absent
    used,       \* the uuids handed out
    job,        \* worker -> the request it serves and the handler's locals
    held        \* history: the highest explicit role each subject ever had

store == <<gen, mem, bans, priv>>
vars  == <<store, cache, used, job, held>>

PCs == {"idle", "cacheGet", "readGen", "readMem", "cachePut", "ready", "check", "putGen",
        "putOwner", "drop", "scan", "delMems", "delGen", "count", "owners", "delMem",
        "invalidate"}

NoRequest == [op |-> "Get", sub |-> Anon, gid |-> NoGid, tgt |-> NoUser, role |-> None, vis |-> "none"]
Idle == [pc |-> "idle", rq |-> NoRequest, d |-> None, g |-> NoGen, todo |-> {}]

Jobs == [pc : PCs, rq : AllRequests, d : Roles, g : GenRecords \cup {NoGen}, todo : SUBSET Users]

TypeOK ==
    /\ gen \in [Gids -> GenRecords \cup {NoGen}]
    /\ mem \in [Gids -> [Users -> Members]]
    /\ bans \subseteq Gids \X Users
    /\ priv \in [Users -> Nat]
    /\ cache \in [Subjects \X Gids -> Roles]
    /\ used \subseteq Gids
    /\ job \in [Workers -> Jobs]
    /\ held \in [Gids -> [Users -> Roles]]

Init ==
    /\ gen = [g \in Gids |-> NoGen]
    /\ mem = [g \in Gids |-> [u \in Users |-> NoMember]]
    /\ bans = {}
    /\ priv = [u \in Users |-> 0]
    /\ cache = [k \in Subjects \X Gids |-> None]
    /\ used = {}
    /\ job = [w \in Workers |-> Idle]
    /\ held = [g \in Gids |-> [u \in Users |-> None]]

-----------------------------------------------------------------------------
(* Pure definitions *)

implicitRole(vis, authenticated) ==
    CASE vis = "Public"   -> IF authenticated THEN Contributor ELSE Viewer
      [] vis = "Unlisted" -> IF authenticated THEN Contributor ELSE None
      [] vis = "Private"  -> None

\* resolveLocked, on a genealogy record and the role of the subject's
\* membership; None stands for ErrNotAllowed.
resolveLocked(g, explicit, s) ==
    IF s \in Users /\ explicit # None THEN explicit ELSE implicitRole(g.vis, s \in Users)

explicitRole(s, gid) == IF s \in Users THEN mem[gid][s].role ELSE None

\* What Resolve answers when nothing is cached and nothing moves meanwhile.
EffectiveRole(s, gid) ==
    IF gen[gid] = NoGen THEN None ELSE resolveLocked(gen[gid], explicitRole(s, gid), s)

\* IterateMembershipsForUser: whose rows of a genealogy the scan of mr/<s>/ meets.
RowsUnder(s, gid) ==
    {t \in Users : (t = s \/ <<t, s>> \in Extends) /\ mem[gid][t].role # None}

\* Mutant: Unlisted genealogies are listed like Public ones.
ListGenealogies_Unlisted(s) ==
    LET joined == {g \in Gids : gen[g] # NoGen /\ RowsUnder(s, g) # {}}
        public == {g \in Gids \ joined : gen[g] # NoGen /\ gen[g].vis # "Private"}
    IN  {[g \in joined \cup public |->
             IF g \in joined THEN mem[g][first[g]].role
             ELSE IF s \in Users THEN Contributor ELSE Viewer] :
         first \in {f \in [joined -> Users] : \A g \in joined : f[g] \in RowsUnder(s, g)}}

\* The answers ListGenealogies may give, each a function from the genealogies
\* listed to the roles shown.  Every row of the scan counts, whoever's it is,
\* unless it dangles; addUnique keeps the first row of a genealogy, and which
\* one comes first is up to the bytes of the keys.  Then come the public
\* genealogies not seen yet.
ListGenealogies(s) ==
    LET joined == {g \in Gids : gen[g] # NoGen /\ RowsUnder(s, g) # {}}
        public == {g \in Gids \ joined : gen[g] # NoGen /\ gen[g].vis = "Public"}
    IN  {[g \in joined \cup public |->
             IF g \in joined THEN mem[g][first[g]].role
             ELSE IF s \in Users THEN Contributor ELSE Viewer] :
         first \in {f \in [joined -> Users] : \A g \in joined : f[g] \in RowsUnder(s, g)}}

\* CheckCreatePrivateGenealogy
QuotaAllows(u) == MaxPrivate = 0 \/ priv[u] < MaxPrivate

\* IterateMembershipsForGenealogy
MembersOf(gid) == {u \in Users : mem[gid][u].role # None}

countOwners(gid) == Cardinality({u \in MembersOf(gid) : mem[gid][u].role = Owner})

\* Mutant: no saturation.
incCounter_NoFloor(n, delta) == n + delta

\* incCounter saturates at zero.
incCounter(n, delta) == IF delta < 0 /\ -delta > n THEN 0 ELSE n + delta

\* How a handler moves the private counter, by visibility before and after.
Delta(prev, vis) ==
    (IF vis = "Private" THEN 1 ELSE 0) - (IF prev = "Private" THEN 1 ELSE 0)

-----------------------------------------------------------------------------
(* A request's life *)

Go(w, pc)  == job' = [job EXCEPT ![w].pc = pc]
Done(w)    == job' = [job EXCEPT ![w] = Idle]
At(w, pc)  == job[w].pc = pc
Serves(w, op) == job[w].rq.op = op

Moves(op) == op \in {"Create", "UpdateVisibility"}
Creating  == {w \in Workers : job[w].pc # "idle" /\ job[w].rq.op = "Create"}

FirstStep(rq) ==
    CASE rq.op = "Create" -> IF rq.vis = "Private" THEN "check" ELSE "putGen"
      [] rq.op = "Leave"  -> "ready"
      [] OTHER            -> "cacheGet"

Start(w, rq) ==
    /\ At(w, "idle")
    /\ Moves(rq.op) => \A u \in Users : priv[u] < CounterLimit
    /\ rq.op = "Create" => Cardinality(Creating) < Cardinality(Gids \ used)
    /\ rq.op # "Create" => rq.gid \in used
    /\ job' = [job EXCEPT ![w] = [Idle EXCEPT !.pc = FirstStep(rq), !.rq = rq]]
    /\ UNCHANGED <<store, cache, used, held>>

-----------------------------------------------------------------------------
(* authz.Resolver.Resolve *)

CacheGet(w) ==
    LET r == cache[<<job[w].rq.sub, job[w].rq.gid>>]
    IN  /\ At(w, "cacheGet")
        /\ job' = [job EXCEPT ![w].pc = IF r # None THEN "ready" ELSE "readGen", ![w].d = r]
        /\ UNCHANGED <<store, cache, used, held>>

ReadGenealogy(w) ==
    LET g == gen[job[w].rq.gid]
    IN  /\ At(w, "readGen")
        /\ IF g = NoGen THEN Done(w)
                        ELSE job' = [job EXCEPT ![w].pc = "readMem", ![w].g = g]
        /\ UNCHANGED <<store, cache, used, held>>

ReadMembership(w) ==
    LET rq == job[w].rq
        d  == resolveLocked(job[w].g, explicitRole(rq.sub, rq.gid), rq.sub)
    IN  /\ At(w, "readMem")
        /\ IF d = None THEN Done(w)
                       ELSE job' = [job EXCEPT ![w].pc = "cachePut", ![w].d = d, ![w].g = NoGen]
        /\ UNCHANGED <<store, cache, used, held>>

\* Mutant: the decision is cached under the genealogy alone.
CachePut_AnySubject(w) ==
    /\ At(w, "cachePut")
    /\ cache' = [k \in Subjects \X Gids |-> IF k[2] = job[w].rq.gid THEN job[w].d ELSE cache[k]]
    /\ Go(w, "ready")
    /\ UNCHANGED <<store, used, held>>

CachePut(w) ==
    /\ At(w, "cachePut")
    /\ cache' = [cache EXCEPT ![<<job[w].rq.sub, job[w].rq.gid>>] = job[w].d]
    /\ Go(w, "ready")
    /\ UNCHANGED <<store, used, held>>

\* An entry outlives its TTL: from then on cache.get ignores it.
Expire(k) ==
    /\ cache[k] # None
    /\ cache' = [cache EXCEPT ![k] = None]
    /\ UNCHANGED <<store, used, job, held>>

\* Mutant: only the caller's own entry is invalidated.
Invalidated_Self(rq) == {rq.sub}

\* The subjects whose entries a handler invalidates; "" means every subject.
Invalidated(rq) ==
    CASE rq.op \in {"UpdateVisibility", "Delete"} -> Subjects
      [] rq.op \in {"Upsert", "Remove"}           -> {rq.tgt}
      [] OTHER                                    -> {rq.sub}

\* Resolver.Invalidate, the last step of every handler that has one.
Invalidate(w) ==
    /\ At(w, "invalidate")
    /\ cache' = [k \in Subjects \X Gids |->
                    IF k[1] \in Invalidated(job[w].rq) /\ k[2] = job[w].rq.gid
                    THEN None ELSE cache[k]]
    /\ Done(w)
    /\ UNCHANGED <<store, used, held>>

-----------------------------------------------------------------------------
(* The role check, and the writes of records *)

\* requireRole, after Resolve: the decision falls short of the least role.
Lacks(w, min) == job[w].d < min

PutGenealogy(gid, vis, by) == gen' = [gen EXCEPT ![gid] = [vis |-> vis, by |-> by]]

SetMember(gid, u, role, by) ==
    /\ mem' = [mem EXCEPT ![gid][u] = [role |-> role, by |-> by]]
    /\ held' = [held EXCEPT ![gid][u] = IF role > @ THEN role ELSE @]

ClearMember(gid, u) == mem' = [mem EXCEPT ![gid][u] = NoMember]

(* Create, and the steps it shares with UpdateVisibility *)

QuotaHolder(w) == IF Serves(w, "Create") THEN job[w].rq.sub ELSE job[w].g.by

CheckQuota(w) ==
    /\ At(w, "check")
    /\ IF QuotaAllows(QuotaHolder(w)) THEN Go(w, "putGen") ELSE Done(w)
    /\ UNCHANGED <<store, cache, used, held>>

CreatePutGenealogy(w) ==
    /\ At(w, "putGen")
    /\ Serves(w, "Create")
    /\ \E gid \in Gids \ used :
          /\ used' = used \cup {gid}
          /\ PutGenealogy(gid, job[w].rq.vis, job[w].rq.sub)
          /\ job' = [job EXCEPT ![w].pc = "putOwner", ![w].rq.gid = gid]
    /\ UNCHANGED <<mem, bans, priv, cache, held>>

PutOwner(w) ==
    LET rq == job[w].rq
    IN  /\ At(w, "putOwner")
        /\ SetMember(rq.gid, rq.sub, Owner, rq.sub)
        /\ Go(w, IF rq.vis = "Private" THEN "count" ELSE "invalidate")
        /\ UNCHANGED <<gen, bans, priv, cache, used>>

(* UpdateVisibility *)

UpdateVisibility(w) ==
    LET g == gen[job[w].rq.gid]
    IN  /\ At(w, "ready")
        /\ Serves(w, "UpdateVisibility")
        /\ IF Lacks(w, Owner) \/ g = NoGen
           THEN Done(w)
           ELSE job' = [job EXCEPT ![w].g = g,
                                   ![w].pc = IF Delta(g.vis, job[w].rq.vis) = 1
                                             THEN "check" ELSE "putGen"]
        /\ UNCHANGED <<store, cache, used, held>>

\* Mutant: the transition does not move the counter.
UpdatePutGenealogy_NoCount(w) ==
    LET rq == job[w].rq
    IN  /\ At(w, "putGen")
        /\ Serves(w, "UpdateVisibility")
        /\ PutGenealogy(rq.gid, rq.vis, job[w].g.by)
        /\ Go(w, "invalidate")
        /\ UNCHANGED <<mem, bans, priv, cache, used, held>>

UpdatePutGenealogy(w) ==
    LET rq == job[w].rq
        g  == job[w].g
    IN  /\ At(w, "putGen")
        /\ Serves(w, "UpdateVisibility")
        /\ PutGenealogy(rq.gid, rq.vis, g.by)
        /\ Go(w, IF Delta(g.vis, rq.vis) # 0 THEN "count" ELSE "invalidate")
        /\ UNCHANGED <<mem, bans, priv, cache, used, held>>

\* IncPrivateGenealogy or DecPrivateGenealogy.
Count(w) ==
    LET rq    == job[w].rq
        delta == CASE rq.op = "Create" -> 1
                   [] rq.op = "Delete" -> -1
                   [] OTHER            -> Delta(job[w].g.vis, rq.vis)
    IN  /\ At(w, "count")
        /\ priv' = [priv EXCEPT ![QuotaHolder(w)] = incCounter(@, delta)]
        /\ Go(w, "invalidate")
        /\ UNCHANGED <<gen, mem, bans, cache, used, held>>

(* Delete *)

DeleteBegin(w) ==
    LET g == gen[job[w].rq.gid]
    IN  /\ At(w, "ready")
        /\ Serves(w, "Delete")
        /\ IF Lacks(w, Owner) \/ g = NoGen
           THEN Done(w)
           ELSE job' = [job EXCEPT ![w].g = g, ![w].pc = "drop"]
        /\ UNCHANGED <<store, cache, used, held>>

\* Mutant: the record goes, the memberships stay.
DropStore_KeepMembers(w) ==
    /\ At(w, "drop")
    /\ Go(w, "delGen")
    /\ UNCHANGED <<store, cache, used, held>>

\* Tenants.Drop and RemoveOnDisk: no effect on the state of this module.
DropStore(w) ==
    /\ At(w, "drop")
    /\ Go(w, "scan")
    /\ UNCHANGED <<store, cache, used, held>>

ScanMembers(w) ==
    LET subs == MembersOf(job[w].rq.gid)
    IN  /\ At(w, "scan")
        /\ job' = [job EXCEPT ![w].todo = subs, ![w].pc = IF subs = {} THEN "delGen" ELSE "delMems"]
        /\ UNCHANGED <<store, cache, used, held>>

\* After one iteration of the loop over mems.
Forgot(w, u) ==
    job' = [job EXCEPT ![w].todo = @ \ {u},
                       ![w].pc = IF job[w].todo = {u} THEN "delGen" ELSE "delMems"]

DeleteMembers(w) ==
    /\ At(w, "delMems")
    /\ \E u \in job[w].todo :
          /\ ClearMember(job[w].rq.gid, u)
          /\ Forgot(w, u)
    /\ UNCHANGED <<gen, bans, priv, cache, used, held>>

DeleteRecord(w) ==
    /\ At(w, "delGen")
    /\ gen' = [gen EXCEPT ![job[w].rq.gid] = NoGen]
    /\ Go(w, IF job[w].g.vis = "Private" THEN "count" ELSE "invalidate")
    /\ UNCHANGED <<mem, bans, priv, cache, used, held>>

(* UpsertMembership, RemoveMember, LeaveGenealogy *)

\* Mutant: a Curator may grant Owner.
UpsertMembership_NoCeiling(w) ==
    LET rq == job[w].rq
    IN  /\ At(w, "ready")
        /\ Serves(w, "Upsert")
        /\ IF Lacks(w, Curator)
           THEN Done(w) /\ UNCHANGED <<mem, held>>
           ELSE /\ SetMember(rq.gid, rq.tgt, rq.role, rq.sub)
                /\ Go(w, "invalidate")
        /\ UNCHANGED <<gen, bans, priv, cache, used>>

UpsertMembership(w) ==
    LET rq == job[w].rq
    IN  /\ At(w, "ready")
        /\ Serves(w, "Upsert")
        /\ IF Lacks(w, Curator) \/ (rq.role = Owner /\ Lacks(w, Owner))
           THEN Done(w) /\ UNCHANGED <<mem, held>>
           ELSE /\ SetMember(rq.gid, rq.tgt, rq.role, rq.sub)
                /\ Go(w, "invalidate")
        /\ UNCHANGED <<gen, bans, priv, cache, used>>

RemoveMember(w) ==
    LET rq       == job[w].rq
        existing == mem[rq.gid][rq.tgt].role
    IN  /\ At(w, "ready")
        /\ Serves(w, "Remove")
        /\ CASE Lacks(w, Curator) \/ existing = None -> Done(w)
             [] existing = Owner /\ Lacks(w, Owner)  -> Done(w)
             [] existing = Owner /\ ~Lacks(w, Owner) -> Go(w, "owners")
             [] OTHER                                -> Go(w, "delMem")
        /\ UNCHANGED <<store, cache, used, held>>

LeaveGenealogy(w) ==
    LET existing == mem[job[w].rq.gid][job[w].rq.sub].role
    IN  /\ At(w, "ready")
        /\ Serves(w, "Leave")
        /\ CASE existing = None  -> Done(w)
             [] existing = Owner -> Go(w, "owners")
             [] OTHER            -> Go(w, "delMem")
        /\ UNCHANGED <<store, cache, used, held>>

\* Mutant: off by one.
CheckOwners_OffByOne(w) ==
    /\ At(w, "owners")
    /\ IF countOwners(job[w].rq.gid) < 1 THEN Done(w) ELSE Go(w, "delMem")
    /\ UNCHANGED <<store, cache, used, held>>

CheckOwners(w) ==
    /\ At(w, "owners")
    /\ IF countOwners(job[w].rq.gid) <= 1 THEN Done(w) ELSE Go(w, "delMem")
    /\ UNCHANGED <<store, cache, used, held>>

\* The member that a Remove or a Leave takes out.
Leaver(w) == IF Serves(w, "Leave") THEN job[w].rq.sub ELSE job[w].rq.tgt

DeleteMembership(w) ==
    /\ At(w, "delMem")
    /\ ClearMember(job[w].rq.gid, Leaver(w))
    /\ Go(w, "invalidate")
    /\ UNCHANGED <<gen, bans, priv, cache, used, held>>

(* BanUser, UnbanUser *)

BanUser(w) ==
    LET rq == job[w].rq
    IN  /\ At(w, "ready")
        /\ Serves(w, "Ban")
        /\ bans' = IF Lacks(w, Curator) THEN bans ELSE bans \cup {<<rq.gid, rq.tgt>>}
        /\ Done(w)
        /\ UNCHANGED <<gen, mem, priv, cache, used, held>>

UnbanUser(w) ==
    LET rq == job[w].rq
    IN  /\ At(w, "ready")
        /\ Serves(w, "Unban")
        /\ bans' = IF Lacks(w, Curator) THEN bans ELSE bans \ {<<rq.gid, rq.tgt>>}
        /\ Done(w)
        /\ UNCHANGED <<gen, mem, priv, cache, used, held>>

(* GetGenealogy, ListMembers: once authorized, they read and return *)

GetGenealogy(w) ==
    /\ At(w, "ready")
    /\ Serves(w, "Get")
    /\ Done(w)
    /\ UNCHANGED <<store, cache, used, held>>

ListMembers(w) ==
    /\ At(w, "ready")
    /\ Serves(w, "ListMembers")
    /\ Done(w)
    /\ UNCHANGED <<store, cache, used, held>>

-----------------------------------------------------------------------------
(* Faults *)

\* A store operation fails.  The handler returns the error, except where it
\* discards it: the deletion of one membership, and the counter of
\* UpdateVisibility and Delete.
StoreError(w) ==
    /\ "error" \in Faults
    /\ job[w].pc \notin {"idle", "cacheGet", "cachePut", "invalidate"}
    /\ CASE At(w, "delMems") -> \E u \in job[w].todo : Forgot(w, u)
         [] At(w, "count") /\ ~Serves(w, "Create") -> Go(w, "invalidate")
         [] OTHER -> Done(w)
    /\ UNCHANGED <<store, cache, used, held>>

\* The process dies and comes back: requests and cache are gone, Badger is not.
Crash ==
    /\ "crash" \in Faults
    /\ job' = [w \in Workers |-> Idle]
    /\ cache' = [k \in Subjects \X Gids |-> None]
    /\ UNCHANGED <<store, used, held>>

-----------------------------------------------------------------------------
Resolve(w) == CacheGet(w) \/ ReadGenealogy(w) \/ ReadMembership(w) \/ CachePut(w)

Handle(w) ==
    \/ CheckQuota(w) \/ CreatePutGenealogy(w) \/ PutOwner(w)
    \/ UpdateVisibility(w) \/ UpdatePutGenealogy(w) \/ Count(w)
    \/ DeleteBegin(w) \/ DropStore(w) \/ ScanMembers(w) \/ DeleteMembers(w) \/ DeleteRecord(w)
    \/ UpsertMembership(w) \/ RemoveMember(w) \/ LeaveGenealogy(w)
    \/ CheckOwners(w) \/ DeleteMembership(w)
    \/ BanUser(w) \/ UnbanUser(w) \/ GetGenealogy(w) \/ ListMembers(w) \/ Invalidate(w)

Next ==
    \/ \E w \in Workers, rq \in Requests : Start(w, rq)
    \/ \E w \in Workers : Resolve(w) \/ Handle(w) \/ StoreError(w)
    \/ \E k \in Subjects \X Gids : Expire(k)
    \/ Crash

Spec == Init /\ [][Next]_vars

-----------------------------------------------------------------------------
(* Properties *)

Quiet == \A w \in Workers : At(w, "idle")

PrivateBy(u) == {g \in Gids : gen[g] # NoGen /\ gen[g].vis = "Private" /\ gen[g].by = u}

\* Nobody gets Curator or Owner by himself: whoever the resolver takes for a
\* Curator or an Owner, in the cache or in a request being served, was given
\* that role on that genealogy, however requests, expiry and crashes interleave.
DecisionsEarned ==
    /\ \A k \in Subjects \X Gids : cache[k] >= Curator => k[1] \in Users /\ held[k[2]][k[1]] >= cache[k]
    /\ \A w \in Workers : job[w].d >= Curator =>
          job[w].rq.sub \in Users /\ held[job[w].rq.gid][job[w].rq.sub] >= job[w].d

\* GrantedBy never lies: an Owner was made by a (then) Owner, any other member
\* by somebody who was at least Curator.
GrantsAuthorized ==
    \A g \in Gids, u \in Users :
        mem[g][u].role # None =>
            /\ mem[g][u].by \in Users
            /\ held[g][mem[g][u].by] >= (IF mem[g][u].role = Owner THEN Owner ELSE Curator)

\* ListGenealogies and Resolve tell one story.  Every genealogy that Resolve lets
\* a subject into is listed to him, the ones Unlisted to a non-member excepted;
\* and whatever is listed exists, and is shown with the role Resolve gives him or
\* with the role of a member whose subject extends his by a slash.
ListingAgrees ==
    \A s \in Subjects, g \in Gids : \A out \in ListGenealogies(s) :
        LET role  == EffectiveRole(s, g)
            shown == role # None /\ (gen[g].vis = "Unlisted" => explicitRole(s, g) # None)
        IN  /\ shown => g \in DOMAIN out
            /\ g \in DOMAIN out =>
                 /\ gen[g] # NoGen
                 /\ \/ shown /\ out[g] = role
                    \/ \E t \in RowsUnder(s, g) \ {s} : out[g] = mem[g][t].role

\* A membership belongs to a genealogy that exists, at every step of every
\* handler and after a crash: Create writes the record first, Delete removes
\* it last.
NoOrphanMembers ==
    \A g \in Gids, u \in Users : mem[g][u].role # None => gen[g] # NoGen

\* Between requests the cached decisions are the ones Resolve would make anew.
CacheFresh ==
    Quiet => \A k \in Subjects \X Gids : cache[k] # None => cache[k] = EffectiveRole(k[1], k[2])

\* A deleted genealogy stays deleted: its uuid is never written again.
DeletedStaysDeleted ==
    [][\A g \in Gids : g \in used /\ gen[g] = NoGen => gen'[g] = NoGen]_vars

\* A Remove or a Leave does not take the last owner out.
KeepsAnOwner ==
    \A w \in Workers, g \in Gids :
        At(w, "delMem") /\ job[w].rq.gid = g /\ DeleteMembership(w) /\ countOwners(g) > 0
           => countOwners(g)' > 0

\* genealogies.go: "Removing the LAST Owner is forbidden", "the last Owner
\* cannot leave".
LastOwnerStays == [][KeepsAnOwner]_vars
=============================================================================
