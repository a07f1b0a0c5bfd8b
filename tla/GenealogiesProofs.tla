------------------------- MODULE GenealogiesProofs -------------------------
(***************************************************************************)
(* Proofs about Genealogies, for any users, genealogies, workers, requests *)
(* and faults: typing, nobody takes a role by himself, GrantedBy never     *)
(* lies, listings agree with Resolve.  Then, for requests served one at a  *)
(* time: no orphan memberships, a fresh cache, the last owner stays.  Last *)
(* the private counter, with the history variable of MCGenealogiesQuota:   *)
(* how far it and the quota can be off, and that one request at a time     *)
(* without faults keeps both exact.                                        *)
(***************************************************************************)
EXTENDS MCGenealogiesQuota, FiniteSetTheorems, TLAPS

Resolving == {"cacheGet", "readGen", "readMem", "cachePut"}
Deleting  == {"drop", "scan", "delMems", "delGen"}

\* Where the handler of an operation can be.
Path(op) ==
    CASE op = "Create"           -> {"check", "putGen", "putOwner", "count", "invalidate"}
      [] op = "UpdateVisibility" -> Resolving \cup {"ready", "check", "putGen", "count", "invalidate"}
      [] op = "Delete"           -> Resolving \cup Deleting \cup {"ready", "count", "invalidate"}
      [] op = "Upsert"           -> Resolving \cup {"ready", "invalidate"}
      [] op = "Remove"           -> Resolving \cup {"ready", "owners", "delMem", "invalidate"}
      [] op = "Leave"            -> {"ready", "owners", "delMem", "invalidate"}
      [] OTHER                   -> Resolving \cup {"ready"}

\* What a handler carries where it is: a valid request, the genealogy it is
\* about once there is one, and the record once it was read.
JobFits(j) ==
    IF j.pc = "idle" THEN j = Idle
    ELSE /\ Valid(j.rq) /\ j.pc \in Path(j.rq.op)
         /\ j.rq.op = "Create" => j.d = None
         /\ j.rq.op # "Create" \/ j.pc \notin {"check", "putGen"} => j.rq.gid \in Gids
         /\ j.pc \in {"readMem", "check", "putGen", "count"} \cup Deleting /\ j.rq.op # "Create"
               => j.g # NoGen

\* The decision a handler carries was earned (the second half of
\* DecisionsEarned, for one job).
JobEarned(j) ==
    j.d >= Curator => j.rq.sub \in Users /\ held[j.rq.gid][j.rq.sub] >= j.d

JobsFit == \A w \in Workers : JobFits(job[w])

\* held is the highest role a member ever had.
MembersHeld == \A g \in Gids, u \in Users : mem[g][u].role <= held[g][u]

\* The inductive invariant.
IInv == TypeOK /\ JobsFit /\ MembersHeld /\ DecisionsEarned /\ GrantsAuthorized

-----------------------------------------------------------------------------
(* What a step may do to the job of its worker *)

\* Nothing was given yet.
LEMMA InitIInv == Init => IInv
<1> SUFFICES ASSUME Init PROVE IInv
  OBVIOUS
<1>1. Idle \in Jobs
  BY NullsAssumption DEF Idle, NoRequest, Jobs, PCs, AllRequests, Ops, Roles, None, Owner, Subjects
<1>2. TypeOK
  BY <1>1 DEF Init, TypeOK, NoMember, Members, Roles, None, Owner
<1>3. JobsFit
  BY DEF Init, JobsFit, JobFits, Idle
<1>4. MembersHeld /\ GrantsAuthorized
  BY DEF Init, MembersHeld, GrantsAuthorized, NoMember, None
<1>5. DecisionsEarned
  BY DEF Init, DecisionsEarned, None, Curator, Idle
<1> QED BY <1>2, <1>3, <1>4, <1>5 DEF IInv

\* A step of one handler that writes no record and no cache entry.
LEMMA JobStep ==
    ASSUME IInv, NEW w \in Workers, NEW j \in Jobs, JobFits(j), JobEarned(j),
           job' = [job EXCEPT ![w] = j],
           UNCHANGED <<store, cache, used, held>>
    PROVE  IInv'
<1>1. TypeOK'
  BY DEF IInv, TypeOK, store
<1>2. JobsFit'
  BY DEF IInv, TypeOK, JobsFit
<1>3. MembersHeld' /\ GrantsAuthorized'
  BY DEF IInv, MembersHeld, GrantsAuthorized, store
<1>4. DecisionsEarned'
  BY DEF IInv, TypeOK, DecisionsEarned, JobEarned
<1> QED BY <1>1, <1>2, <1>3, <1>4 DEF IInv

\* The idle job fits.
LEMMA IdleFits == Idle \in Jobs /\ JobFits(Idle) /\ JobEarned(Idle)
<1>1. Idle \in Jobs
  BY NullsAssumption DEF Idle, NoRequest, Jobs, PCs, AllRequests, Ops, Roles, None, Owner, Subjects
<1> QED BY <1>1 DEF JobFits, JobEarned, Idle, None, Curator

\* A handler that goes on to another step of its path, with what it needs there.
LEMMA NextPC ==
    ASSUME IInv, NEW w \in Workers, ~At(w, "idle"), NEW pc \in Path(job[w].rq.op) \ {"idle"},
           job[w].rq.op = "Create" /\ At(w, "check") => pc \in {"check", "putGen"},
           At(w, "putGen") => job[w].rq.op # "Create",
           pc \in {"readMem", "check", "putGen", "count"} \cup Deleting /\ job[w].rq.op # "Create"
               => job[w].g # NoGen
    PROVE  LET j == [job[w] EXCEPT !.pc = pc]
           IN  j \in Jobs /\ JobFits(j) /\ JobEarned(j)
<1> DEFINE j == [job[w] EXCEPT !.pc = pc]
<1>1. job[w] \in Jobs /\ JobFits(job[w]) /\ JobEarned(job[w])
  BY DEF IInv, TypeOK, JobsFit, DecisionsEarned, JobEarned
<1>2. pc \in PCs
  BY DEF Path, PCs, Resolving, Deleting
<1>3. j \in Jobs /\ j.pc = pc /\ j.rq = job[w].rq /\ j.d = job[w].d /\ j.g = job[w].g
  BY <1>1, <1>2 DEF Jobs
<1> HIDE DEF j
<1>4. JobFits(j)
  BY <1>1, <1>3 DEF JobFits, At
<1>5. JobEarned(j)
  BY <1>1, <1>3 DEF JobEarned
<1> QED BY <1>3, <1>4, <1>5 DEF j

\* A handler that moves on, or ends, with no other effect.
LEMMA Moved ==
    ASSUME IInv, NEW w \in Workers, ~At(w, "idle"), NEW pc \in Path(job[w].rq.op),
           job[w].rq.op = "Create" /\ At(w, "check") => pc \in {"check", "putGen"},
           At(w, "putGen") => job[w].rq.op # "Create",
           pc \in {"readMem", "check", "putGen", "count"} \cup Deleting /\ job[w].rq.op # "Create"
               => job[w].g # NoGen,
           Go(w, pc), UNCHANGED <<store, cache, used, held>>
    PROVE  IInv'
<1> DEFINE j == [job[w] EXCEPT !.pc = pc]
<1>1. pc # "idle"
  BY DEF Path, Resolving, Deleting
<1>2. j \in Jobs /\ JobFits(j) /\ JobEarned(j)
  BY <1>1, NextPC
<1>3. job' = [job EXCEPT ![w] = j]
  BY DEF Go
<1> HIDE DEF j
<1> QED BY <1>2, <1>3, JobStep

\* A handler that only ends.
LEMMA Ended ==
    ASSUME IInv, NEW w \in Workers, Done(w), UNCHANGED <<store, cache, used, held>>
    PROVE  IInv'
BY IdleFits, JobStep DEF Done

-----------------------------------------------------------------------------
(* Start and Resolve *)

\* A new request carries no decision yet.
LEMMA StartStep ==
    ASSUME IInv, NEW w \in Workers, NEW rq \in Requests, Start(w, rq)
    PROVE  IInv'
<1> DEFINE j == [Idle EXCEPT !.pc = FirstStep(rq), !.rq = rq]
<1>1. rq \in AllRequests /\ Valid(rq)
  BY RequestsAssumption
<1>2. Idle \in Jobs /\ Idle.d = None
  BY IdleFits DEF Idle
<1>3. FirstStep(rq) \in Path(rq.op) \cap PCs
  BY DEF FirstStep, Path, PCs, Resolving, Deleting
<1>4. j \in Jobs /\ j.pc = FirstStep(rq) /\ j.rq = rq /\ j.d = None
  BY <1>1, <1>2, <1>3 DEF Jobs
<1>5. FirstStep(rq) # "idle"
  BY DEF FirstStep
<1>6. FirstStep(rq) \in {"check", "putGen"} \/ rq.op # "Create"
  BY DEF FirstStep
<1>7. rq.op # "Create" => rq.gid \in Gids /\ FirstStep(rq) \in {"ready", "cacheGet"}
  BY <1>1 DEF Valid, AllRequests, Ops, FirstStep
<1>8. JobFits(j)
  <2> HIDE DEF j
  <2> QED BY <1>4, <1>1, <1>3, <1>5, <1>6, <1>7 DEF JobFits, Deleting
<1>9. JobEarned(j)
  BY <1>4 DEF JobEarned, None, Curator
<1>10. job' = [job EXCEPT ![w] = j]
  BY DEF Start
<1> HIDE DEF j
<1> QED BY <1>4, <1>8, <1>9, <1>10, JobStep DEF Start

\* A cached decision was earned, so the handler that takes it over carries an
\* earned one.
LEMMA CacheGetStep ==
    ASSUME IInv, NEW w \in Workers, CacheGet(w)
    PROVE  IInv'
<1> DEFINE r == cache[<<job[w].rq.sub, job[w].rq.gid>>]
           pc == IF r # None THEN "ready" ELSE "readGen"
           j == [job[w] EXCEPT !.pc = pc, !.d = r]
<1>1. job[w] \in Jobs /\ JobFits(job[w]) /\ job[w].pc = "cacheGet"
  BY DEF IInv, TypeOK, JobsFit, CacheGet, At
<1>2. job[w].rq.gid \in Gids /\ job[w].rq.op \notin {"Create", "Leave"} /\ Valid(job[w].rq)
  BY <1>1 DEF JobFits, Path
<1>3. <<job[w].rq.sub, job[w].rq.gid>> \in Subjects \X Gids
  BY <1>1, <1>2 DEF Jobs, AllRequests
<1>4. r \in Roles /\ (r >= Curator => job[w].rq.sub \in Users /\ held[job[w].rq.gid][job[w].rq.sub] >= r)
  BY <1>3 DEF IInv, TypeOK, DecisionsEarned
<1>5. pc \in Path(job[w].rq.op) \cap PCs
  BY <1>1, <1>2 DEF JobFits, Path, PCs, Resolving, Deleting, Jobs, AllRequests, Ops
<1>6. /\ j \in Jobs /\ j.pc = pc /\ j.rq = job[w].rq /\ j.d = r
  BY <1>1, <1>4, <1>5 DEF Jobs
<1>7. job' = [job EXCEPT ![w] = j]
  BY DEF CacheGet
<1>8. pc \in {"ready", "readGen"}
  OBVIOUS
<1> HIDE DEF j, pc, r
<1>9. JobFits(j)
  BY <1>2, <1>5, <1>6, <1>8 DEF JobFits, Deleting
<1>10. JobEarned(j)
  BY <1>4, <1>6 DEF JobEarned
<1> QED BY <1>6, <1>7, <1>9, <1>10, JobStep DEF CacheGet

\* The handler takes the record it found with it.
LEMMA ReadGenealogyStep ==
    ASSUME IInv, NEW w \in Workers, ReadGenealogy(w)
    PROVE  IInv'
<1> DEFINE g == gen[job[w].rq.gid]
           j == [job[w] EXCEPT !.pc = "readMem", !.g = g]
<1>1. CASE g = NoGen
  BY <1>1, Ended DEF ReadGenealogy
<1>2. CASE g # NoGen
  <2>1. job[w] \in Jobs /\ JobFits(job[w]) /\ JobEarned(job[w]) /\ job[w].pc = "readGen"
    BY DEF IInv, TypeOK, JobsFit, DecisionsEarned, JobEarned, ReadGenealogy, At
  <2>2. job[w].rq.gid \in Gids /\ job[w].rq.op \notin {"Create", "Leave"} /\ Valid(job[w].rq)
    BY <2>1 DEF JobFits, Path
  <2>3. g \in GenRecords
    BY <1>2, <2>2 DEF IInv, TypeOK
  <2>4. "readMem" \in Path(job[w].rq.op)
    BY <2>1, <2>2 DEF JobFits, Path, Resolving, Deleting
  <2>5. j \in Jobs /\ j.pc = "readMem" /\ j.rq = job[w].rq /\ j.d = job[w].d /\ j.g = g
    BY <2>1, <2>3 DEF Jobs, PCs
  <2>6. job' = [job EXCEPT ![w] = j]
    BY <1>2 DEF ReadGenealogy
  <2> HIDE DEF j
  <2>7. JobFits(j)
    BY <1>2, <2>2, <2>4, <2>5 DEF JobFits
  <2>8. JobEarned(j)
    BY <2>1, <2>5 DEF JobEarned
  <2> QED BY <2>5, <2>6, <2>7, <2>8, JobStep DEF ReadGenealogy
<1> QED BY <1>1, <1>2

\* A decision is a role, and one above Contributor is the explicit one.
LEMMA ResolveDecides ==
    ASSUME NEW g \in GenRecords, NEW explicit \in Roles, NEW s
    PROVE  /\ resolveLocked(g, explicit, s) \in Roles
           /\ resolveLocked(g, explicit, s) >= Curator
                 => s \in Users /\ resolveLocked(g, explicit, s) = explicit
<1>1. g.vis \in Visibilities
  BY DEF GenRecords
<1>2. implicitRole(g.vis, s \in Users) \in {None, Viewer, Contributor}
  BY <1>1 DEF implicitRole, Visibilities
<1> QED BY <1>2 DEF resolveLocked, Roles, None, Viewer, Contributor, Curator, Owner

\* The decision rests on a membership, and members were given their roles.
LEMMA ReadMembershipStep ==
    ASSUME IInv, NEW w \in Workers, ReadMembership(w)
    PROVE  IInv'
<1> DEFINE rq == job[w].rq
           d == resolveLocked(job[w].g, explicitRole(rq.sub, rq.gid), rq.sub)
           j == [job[w] EXCEPT !.pc = "cachePut", !.d = d, !.g = NoGen]
<1>1. CASE d = None
  BY <1>1, Ended DEF ReadMembership
<1>2. CASE d # None
  <2>1. job[w] \in Jobs /\ JobFits(job[w]) /\ job[w].pc = "readMem"
    BY DEF IInv, TypeOK, JobsFit, ReadMembership, At
  <2>2. rq.gid \in Gids /\ rq.op \notin {"Create", "Leave"} /\ Valid(rq) /\ job[w].g # NoGen
    BY <2>1 DEF JobFits, Path
  <2>3. explicitRole(rq.sub, rq.gid) \in Roles
        /\ (rq.sub \in Users => explicitRole(rq.sub, rq.gid) <= held[rq.gid][rq.sub])
    BY <2>2 DEF IInv, TypeOK, explicitRole, MembersHeld, Members, Roles, None, Owner
  <2>4. job[w].g \in GenRecords
    BY <2>1, <2>2 DEF Jobs
  <2>5. d \in Roles /\ (d >= Curator => rq.sub \in Users /\ d = explicitRole(rq.sub, rq.gid))
    BY <2>3, <2>4, ResolveDecides
  <2>6. "cachePut" \in Path(rq.op)
    BY <2>1, <2>2 DEF JobFits, Path, Resolving, Deleting
  <2>7. j \in Jobs /\ j.pc = "cachePut" /\ j.rq = job[w].rq /\ j.d = d
    BY <2>1, <2>5 DEF Jobs, PCs
  <2>8. job' = [job EXCEPT ![w] = j]
    BY <1>2 DEF ReadMembership
  <2>11. held \in [Gids -> [Users -> Roles]]
    BY DEF IInv, TypeOK
  <2> HIDE DEF j, d
  <2>9. JobFits(j)
    BY <2>2, <2>6, <2>7 DEF JobFits, Deleting
  <2>10. JobEarned(j)
    BY <2>2, <2>3, <2>5, <2>7, <2>11 DEF JobEarned, Roles, Curator, None, Owner
  <2> QED BY <2>7, <2>8, <2>9, <2>10, JobStep DEF ReadMembership
<1> QED BY <1>1, <1>2

\* A step that changes the cache and the job of one worker.
LEMMA CacheStep ==
    ASSUME IInv, NEW w \in Workers, NEW j \in Jobs, JobFits(j), JobEarned(j),
           job' = [job EXCEPT ![w] = j],
           cache' \in [Subjects \X Gids -> Roles],
           \A k \in Subjects \X Gids :
              cache'[k] >= Curator => k[1] \in Users /\ held[k[2]][k[1]] >= cache'[k],
           UNCHANGED <<store, used, held>>
    PROVE  IInv'
<1>1. TypeOK'
  BY DEF IInv, TypeOK, store
<1>2. JobsFit'
  BY DEF IInv, TypeOK, JobsFit
<1>3. MembersHeld' /\ GrantsAuthorized'
  BY DEF IInv, MembersHeld, GrantsAuthorized, store
<1>4. DecisionsEarned'
  BY DEF IInv, TypeOK, DecisionsEarned, JobEarned
<1> QED BY <1>1, <1>2, <1>3, <1>4 DEF IInv

\* What the handler earned goes into the cache under its own subject.
LEMMA CachePutStep ==
    ASSUME IInv, NEW w \in Workers, CachePut(w)
    PROVE  IInv'
<1> DEFINE rq == job[w].rq
           k == <<rq.sub, rq.gid>>
           j == [job[w] EXCEPT !.pc = "ready"]
<1>1. job[w] \in Jobs /\ JobFits(job[w]) /\ JobEarned(job[w]) /\ job[w].pc = "cachePut"
  BY DEF IInv, TypeOK, JobsFit, DecisionsEarned, JobEarned, CachePut, At
<1>2. rq.gid \in Gids /\ "ready" \in Path(rq.op)
  BY <1>1 DEF JobFits, Path, Resolving, Deleting
<1>3. j \in Jobs /\ JobFits(j) /\ JobEarned(j)
  BY <1>1, <1>2, NextPC DEF At, Deleting
<1>4. job' = [job EXCEPT ![w] = j]
  BY DEF CachePut, Go
<1>5. job[w].d \in Roles /\ k \in Subjects \X Gids
  BY <1>1, <1>2 DEF Jobs, AllRequests
<1>6. cache' = [cache EXCEPT ![k] = job[w].d]
  BY DEF CachePut
<1>7. cache' \in [Subjects \X Gids -> Roles]
  BY <1>5, <1>6 DEF IInv, TypeOK
<1>8. ASSUME NEW x \in Subjects \X Gids, cache'[x] >= Curator
      PROVE  x[1] \in Users /\ held[x[2]][x[1]] >= cache'[x]
  <2>1. CASE x = k
    BY <2>1, <1>1, <1>5, <1>6, <1>8 DEF IInv, TypeOK, JobEarned
  <2>2. CASE x # k
    BY <2>2, <1>5, <1>6, <1>8 DEF IInv, TypeOK, DecisionsEarned
  <2> QED BY <2>1, <2>2
<1> HIDE DEF j
<1> QED BY <1>3, <1>4, <1>7, <1>8, CacheStep DEF CachePut

\* Dropping entries leaves earned ones.
LEMMA InvalidateStep ==
    ASSUME IInv, NEW w \in Workers, Invalidate(w)
    PROVE  IInv'
<1>1. cache' \in [Subjects \X Gids -> Roles]
  BY DEF Invalidate, IInv, TypeOK, Roles, None, Owner
<1>2. ASSUME NEW x \in Subjects \X Gids, cache'[x] >= Curator
      PROVE  x[1] \in Users /\ held[x[2]][x[1]] >= cache'[x]
  <2>1. cache'[x] = cache[x]
    BY <1>2 DEF Invalidate, None, Curator
  <2> QED BY <2>1, <1>2 DEF IInv, DecisionsEarned
<1> QED BY <1>1, <1>2, IdleFits, CacheStep DEF Invalidate, Done

\* An entry that expires leaves earned ones.
LEMMA ExpireStep ==
    ASSUME IInv, NEW k \in Subjects \X Gids, Expire(k)
    PROVE  IInv'
<1>1. TypeOK'
  BY DEF Expire, IInv, TypeOK, store, Roles, None, Owner
<1>2. JobsFit' /\ MembersHeld' /\ GrantsAuthorized'
  BY DEF Expire, IInv, JobsFit, MembersHeld, GrantsAuthorized, store
<1>3. DecisionsEarned'
  BY DEF Expire, IInv, TypeOK, DecisionsEarned, store, None, Curator
<1> QED BY <1>1, <1>2, <1>3 DEF IInv

\* After a restart nothing is cached and nobody is served.
LEMMA CrashStep ==
    ASSUME IInv, Crash
    PROVE  IInv'
<1>1. TypeOK'
  BY IdleFits DEF Crash, IInv, TypeOK, store, Roles, None, Owner
<1>2. JobsFit'
  BY IdleFits DEF Crash, JobsFit
<1>3. MembersHeld' /\ GrantsAuthorized'
  BY DEF Crash, IInv, MembersHeld, GrantsAuthorized, store
<1>4. DecisionsEarned'
  BY DEF Crash, DecisionsEarned, Idle, None, Curator
<1> QED BY <1>1, <1>2, <1>3, <1>4 DEF IInv

-----------------------------------------------------------------------------
(* The writes *)

\* A step that writes records, bans or counters and moves one worker, and
\* changes no membership.
LEMMA RecordStep ==
    ASSUME IInv, NEW w \in Workers, NEW j \in Jobs, JobFits(j), JobEarned(j),
           job' = [job EXCEPT ![w] = j],
           gen' \in [Gids -> GenRecords \cup {NoGen}], bans' \subseteq Gids \X Users,
           priv' \in [Users -> Nat], used' \subseteq Gids,
           UNCHANGED <<mem, cache, held>>
    PROVE  IInv'
<1>1. TypeOK'
  BY DEF IInv, TypeOK
<1>2. JobsFit'
  BY DEF IInv, TypeOK, JobsFit
<1>3. MembersHeld' /\ GrantsAuthorized'
  BY DEF IInv, MembersHeld, GrantsAuthorized
<1>4. DecisionsEarned'
  BY DEF IInv, TypeOK, DecisionsEarned, JobEarned
<1> QED BY <1>1, <1>2, <1>3, <1>4 DEF IInv

\* The quota check decides where the handler goes.
LEMMA CheckQuotaStep ==
    ASSUME IInv, NEW w \in Workers, CheckQuota(w)
    PROVE  IInv'
<1>1. JobFits(job[w]) /\ job[w].pc = "check"
  BY DEF IInv, JobsFit, CheckQuota, At
<1>2. "putGen" \in Path(job[w].rq.op) /\ (job[w].rq.op # "Create" => job[w].g # NoGen)
  BY <1>1 DEF JobFits, Path, Resolving, Deleting
<1>3. CASE Go(w, "putGen")
  BY <1>1, <1>2, <1>3, Moved DEF CheckQuota, At
<1>4. CASE Done(w)
  BY <1>4, Ended DEF CheckQuota
<1> QED BY <1>3, <1>4 DEF CheckQuota

\* A fresh id, on which the handler carries no decision.
LEMMA CreatePutGenealogyStep ==
    ASSUME IInv, NEW w \in Workers, CreatePutGenealogy(w)
    PROVE  IInv'
<1>1. job[w] \in Jobs /\ JobFits(job[w]) /\ job[w].pc = "putGen" /\ job[w].rq.op = "Create"
  BY DEF IInv, TypeOK, JobsFit, CreatePutGenealogy, At, Serves
<1>2. Valid(job[w].rq) /\ job[w].d = None
  BY <1>1 DEF JobFits
<1>3. job[w].rq.sub \in Users /\ job[w].rq.vis \in Visibilities
  BY <1>1, <1>2 DEF Valid
<1>4. PICK gid \in Gids \ used :
          /\ used' = used \cup {gid}
          /\ PutGenealogy(gid, job[w].rq.vis, job[w].rq.sub)
          /\ job' = [job EXCEPT ![w].pc = "putOwner", ![w].rq.gid = gid]
  BY DEF CreatePutGenealogy
<1> DEFINE r == [job[w].rq EXCEPT !.gid = gid]
           j == [job[w] EXCEPT !.pc = "putOwner", !.rq = r]
<1>5. r \in AllRequests /\ r.op = "Create" /\ r.gid = gid /\ r.sub = job[w].rq.sub
      /\ r.vis = job[w].rq.vis
  BY <1>1 DEF Jobs, AllRequests
<1> HIDE DEF r
<1>6. j \in Jobs /\ j.pc = "putOwner" /\ j.rq = r /\ j.d = None
  BY <1>1, <1>2, <1>5 DEF Jobs, PCs
<1>7. job' = [job EXCEPT ![w] = j]
  BY <1>4, <1>1 DEF IInv, TypeOK, Jobs, r
<1> HIDE DEF j
<1>8. JobFits(j)
  BY <1>3, <1>5, <1>6 DEF JobFits, Valid, Path
<1>9. JobEarned(j)
  BY <1>6 DEF JobEarned, None, Curator
<1>10. gen' \in [Gids -> GenRecords \cup {NoGen}]
  BY <1>3, <1>4 DEF IInv, TypeOK, PutGenealogy, GenRecords
<1>11. used' \subseteq Gids /\ bans' \subseteq Gids \X Users /\ priv' \in [Users -> Nat]
  BY <1>4 DEF IInv, TypeOK, CreatePutGenealogy
<1> QED BY <1>6, <1>7, <1>8, <1>9, <1>10, <1>11, RecordStep DEF CreatePutGenealogy

\* held only grows, and to the role that is given.
LEMMA HeldGrows ==
    ASSUME IInv, NEW gid \in Gids, NEW u \in Users, NEW role \in Roles, NEW by,
           SetMember(gid, u, role, by)
    PROVE  /\ held' \in [Gids -> [Users -> Roles]]
           /\ held'[gid][u] >= role
           /\ \A g \in Gids, x \in Users :
                 /\ held[g][x] \in Int /\ held'[g][x] \in Int /\ held'[g][x] >= held[g][x]
<1> DEFINE top == IF role > held[gid][u] THEN role ELSE held[gid][u]
<1>1. held \in [Gids -> [Users -> Roles]]
  BY DEF IInv, TypeOK
<1>2. held' = [held EXCEPT ![gid][u] = top]
  BY <1>1 DEF SetMember
<1>3. top \in Roles /\ top >= role /\ top >= held[gid][u]
  BY <1>1 DEF Roles, None, Owner
<1> HIDE DEF top
<1>4. held' \in [Gids -> [Users -> Roles]]
  BY <1>1, <1>2, <1>3
<1>5. \A g \in Gids, x \in Users : held'[g][x] = IF g = gid /\ x = u THEN top ELSE held[g][x]
  BY <1>1, <1>2
<1>6. \A g \in Gids, x \in Users : held[g][x] \in Int /\ held'[g][x] \in Int
  BY <1>1, <1>4 DEF Roles, None, Owner
<1>7. \A g \in Gids, x \in Users : held'[g][x] >= held[g][x]
  BY <1>3, <1>5, <1>6
<1> QED BY <1>3, <1>4, <1>5, <1>6, <1>7

\* A membership is set, by somebody who holds enough by then, and one worker
\* goes on to where only the path matters.
LEMMA SetMemberStep ==
    ASSUME IInv, NEW w \in Workers, NEW gid \in Gids, NEW u \in Users, NEW by \in Users,
           NEW role \in Roles \ {None}, SetMember(gid, u, role, by),
           held'[gid][by] >= (IF role = Owner THEN Owner ELSE Curator),
           NEW pc \in {"count", "invalidate"}, Go(w, pc),
           pc = "count" => job[w].rq.op = "Create",
           job[w].pc \in {"putOwner", "ready"}, pc \in Path(job[w].rq.op),
           UNCHANGED <<gen, bans, priv, cache, used>>
    PROVE  IInv'
<1> DEFINE m == [role |-> role, by |-> by]
           j == [job[w] EXCEPT !.pc = pc]
<1>1. mem \in [Gids -> [Users -> Members]] /\ mem' = [mem EXCEPT ![gid][u] = m]
  BY DEF IInv, TypeOK, SetMember
<1>2. m \in Members /\ m.role = role /\ m.by = by
  BY DEF Members
<1> HIDE DEF m
<1>4. /\ mem' \in [Gids -> [Users -> Members]] /\ held' \in [Gids -> [Users -> Roles]]
  BY <1>1, <1>2, HeldGrows
<1>5. \A g \in Gids, x \in Users :
         held'[g][x] >= held[g][x] /\ held[g][x] \in Int /\ held'[g][x] \in Int
  BY HeldGrows
<1>6. \A g \in Gids, x \in Users : mem'[g][x] = IF g = gid /\ x = u THEN m ELSE mem[g][x]
  BY <1>1
<1>7. held'[gid][u] >= role
  BY HeldGrows
<1>8. j \in Jobs /\ JobFits(j) /\ JobEarned(j)
  BY NextPC DEF At, Deleting
<1>9. job' = [job EXCEPT ![w] = j]
  BY DEF Go
<1>10. j.rq = job[w].rq /\ j.d = job[w].d
  BY DEF IInv, TypeOK, Jobs
<1> HIDE DEF j
<1>11. TypeOK'
  BY <1>4, <1>8, <1>9 DEF IInv, TypeOK
<1>12. JobsFit'
  BY <1>8, <1>9 DEF IInv, TypeOK, JobsFit
<1>13. MembersHeld'
  <2> SUFFICES ASSUME NEW g \in Gids, NEW x \in Users
               PROVE  mem'[g][x].role <= held'[g][x]
    BY DEF MembersHeld
  <2>1. CASE g = gid /\ x = u
    BY <2>1, <1>2, <1>5, <1>6, <1>7 DEF Roles, None, Owner
  <2>2. CASE ~(g = gid /\ x = u)
    <3>1. mem'[g][x] = mem[g][x] /\ mem[g][x] \in Members
      BY <2>2, <1>1, <1>6
    <3>2. mem[g][x].role \in Int
      BY <3>1 DEF Members, Roles, None, Owner
    <3>3. mem[g][x].role <= held[g][x]
      BY DEF IInv, MembersHeld
    <3> QED BY <3>1, <3>2, <3>3, <1>5
  <2> QED BY <2>1, <2>2
<1>14. GrantsAuthorized'
  <2> SUFFICES ASSUME NEW g \in Gids, NEW x \in Users, mem'[g][x].role # None
               PROVE  /\ mem'[g][x].by \in Users
                      /\ held'[g][mem'[g][x].by] >=
                            (IF mem'[g][x].role = Owner THEN Owner ELSE Curator)
    BY DEF GrantsAuthorized
  <2>1. CASE g = gid /\ x = u
    BY <2>1, <1>2, <1>6
  <2>2. CASE ~(g = gid /\ x = u)
    <3>1. mem'[g][x] = mem[g][x]
      BY <2>2, <1>6
    <3>2. /\ mem[g][x].by \in Users
          /\ held[g][mem[g][x].by] >= (IF mem[g][x].role = Owner THEN Owner ELSE Curator)
      BY <3>1 DEF IInv, GrantsAuthorized
    <3>3. held'[g][mem[g][x].by] \in Int
      BY <3>2, <1>4 DEF Roles, None, Owner
    <3> QED BY <3>1, <3>2, <3>3, <1>5 DEF Owner, Curator
  <2> QED BY <2>1, <2>2
<1>15. DecisionsEarned'
  <2>1. ASSUME NEW k \in Subjects \X Gids, cache'[k] >= Curator
        PROVE  k[1] \in Users /\ held'[k[2]][k[1]] >= cache'[k]
    <3>1. cache[k] \in Int /\ cache' = cache
      BY DEF IInv, TypeOK, Roles, None, Owner
    <3>2. k[1] \in Users /\ k[2] \in Gids /\ held[k[2]][k[1]] >= cache[k]
      BY <2>1, <3>1 DEF IInv, DecisionsEarned
    <3> QED BY <3>1, <3>2, <1>4, <1>5 DEF Roles, None, Owner
  <2>2. ASSUME NEW v \in Workers, job'[v].d >= Curator
        PROVE  job'[v].rq.sub \in Users /\ held'[job'[v].rq.gid][job'[v].rq.sub] >= job'[v].d
    <3>1. job'[v].d = job[v].d /\ job'[v].rq = job[v].rq
      BY <1>9, <1>10 DEF IInv, TypeOK
    <3>2. job[v].rq.sub \in Users /\ held[job[v].rq.gid][job[v].rq.sub] >= job[v].d
      BY <2>2, <3>1 DEF IInv, DecisionsEarned
    <3>3. job[v].rq.gid \in Gids /\ job[v].d \in Int
      <4>1. job[v] \in Jobs /\ JobFits(job[v])
        BY DEF IInv, TypeOK, JobsFit
      <4>2. job[v].rq.op # "Create" /\ job[v].pc # "idle"
        BY <2>2, <3>1, <4>1 DEF JobFits, Curator, None, Idle
      <4> QED BY <4>1, <4>2 DEF JobFits, Jobs, Roles, None, Owner
    <3>4. LET x == held[job[v].rq.gid][job[v].rq.sub]
              y == held'[job[v].rq.gid][job[v].rq.sub]
          IN  x \in Int /\ y \in Int /\ y >= x
      BY <3>2, <3>3, <1>5
    <3> QED BY <3>1, <3>2, <3>3, <3>4
  <2> QED BY <2>1, <2>2 DEF DecisionsEarned
<1> QED BY <1>11, <1>12, <1>13, <1>14, <1>15 DEF IInv

\* The creator makes himself Owner: he is the one exception, and he held Owner
\* by then.
LEMMA PutOwnerStep ==
    ASSUME IInv, NEW w \in Workers, PutOwner(w)
    PROVE  IInv'
<1> DEFINE rq == job[w].rq
           pc == IF rq.vis = "Private" THEN "count" ELSE "invalidate"
<1>1. JobFits(job[w]) /\ job[w].pc = "putOwner"
  BY DEF IInv, JobsFit, PutOwner, At
<1>2. rq.op = "Create" /\ rq.gid \in Gids /\ rq.sub \in Users
  BY <1>1 DEF JobFits, Path, Valid, Resolving, Deleting
<1>3. SetMember(rq.gid, rq.sub, Owner, rq.sub) /\ Go(w, pc)
  BY DEF PutOwner
<1>4. Owner \in Roles \ {None}
  BY DEF Roles, None, Owner
<1>5. held'[rq.gid][rq.sub] >= Owner
  BY <1>2, <1>3, <1>4, HeldGrows
<1>6. pc \in {"count", "invalidate"} /\ pc \in Path(rq.op)
  BY <1>2 DEF Path
<1> HIDE DEF pc
<1> QED BY <1>1, <1>2, <1>3, <1>4, <1>5, <1>6, SetMemberStep DEF PutOwner

\* The caller carries Curator or Owner, which he earned, and grants no more
\* than that.
LEMMA UpsertMembershipStep ==
    ASSUME IInv, NEW w \in Workers, UpsertMembership(w)
    PROVE  IInv'
<1> DEFINE rq == job[w].rq
<1>1. CASE Lacks(w, Curator) \/ (rq.role = Owner /\ Lacks(w, Owner))
  BY <1>1, Ended DEF UpsertMembership, store
<1>2. CASE ~(Lacks(w, Curator) \/ (rq.role = Owner /\ Lacks(w, Owner)))
  <2>1. job[w] \in Jobs /\ JobFits(job[w]) /\ job[w].pc = "ready" /\ rq.op = "Upsert"
    BY DEF IInv, TypeOK, JobsFit, UpsertMembership, At, Serves
  <2>2. rq.gid \in Gids /\ rq.tgt \in Users /\ rq.role \in Roles \ {None}
    BY <2>1 DEF JobFits, Valid, Jobs, AllRequests
  <2>3. job[w].d \in Roles
    BY <2>1 DEF Jobs
  <2>4. job[w].d >= (IF rq.role = Owner THEN Owner ELSE Curator) /\ job[w].d >= Curator
    BY <1>2, <2>3 DEF Lacks, Roles, None, Owner, Curator
  <2>5. rq.sub \in Users /\ held[rq.gid][rq.sub] >= job[w].d
    BY <2>4 DEF IInv, DecisionsEarned
  <2>6. SetMember(rq.gid, rq.tgt, rq.role, rq.sub) /\ Go(w, "invalidate")
        /\ UNCHANGED <<gen, bans, priv, cache, used>>
    BY <1>2 DEF UpsertMembership
  <2>7. held'[rq.gid][rq.sub] >= held[rq.gid][rq.sub]
        /\ held'[rq.gid][rq.sub] \in Int /\ held[rq.gid][rq.sub] \in Int
    BY <2>2, <2>5, <2>6, HeldGrows
  <2>8. held'[rq.gid][rq.sub] >= (IF rq.role = Owner THEN Owner ELSE Curator)
    BY <2>3, <2>4, <2>5, <2>7 DEF Roles, None, Owner, Curator
  <2>9. "invalidate" \in Path(rq.op)
    BY <2>1 DEF Path
  <2> QED BY <2>1, <2>2, <2>5, <2>6, <2>8, <2>9, SetMemberStep
<1> QED BY <1>1, <1>2

\* A membership is taken away, and one worker goes on.
LEMMA ClearMemberStep ==
    ASSUME IInv, NEW w \in Workers, NEW gid, NEW u, ClearMember(gid, u),
           NEW j \in Jobs, JobFits(j), JobEarned(j), job' = [job EXCEPT ![w] = j],
           UNCHANGED <<gen, bans, priv, cache, used, held>>
    PROVE  IInv'
<1>0. mem \in [Gids -> [Users -> Members]] /\ mem' = [mem EXCEPT ![gid][u] = NoMember]
  BY DEF IInv, TypeOK, ClearMember
<1>1. NoMember \in Members /\ NoMember.role = None
  BY DEF NoMember, Members, Roles, None, Owner
<1>2. mem' \in [Gids -> [Users -> Members]]
  BY <1>0, <1>1
<1>3. \A g \in Gids, x \in Users : mem'[g][x] \in {mem[g][x], NoMember}
  BY <1>0
<1>4. TypeOK'
  BY <1>2 DEF IInv, TypeOK
<1>5. JobsFit'
  BY DEF IInv, TypeOK, JobsFit
<1>6. MembersHeld'
  <2> SUFFICES ASSUME NEW g \in Gids, NEW x \in Users PROVE mem'[g][x].role <= held[g][x]
    BY DEF MembersHeld
  <2>1. held[g][x] \in Roles
    BY DEF IInv, TypeOK
  <2> QED BY <2>1, <1>1, <1>3 DEF IInv, MembersHeld, Roles, None, Owner
<1>7. GrantsAuthorized'
  BY <1>1, <1>3 DEF IInv, GrantsAuthorized
<1>8. DecisionsEarned'
  BY DEF IInv, TypeOK, DecisionsEarned, JobEarned
<1> QED BY <1>4, <1>5, <1>6, <1>7, <1>8 DEF IInv

\* A membership less: held does not shrink.
LEMMA DeleteMembershipStep ==
    ASSUME IInv, NEW w \in Workers, DeleteMembership(w)
    PROVE  IInv'
<1> DEFINE j == [job[w] EXCEPT !.pc = "invalidate"]
<1>1. JobFits(job[w]) /\ job[w].pc = "delMem"
  BY DEF IInv, JobsFit, DeleteMembership, At
<1>2. "invalidate" \in Path(job[w].rq.op)
  BY <1>1 DEF JobFits, Path, Resolving, Deleting
<1>3. j \in Jobs /\ JobFits(j) /\ JobEarned(j)
  BY <1>1, <1>2, NextPC DEF At, Deleting
<1>4. job' = [job EXCEPT ![w] = j]
  BY DEF DeleteMembership, Go
<1> HIDE DEF j
<1> QED BY <1>3, <1>4, ClearMemberStep DEF DeleteMembership

\* One iteration of the loop of DeleteGenealogy leaves a job that fits.
LEMMA ForgotFits ==
    ASSUME IInv, NEW w \in Workers, At(w, "delMems"), NEW u, Forgot(w, u)
    PROVE  \E j \in Jobs : JobFits(j) /\ JobEarned(j) /\ job' = [job EXCEPT ![w] = j]
<1> DEFINE pc == IF job[w].todo = {u} THEN "delGen" ELSE "delMems"
           j == [job[w] EXCEPT !.todo = @ \ {u}, !.pc = pc]
<1>1. job[w] \in Jobs /\ JobFits(job[w]) /\ JobEarned(job[w]) /\ job[w].pc = "delMems"
  BY DEF IInv, TypeOK, JobsFit, DecisionsEarned, JobEarned, At
<1>2. job[w].rq.op = "Delete" /\ job[w].g # NoGen /\ Valid(job[w].rq) /\ job[w].rq.gid \in Gids
  BY <1>1 DEF JobFits, Path, Resolving, Deleting
<1>3. pc \in PCs /\ pc \in Path("Delete") /\ pc # "idle"
  BY DEF PCs, Path, Deleting
<1>4. /\ j \in Jobs /\ j.pc = pc /\ j.rq = job[w].rq /\ j.d = job[w].d /\ j.g = job[w].g
  BY <1>1, <1>3 DEF Jobs
<1>5. job' = [job EXCEPT ![w] = j]
  BY DEF Forgot, IInv, TypeOK
<1> HIDE DEF j, pc
<1>6. JobFits(j)
  BY <1>2, <1>3, <1>4 DEF JobFits
<1>7. JobEarned(j)
  BY <1>1, <1>4 DEF JobEarned
<1> QED BY <1>4, <1>5, <1>6, <1>7

\* One turn of the loop of DeleteGenealogy.
LEMMA DeleteMembersStep ==
    ASSUME IInv, NEW w \in Workers, DeleteMembers(w)
    PROVE  IInv'
<1>1. PICK u \in job[w].todo : ClearMember(job[w].rq.gid, u) /\ Forgot(w, u)
  BY DEF DeleteMembers
<1>2. PICK j \in Jobs : JobFits(j) /\ JobEarned(j) /\ job' = [job EXCEPT ![w] = j]
  BY <1>1, ForgotFits DEF DeleteMembers
<1> QED BY <1>1, <1>2, ClearMemberStep DEF DeleteMembers

\* The record goes, the handler keeps what it read of it.
LEMMA DeleteRecordStep ==
    ASSUME IInv, NEW w \in Workers, DeleteRecord(w)
    PROVE  IInv'
<1> DEFINE pc == IF job[w].g.vis = "Private" THEN "count" ELSE "invalidate"
           j == [job[w] EXCEPT !.pc = pc]
<1>1. JobFits(job[w]) /\ job[w].pc = "delGen"
  BY DEF IInv, JobsFit, DeleteRecord, At
<1>2. pc \in Path(job[w].rq.op) \ {"idle"} /\ job[w].g # NoGen
  BY <1>1 DEF JobFits, Path, Resolving, Deleting
<1>3. j \in Jobs /\ JobFits(j) /\ JobEarned(j)
  BY <1>1, <1>2, NextPC DEF At
<1>4. job' = [job EXCEPT ![w] = j]
  BY DEF DeleteRecord, Go
<1>5. /\ gen' \in [Gids -> GenRecords \cup {NoGen}] /\ bans' \subseteq Gids \X Users
      /\ priv' \in [Users -> Nat] /\ used' \subseteq Gids
  BY DEF DeleteRecord, IInv, TypeOK
<1> HIDE DEF j, pc
<1> QED BY <1>3, <1>4, <1>5, RecordStep DEF DeleteRecord

\* The counters stay natural numbers: incCounter saturates.
LEMMA CountStep ==
    ASSUME IInv, NEW w \in Workers, Count(w)
    PROVE  IInv'
<1> DEFINE rq    == job[w].rq
           delta == CASE rq.op = "Create" -> 1
                      [] rq.op = "Delete" -> -1
                      [] OTHER            -> Delta(job[w].g.vis, rq.vis)
           j == [job[w] EXCEPT !.pc = "invalidate"]
<1>1. JobFits(job[w]) /\ job[w].pc = "count"
  BY DEF IInv, JobsFit, Count, At
<1>2. "invalidate" \in Path(rq.op)
  BY <1>1 DEF JobFits, Path, Resolving, Deleting
<1>3. j \in Jobs /\ JobFits(j) /\ JobEarned(j)
  BY <1>1, <1>2, NextPC DEF At, Deleting
<1>4. job' = [job EXCEPT ![w] = j]
  BY DEF Count, Go
<1>5. delta \in {-1, 0, 1}
  BY DEF Delta
<1> HIDE DEF delta
<1>6. priv' = [priv EXCEPT ![QuotaHolder(w)] = incCounter(priv[QuotaHolder(w)], delta)]
  BY DEF Count, delta
<1>7. \A n \in Nat : incCounter(n, delta) \in Nat
  BY <1>5 DEF incCounter
<1>8. priv' \in [Users -> Nat]
  BY <1>6, <1>7 DEF IInv, TypeOK
<1>9. /\ gen' \in [Gids -> GenRecords \cup {NoGen}] /\ bans' \subseteq Gids \X Users
      /\ used' \subseteq Gids
  BY DEF Count, IInv, TypeOK
<1> HIDE DEF j
<1> QED BY <1>3, <1>4, <1>8, <1>9, RecordStep DEF Count

\* UpdateVisibility and DeleteGenealogy keep the record they read.
LEMMA RecordRead ==
    ASSUME IInv, NEW w \in Workers, At(w, "ready"), NEW pc \in Path(job[w].rq.op),
           job[w].rq.op \in {"UpdateVisibility", "Delete"}, gen[job[w].rq.gid] # NoGen,
           job' = [job EXCEPT ![w].g = gen[job[w].rq.gid], ![w].pc = pc],
           UNCHANGED <<store, cache, used, held>>
    PROVE  IInv'
<1> DEFINE g == gen[job[w].rq.gid]
           j == [job[w] EXCEPT !.g = g, !.pc = pc]
<1>1. job[w] \in Jobs /\ JobFits(job[w]) /\ JobEarned(job[w]) /\ job[w].pc = "ready"
  BY DEF IInv, TypeOK, JobsFit, DecisionsEarned, JobEarned, At
<1>2. job[w].rq.gid \in Gids /\ Valid(job[w].rq) /\ pc \in PCs \ {"idle"}
  BY <1>1 DEF JobFits, Path, PCs, Resolving, Deleting
<1>3. g \in GenRecords
  BY <1>2 DEF IInv, TypeOK
<1>4. /\ j \in Jobs /\ j.pc = pc /\ j.rq = job[w].rq /\ j.d = job[w].d /\ j.g = g
  BY <1>1, <1>2, <1>3 DEF Jobs
<1>5. job' = [job EXCEPT ![w] = j]
  OBVIOUS
<1> HIDE DEF j
<1>6. JobFits(j)
  BY <1>2, <1>4 DEF JobFits
<1>7. JobEarned(j)
  BY <1>1, <1>4 DEF JobEarned
<1> QED BY <1>4, <1>5, <1>6, <1>7, JobStep

\* Denied, gone, or on with the record read.
LEMMA UpdateVisibilityStep ==
    ASSUME IInv, NEW w \in Workers, UpdateVisibility(w)
    PROVE  IInv'
<1> DEFINE g == gen[job[w].rq.gid]
           pc == IF Delta(g.vis, job[w].rq.vis) = 1 THEN "check" ELSE "putGen"
<1>1. CASE Lacks(w, Owner) \/ g = NoGen
  BY <1>1, Ended DEF UpdateVisibility
<1>2. CASE ~(Lacks(w, Owner) \/ g = NoGen)
  <2>1. pc \in Path(job[w].rq.op) /\ job[w].rq.op = "UpdateVisibility"
    BY DEF Path, UpdateVisibility, Serves
  <2>2. job' = [job EXCEPT ![w].g = g, ![w].pc = pc] /\ UNCHANGED <<store, cache, used, held>>
    BY <1>2 DEF UpdateVisibility
  <2> HIDE DEF pc
  <2> QED BY <1>2, <2>1, <2>2, RecordRead DEF UpdateVisibility
<1> QED BY <1>1, <1>2

\* Denied, gone, or on with the record read.
LEMMA DeleteBeginStep ==
    ASSUME IInv, NEW w \in Workers, DeleteBegin(w)
    PROVE  IInv'
<1> DEFINE g == gen[job[w].rq.gid]
<1>1. CASE Lacks(w, Owner) \/ g = NoGen
  BY <1>1, Ended DEF DeleteBegin
<1>2. CASE ~(Lacks(w, Owner) \/ g = NoGen)
  <2>1. "drop" \in Path(job[w].rq.op) /\ job[w].rq.op = "Delete"
    BY DEF Path, Deleting, DeleteBegin, Serves
  <2>2. job' = [job EXCEPT ![w].g = g, ![w].pc = "drop"] /\ UNCHANGED <<store, cache, used, held>>
    BY <1>2 DEF DeleteBegin
  <2> QED BY <1>2, <2>1, <2>2, RecordRead DEF DeleteBegin
<1> QED BY <1>1, <1>2

\* The record keeps its creator.
LEMMA UpdatePutGenealogyStep ==
    ASSUME IInv, NEW w \in Workers, UpdatePutGenealogy(w)
    PROVE  IInv'
<1> DEFINE rq == job[w].rq
           g == job[w].g
           pc == IF Delta(g.vis, rq.vis) # 0 THEN "count" ELSE "invalidate"
           j == [job[w] EXCEPT !.pc = pc]
<1>1. /\ job[w] \in Jobs /\ JobFits(job[w]) /\ job[w].pc = "putGen"
      /\ rq.op = "UpdateVisibility"
  BY DEF IInv, TypeOK, JobsFit, UpdatePutGenealogy, At, Serves
<1>2. pc \in Path(rq.op) \ {"idle"} /\ g # NoGen /\ rq.vis \in Visibilities
  BY <1>1 DEF JobFits, Path, Valid
<1>3. j \in Jobs /\ JobFits(j) /\ JobEarned(j)
  BY <1>1, <1>2, NextPC DEF At
<1>4. job' = [job EXCEPT ![w] = j]
  BY DEF UpdatePutGenealogy, Go
<1>5. g \in GenRecords
  BY <1>1, <1>2 DEF Jobs
<1>6. [vis |-> rq.vis, by |-> g.by] \in GenRecords
  BY <1>2, <1>5 DEF GenRecords
<1>7. gen' \in [Gids -> GenRecords \cup {NoGen}]
  BY <1>6 DEF UpdatePutGenealogy, PutGenealogy, IInv, TypeOK
<1>8. /\ bans' \subseteq Gids \X Users /\ priv' \in [Users -> Nat] /\ used' \subseteq Gids
  BY DEF UpdatePutGenealogy, IInv, TypeOK
<1> HIDE DEF j, pc
<1> QED BY <1>3, <1>4, <1>7, <1>8, RecordStep DEF UpdatePutGenealogy

\* The per-genealogy store goes first.
LEMMA DropStoreStep ==
    ASSUME IInv, NEW w \in Workers, DropStore(w)
    PROVE  IInv'
<1>1. JobFits(job[w]) /\ job[w].pc = "drop"
  BY DEF IInv, JobsFit, DropStore, At
<1>2. "scan" \in Path(job[w].rq.op) /\ job[w].rq.op = "Delete" /\ job[w].g # NoGen
  BY <1>1 DEF JobFits, Path, Resolving, Deleting
<1> QED BY <1>1, <1>2, Moved DEF DropStore, At

\* The list of members to delete.
LEMMA ScanMembersStep ==
    ASSUME IInv, NEW w \in Workers, ScanMembers(w)
    PROVE  IInv'
<1> DEFINE subs == MembersOf(job[w].rq.gid)
           pc == IF subs = {} THEN "delGen" ELSE "delMems"
           j == [job[w] EXCEPT !.todo = subs, !.pc = pc]
<1>1. job[w] \in Jobs /\ JobFits(job[w]) /\ JobEarned(job[w]) /\ job[w].pc = "scan"
  BY DEF IInv, TypeOK, JobsFit, DecisionsEarned, JobEarned, ScanMembers, At
<1>2. job[w].rq.op = "Delete" /\ job[w].g # NoGen /\ Valid(job[w].rq) /\ job[w].rq.gid \in Gids
  BY <1>1 DEF JobFits, Path, Resolving, Deleting
<1>3. pc \in PCs /\ pc \in Path("Delete") /\ pc # "idle" /\ subs \in SUBSET Users
  BY DEF PCs, Path, Deleting, MembersOf
<1>4. /\ j \in Jobs /\ j.pc = pc /\ j.rq = job[w].rq /\ j.d = job[w].d /\ j.g = job[w].g
  BY <1>1, <1>3 DEF Jobs
<1>5. job' = [job EXCEPT ![w] = j]
  BY DEF ScanMembers
<1> HIDE DEF j, pc
<1>6. JobFits(j)
  BY <1>2, <1>3, <1>4 DEF JobFits
<1>7. JobEarned(j)
  BY <1>1, <1>4 DEF JobEarned
<1> QED BY <1>4, <1>5, <1>6, <1>7, JobStep DEF ScanMembers

\* Denied, gone, or on to the owner count or the deletion.
LEMMA RemoveMemberStep ==
    ASSUME IInv, NEW w \in Workers, RemoveMember(w)
    PROVE  IInv'
<1>1. job[w].pc = "ready" /\ job[w].rq.op = "Remove"
  BY DEF RemoveMember, At, Serves
<1>2. \A pc \in {"owners", "delMem"} : pc \in Path(job[w].rq.op)
  BY <1>1 DEF Path
<1>3. Done(w) \/ Go(w, "owners") \/ Go(w, "delMem")
  BY DEF RemoveMember
<1>4. UNCHANGED <<store, cache, used, held>>
  BY DEF RemoveMember
<1> QED BY <1>1, <1>2, <1>3, <1>4, Ended, Moved DEF At, Deleting

\* Gone, or on to the owner count or the deletion.
LEMMA LeaveGenealogyStep ==
    ASSUME IInv, NEW w \in Workers, LeaveGenealogy(w)
    PROVE  IInv'
<1>1. job[w].pc = "ready" /\ job[w].rq.op = "Leave"
  BY DEF LeaveGenealogy, At, Serves
<1>2. \A pc \in {"owners", "delMem"} : pc \in Path(job[w].rq.op)
  BY <1>1 DEF Path
<1>3. Done(w) \/ Go(w, "owners") \/ Go(w, "delMem")
  BY DEF LeaveGenealogy
<1>4. UNCHANGED <<store, cache, used, held>>
  BY DEF LeaveGenealogy
<1> QED BY <1>1, <1>2, <1>3, <1>4, Ended, Moved DEF At, Deleting

\* The last owner stays, or the deletion follows.
LEMMA CheckOwnersStep ==
    ASSUME IInv, NEW w \in Workers, CheckOwners(w)
    PROVE  IInv'
<1>1. JobFits(job[w]) /\ job[w].pc = "owners"
  BY DEF IInv, JobsFit, CheckOwners, At
<1>2. "delMem" \in Path(job[w].rq.op)
  BY <1>1 DEF JobFits, Path, Resolving, Deleting
<1>3. Done(w) \/ Go(w, "delMem")
  BY DEF CheckOwners
<1>4. UNCHANGED <<store, cache, used, held>>
  BY DEF CheckOwners
<1> QED BY <1>1, <1>2, <1>3, <1>4, Ended, Moved DEF At, Deleting

\* A ban record gives nobody a role.
LEMMA BanSteps ==
    ASSUME IInv, NEW w \in Workers, BanUser(w) \/ UnbanUser(w)
    PROVE  IInv'
<1>1. job[w] \in Jobs /\ JobFits(job[w]) /\ job[w].pc = "ready" /\ job[w].rq.op \in {"Ban", "Unban"}
  BY DEF IInv, TypeOK, JobsFit, BanUser, UnbanUser, At, Serves
<1>2. job[w].rq.gid \in Gids /\ job[w].rq.tgt \in Users
  BY <1>1 DEF JobFits, Valid
<1>3. bans' \subseteq Gids \X Users
  BY <1>2 DEF IInv, TypeOK, BanUser, UnbanUser
<1>4. /\ gen' \in [Gids -> GenRecords \cup {NoGen}] /\ priv' \in [Users -> Nat]
      /\ used' \subseteq Gids /\ UNCHANGED <<mem, cache, held>> /\ Done(w)
  BY DEF IInv, TypeOK, BanUser, UnbanUser
<1> QED BY <1>3, <1>4, IdleFits, RecordStep DEF Done

\* A failed store operation ends the handler or is passed over.
LEMMA StoreErrorStep ==
    ASSUME IInv, NEW w \in Workers, StoreError(w)
    PROVE  IInv'
<1>1. CASE At(w, "delMems")
  <2>1. PICK u \in job[w].todo : Forgot(w, u)
    BY <1>1 DEF StoreError, At
  <2>2. PICK j \in Jobs : JobFits(j) /\ JobEarned(j) /\ job' = [job EXCEPT ![w] = j]
    BY <1>1, <2>1, ForgotFits
  <2> QED BY <2>2, JobStep DEF StoreError
<1>2. CASE ~At(w, "delMems") /\ At(w, "count") /\ ~Serves(w, "Create")
  <2>1. JobFits(job[w]) /\ job[w].pc = "count"
    BY <1>2 DEF IInv, JobsFit, At
  <2>2. "invalidate" \in Path(job[w].rq.op)
    BY <2>1 DEF JobFits, Path, Resolving, Deleting
  <2>3. Go(w, "invalidate") /\ UNCHANGED <<store, cache, used, held>>
    BY <1>2 DEF StoreError
  <2> QED BY <2>1, <2>2, <2>3, Moved DEF At, Deleting
<1>3. CASE ~At(w, "delMems") /\ ~(At(w, "count") /\ ~Serves(w, "Create"))
  BY <1>3, Ended DEF StoreError
<1> QED BY <1>1, <1>2, <1>3

-----------------------------------------------------------------------------
(* The theorems *)

\* Every step of every handler preserves the invariant.
LEMMA NextIInv ==
    ASSUME IInv, [Next]_vars
    PROVE  IInv'
<1>1. ASSUME NEW w \in Workers, NEW rq \in Requests, Start(w, rq) PROVE IInv'
  BY <1>1, StartStep
<1>2. ASSUME NEW w \in Workers, Resolve(w) PROVE IInv'
  BY <1>2, CacheGetStep, ReadGenealogyStep, ReadMembershipStep, CachePutStep DEF Resolve
<1>3. ASSUME NEW w \in Workers, Handle(w) PROVE IInv'
  <2>1. CASE GetGenealogy(w) \/ ListMembers(w)
    BY <2>1, Ended DEF GetGenealogy, ListMembers
  <2> QED BY <1>3, <2>1, CheckQuotaStep, CreatePutGenealogyStep, PutOwnerStep,
             UpdateVisibilityStep, UpdatePutGenealogyStep, CountStep, DeleteBeginStep,
             DropStoreStep, ScanMembersStep, DeleteMembersStep, DeleteRecordStep,
             UpsertMembershipStep, RemoveMemberStep, LeaveGenealogyStep, CheckOwnersStep,
             DeleteMembershipStep, BanSteps, InvalidateStep DEF Handle
<1>4. ASSUME NEW w \in Workers, StoreError(w) PROVE IInv'
  BY <1>4, StoreErrorStep
<1>5. ASSUME NEW k \in Subjects \X Gids, Expire(k) PROVE IInv'
  BY <1>5, ExpireStep
<1>6. CASE Crash
  BY <1>6, CrashStep
<1>7. CASE UNCHANGED vars
  BY <1>7 DEF vars, store, IInv, TypeOK, JobsFit, MembersHeld, DecisionsEarned, GrantsAuthorized
<1> QED BY <1>1, <1>2, <1>3, <1>4, <1>5, <1>6, <1>7 DEF Next

\* The invariant that ties the jobs, the cache, the memberships and the roles
\* ever held holds in every reachable state.
THEOREM Inductive == Spec => []IInv
<1>1. IInv /\ [Next]_vars => IInv'
  BY NextIInv
<1> QED BY <1>1, InitIInv, PTL DEF Spec

\* Every variable keeps its type, whatever requests, expiry and faults do.
THEOREM TypeCorrect == Spec => []TypeOK
<1>1. IInv => TypeOK
  BY DEF IInv
<1> QED BY <1>1, Inductive, PTL

\* Whoever the resolver or a handler takes for a Curator or an Owner was given
\* that role (authz.Resolver with its cache, UpsertMembership).
THEOREM RolesAreEarned == Spec => []DecisionsEarned
<1>1. IInv => DecisionsEarned
  BY DEF IInv
<1> QED BY <1>1, Inductive, PTL

\* GrantedBy names somebody who was entitled to grant the role.
THEOREM GrantsAreAuthorized == Spec => []GrantsAuthorized
<1>1. IInv => GrantsAuthorized
  BY DEF IInv
<1> QED BY <1>1, Inductive, PTL

\* ListGenealogies and Resolve tell one story in every state: what Resolve lets a
\* subject into is listed, and what is listed beyond that comes from the rows of
\* subjects that extend his by a slash.
THEOREM ListingsAgree == Spec => []ListingAgrees
<1>1. IInv => ListingAgrees
  <2> SUFFICES ASSUME IInv, NEW s \in Subjects, NEW g \in Gids, NEW out \in ListGenealogies(s)
               PROVE  LET role  == EffectiveRole(s, g)
                          shown == role # None
                                   /\ (gen[g].vis = "Unlisted" => explicitRole(s, g) # None)
                      IN  /\ shown => g \in DOMAIN out
                          /\ g \in DOMAIN out =>
                               /\ gen[g] # NoGen
                               /\ \/ shown /\ out[g] = role
                                  \/ \E t \in RowsUnder(s, g) \ {s} : out[g] = mem[g][t].role
    BY DEF ListingAgrees
  <2> DEFINE role     == EffectiveRole(s, g)
             explicit == explicitRole(s, g)
             implicit == IF s \in Users THEN Contributor ELSE Viewer
             rows     == RowsUnder(s, g)
             joined   == {h \in Gids : gen[h] # NoGen /\ RowsUnder(s, h) # {}}
             public   == {h \in Gids \ joined : gen[h] # NoGen /\ gen[h].vis = "Public"}
  <2>1. PICK first \in {f \in [joined -> Users] : \A h \in joined : f[h] \in RowsUnder(s, h)} :
               out = [h \in joined \cup public |->
                         IF h \in joined THEN mem[h][first[h]].role ELSE implicit]
    BY DEF ListGenealogies
  <2>2. DOMAIN out = joined \cup public
    BY <2>1
  <2>3. g \in joined => first[g] \in rows /\ out[g] = mem[g][first[g]].role
    BY <2>1
  <2>4. g \in public => out[g] = implicit
    BY <2>1
  <2>5. s \in rows <=> explicit # None
    <3>1. Anon \notin Users
      BY NullsAssumption
    <3> QED BY <3>1 DEF RowsUnder, explicitRole, Subjects
  <2>6. CASE gen[g] = NoGen
    BY <2>2, <2>6 DEF EffectiveRole
  <2>7. CASE gen[g] # NoGen /\ rows # {}
    <3>1. g \in joined
      BY <2>7
    <3>2. first[g] = s => role = explicit /\ explicit = mem[g][s].role /\ explicit # None
      BY <2>3, <2>5, <2>7, <3>1 DEF EffectiveRole, resolveLocked, explicitRole, RowsUnder
    <3> QED BY <2>2, <2>3, <2>7, <3>1, <3>2
  <2>8. CASE gen[g] # NoGen /\ rows = {}
    <3>1. g \notin joined /\ explicit = None
      BY <2>5, <2>8
    <3>2. role = implicitRole(gen[g].vis, s \in Users)
      BY <2>8, <3>1 DEF EffectiveRole, resolveLocked
    <3>3. gen[g].vis \in {"Private", "Unlisted", "Public"}
      BY <2>8 DEF IInv, TypeOK, GenRecords, Visibilities
    <3>4. CASE gen[g].vis = "Public"
      <4>1. role = implicit /\ role # None
        BY <3>2, <3>4 DEF implicitRole, Contributor, Viewer, None
      <4> QED BY <2>2, <2>4, <2>8, <3>1, <3>4, <4>1
    <3>5. CASE gen[g].vis # "Public"
      <4>1. g \notin DOMAIN out
        BY <2>2, <3>1, <3>5
      <4>2. gen[g].vis = "Private" => role = None
        BY <3>2 DEF implicitRole
      <4> QED BY <3>1, <3>3, <3>5, <4>1, <4>2
    <3> QED BY <3>4, <3>5
  <2> QED BY <2>6, <2>7, <2>8
<1> QED BY <1>1, Inductive, PTL

-----------------------------------------------------------------------------
(* One request at a time: what handlers guarantee when nothing runs between  *)
(* their steps, crashes and expiry excepted                                  *)

\* An entry that the handler is about to invalidate.
Stale(w, k) ==
    /\ job[w].pc \in {"delMems", "delGen", "count", "invalidate"} /\ job[w].rq.op # "Create"
    /\ k[2] = job[w].rq.gid /\ k[1] \in Invalidated(job[w].rq)

CacheAccounted(w) ==
    \A k \in Subjects \X Gids :
        cache[k] # None => cache[k] = EffectiveRole(k[1], k[2]) \/ Stale(w, k)

\* What a handler has read is still so.
JobCurrent(w) ==
    LET j == job[w]
    IN  /\ j.pc = "readMem" => j.g = gen[j.rq.gid]
        /\ j.pc = "cachePut" \/ (j.pc = "ready" /\ j.rq.op # "Leave") =>
              j.d # None /\ j.d = EffectiveRole(j.rq.sub, j.rq.gid)
        /\ j.pc = "putOwner" =>
              gen[j.rq.gid] # NoGen /\ \A s \in Subjects : cache[<<s, j.rq.gid>>] = None
        /\ j.pc = "delMems" => j.todo = MembersOf(j.rq.gid)
        /\ j.pc = "delGen" => MembersOf(j.rq.gid) = {}
        /\ j.pc = "owners" => mem[j.rq.gid][Leaver(w)].role = Owner
        /\ j.pc = "delMem" => mem[j.rq.gid][Leaver(w)].role # Owner \/ countOwners(j.rq.gid) > 1

\* A request names a genealogy that was created, an id not drawn yet has none.
NamesUsed(w) == ~At(w, "idle") /\ ~Serves(w, "Create") => job[w].rq.gid \in used
UnusedAbsent == \A g \in Gids \ used : gen[g] = NoGen

\* The inductive invariant of a server with one worker.
SerialInv(w) == NoOrphanMembers /\ UnusedAbsent /\ CacheAccounted(w) /\ JobCurrent(w)

\* Nothing is cached, nothing is stored.
LEMMA InitSerial ==
    ASSUME Init, NEW w \in Workers
    PROVE  SerialInv(w)
BY DEF Init, SerialInv, NoOrphanMembers, UnusedAbsent, CacheAccounted, JobCurrent, Idle, NoMember

\* A step that changes the job only.
LEMMA SerialJobStep ==
    ASSUME NEW w \in Workers, SerialInv(w), UNCHANGED <<store, cache, used>>, JobCurrent(w)',
           \A k \in Subjects \X Gids : Stale(w, k) => Stale(w, k)'
    PROVE  SerialInv(w)'
<1>1. \A k : EffectiveRole(k[1], k[2])' = EffectiveRole(k[1], k[2])
  BY DEF EffectiveRole, resolveLocked, explicitRole, store
<1>2. CacheAccounted(w)'
  BY <1>1 DEF SerialInv, CacheAccounted
<1> QED BY <1>2 DEF SerialInv, NoOrphanMembers, UnusedAbsent, store

\* A handler that ends has left no stale entry, unless it was about to invalidate.
LEMMA SerialEnded ==
    ASSUME IInv, NEW w \in Workers, SerialInv(w), Done(w), UNCHANGED <<store, cache, used, held>>,
           job[w].pc \notin {"delMems", "delGen", "count", "invalidate"}
    PROVE  SerialInv(w)'
<1>1. job'[w].pc = "idle"
  BY DEF Done, Idle, IInv, TypeOK
<1> QED BY <1>1, SerialJobStep DEF JobCurrent, Stale

\* Going on with the same request.
LEMMA SerialMoved ==
    ASSUME IInv, NEW w \in Workers, NEW pc, Go(w, pc)
    PROVE  job'[w].pc = pc /\ job'[w].rq = job[w].rq /\ job'[w].d = job[w].d
           /\ job'[w].g = job[w].g /\ job'[w].todo = job[w].todo
BY DEF Go, IInv, TypeOK, Jobs

\* Resolve, one worker: the decision is the one of this moment.
LEMMA SerialResolve ==
    ASSUME IInv, NEW w \in Workers, SerialInv(w), Resolve(w)
    PROVE  SerialInv(w)'
<1> DEFINE rq == job[w].rq
<1>0. job[w] \in Jobs /\ JobFits(job[w]) /\ job \in [Workers -> Jobs]
  BY DEF IInv, TypeOK, JobsFit
<1>1. CASE CacheGet(w)
  <2> DEFINE r == cache[<<rq.sub, rq.gid>>]
  <2>1. job[w].pc = "cacheGet" /\ rq.gid \in Gids /\ rq.sub \in Subjects
    BY <1>0, <1>1 DEF CacheGet, At, JobFits, Path, Jobs, AllRequests
  <2>2. r # None => r = EffectiveRole(rq.sub, rq.gid)
    <3>1. <<rq.sub, rq.gid>> \in Subjects \X Gids
      BY <2>1
    <3> QED BY <3>1, <2>1 DEF SerialInv, CacheAccounted, Stale
  <2>3. job'[w].pc = (IF r # None THEN "ready" ELSE "readGen") /\ job'[w].d = r /\ job'[w].rq = rq
    BY <1>0, <1>1 DEF CacheGet, Jobs
  <2>4. UNCHANGED <<store, cache, used, held>>
    BY <1>1 DEF CacheGet
  <2>5. EffectiveRole(rq.sub, rq.gid)' = EffectiveRole(rq.sub, rq.gid)
    BY <2>3, <2>4 DEF EffectiveRole, resolveLocked, explicitRole, store
  <2>6. JobCurrent(w)'
    BY <2>2, <2>3, <2>5 DEF JobCurrent
  <2> QED BY <2>1, <2>4, <2>6, SerialJobStep DEF Stale
<1>2. CASE ReadGenealogy(w)
  <2> DEFINE g == gen[rq.gid]
  <2>1. job[w].pc = "readGen" /\ UNCHANGED <<store, cache, used, held>>
    BY <1>2 DEF ReadGenealogy, At
  <2>2. CASE g = NoGen
    BY <1>2, <2>1, <2>2, SerialEnded DEF ReadGenealogy
  <2>3. CASE g # NoGen
    <3>1. job'[w].pc = "readMem" /\ job'[w].g = g /\ job'[w].rq = rq
      BY <1>0, <1>2, <2>3 DEF ReadGenealogy, Jobs
    <3>2. JobCurrent(w)'
      BY <3>1, <2>1 DEF JobCurrent, store
    <3> QED BY <2>1, <3>2, SerialJobStep DEF Stale
  <2> QED BY <2>2, <2>3
<1>3. CASE ReadMembership(w)
  <2> DEFINE d == resolveLocked(job[w].g, explicitRole(rq.sub, rq.gid), rq.sub)
  <2>1. job[w].pc = "readMem" /\ UNCHANGED <<store, cache, used, held>>
    BY <1>3 DEF ReadMembership, At
  <2>2. CASE d = None
    BY <1>3, <2>1, <2>2, SerialEnded DEF ReadMembership
  <2>3. CASE d # None
    <3>1. job'[w].pc = "cachePut" /\ job'[w].d = d /\ job'[w].rq = rq
      BY <1>0, <1>3, <2>3 DEF ReadMembership, Jobs
    <3>2. job[w].g = gen[rq.gid] /\ job[w].g # NoGen
      BY <1>0, <2>1 DEF SerialInv, JobCurrent, JobFits, Path
    <3>3. d = EffectiveRole(rq.sub, rq.gid)
      BY <3>2 DEF EffectiveRole
    <3>4. EffectiveRole(rq.sub, rq.gid)' = EffectiveRole(rq.sub, rq.gid)
      BY <2>1, <3>1 DEF EffectiveRole, resolveLocked, explicitRole, store
    <3> HIDE DEF d
    <3>5. JobCurrent(w)'
      BY <2>3, <3>1, <3>3, <3>4 DEF JobCurrent
    <3> QED BY <2>1, <3>5, SerialJobStep DEF Stale
  <2> QED BY <2>2, <2>3
<1>4. CASE CachePut(w)
  <2>1. job[w].pc = "cachePut" /\ UNCHANGED <<store, used, held>> /\ Go(w, "ready")
    BY <1>4 DEF CachePut, At
  <2>2. cache' = [cache EXCEPT ![<<rq.sub, rq.gid>>] = job[w].d]
    BY <1>4 DEF CachePut
  <2>3. job[w].d # None /\ job[w].d = EffectiveRole(rq.sub, rq.gid)
    BY <2>1 DEF SerialInv, JobCurrent
  <2>4. job'[w].pc = "ready" /\ job'[w].rq = rq /\ job'[w].d = job[w].d
    BY <2>1, SerialMoved
  <2>6. EffectiveRole(rq.sub, rq.gid)' = EffectiveRole(rq.sub, rq.gid)
    BY <2>1, <2>4 DEF EffectiveRole, resolveLocked, explicitRole, store
  <2>7. JobCurrent(w)'
    BY <2>3, <2>4, <2>6 DEF JobCurrent
  <2>8. CacheAccounted(w)'
    <3> SUFFICES ASSUME NEW k \in Subjects \X Gids, cache'[k] # None
                 PROVE  cache'[k] = EffectiveRole(k[1], k[2])'
      BY DEF CacheAccounted
    <3>1. cache'[k] = EffectiveRole(k[1], k[2])
      <4>1. CASE k = <<rq.sub, rq.gid>>
        BY <4>1, <2>2, <2>3 DEF IInv, TypeOK
      <4>2. CASE k # <<rq.sub, rq.gid>>
        BY <4>2, <2>1, <2>2 DEF IInv, TypeOK, SerialInv, CacheAccounted, Stale
      <4> QED BY <4>1, <4>2
    <3>2. EffectiveRole(k[1], k[2])' = EffectiveRole(k[1], k[2])
      BY <2>1 DEF EffectiveRole, resolveLocked, explicitRole, store
    <3> QED BY <3>1, <3>2
  <2> QED BY <2>1, <2>7, <2>8 DEF SerialInv, NoOrphanMembers, UnusedAbsent, store
<1> QED BY <1>1, <1>2, <1>3, <1>4 DEF Resolve

\* A request starts where it relies on nothing read before.
LEMMA SerialStart ==
    ASSUME IInv, NEW w \in Workers, SerialInv(w), NEW rq \in Requests, Start(w, rq)
    PROVE  SerialInv(w)'
<1>1. job'[w].pc = FirstStep(rq) /\ job'[w].rq = rq /\ job[w].pc = "idle"
  BY IdleFits DEF Start, IInv, TypeOK, At, Jobs
<1>2. FirstStep(rq) \in {"check", "putGen", "cacheGet"} \/ (FirstStep(rq) = "ready" /\ rq.op = "Leave")
  BY DEF FirstStep
<1>3. JobCurrent(w)'
  BY <1>1, <1>2 DEF JobCurrent
<1> QED BY <1>1, <1>3, SerialJobStep DEF Start, Stale

\* The steps that only look and decide where to go.
LEMMA SerialLooks ==
    ASSUME IInv, NEW w \in Workers, SerialInv(w),
           \/ CheckQuota(w) \/ UpdateVisibility(w) \/ DeleteBegin(w) \/ DropStore(w)
           \/ GetGenealogy(w) \/ ListMembers(w)
    PROVE  SerialInv(w)'
<1>0. job[w] \in Jobs /\ job \in [Workers -> Jobs]
  BY DEF IInv, TypeOK
<1>1. /\ job[w].pc \in {"check", "ready", "drop"} /\ UNCHANGED <<store, cache, used, held>>
      /\ job'[w].pc \in {"idle", "check", "putGen", "drop", "scan"}
  BY <1>0 DEF CheckQuota, UpdateVisibility, DeleteBegin, DropStore, GetGenealogy, ListMembers, At,
     Go, Done, Idle, Jobs
<1>2. JobCurrent(w)'
  BY <1>1 DEF JobCurrent
<1> QED BY <1>1, <1>2, SerialJobStep DEF Stale

\* The list of members is the one of this moment.
LEMMA SerialScan ==
    ASSUME IInv, NEW w \in Workers, SerialInv(w), ScanMembers(w)
    PROVE  SerialInv(w)'
<1> DEFINE subs == MembersOf(job[w].rq.gid)
<1>0. job[w] \in Jobs /\ job \in [Workers -> Jobs]
  BY DEF IInv, TypeOK
<1>1. /\ job[w].pc = "scan" /\ job'[w].rq = job[w].rq /\ job'[w].todo = subs
      /\ job'[w].pc = (IF subs = {} THEN "delGen" ELSE "delMems")
      /\ UNCHANGED <<store, cache, used, held>>
  BY <1>0 DEF ScanMembers, At, Jobs
<1>2. MembersOf(job[w].rq.gid)' = subs
  BY <1>1 DEF MembersOf, store
<1>3. JobCurrent(w)'
  BY <1>1, <1>2 DEF JobCurrent
<1> QED BY <1>1, <1>3, SerialJobStep DEF Stale

\* RemoveMember, LeaveGenealogy and CheckOwners see the owners as they are.
LEMMA SerialOwners ==
    ASSUME IInv, NEW w \in Workers, SerialInv(w),
           RemoveMember(w) \/ LeaveGenealogy(w) \/ CheckOwners(w)
    PROVE  SerialInv(w)'
<1> DEFINE gid == job[w].rq.gid
           role == mem[gid][Leaver(w)].role
           owners == {u \in MembersOf(gid) : mem[gid][u].role = Owner}
<1>1. job[w].pc \in {"ready", "owners"} /\ UNCHANGED <<store, cache, used, held>>
  BY DEF RemoveMember, LeaveGenealogy, CheckOwners, At
<1>2. countOwners(gid) \in Nat
  BY UsersAssumption, FS_Subset, FS_CardinalityType DEF countOwners, MembersOf
<1>3. \/ Done(w)
      \/ Go(w, "owners") /\ role = Owner
      \/ Go(w, "delMem") /\ (role # Owner \/ countOwners(gid) > 1)
  <2>1. CASE RemoveMember(w)
    BY <2>1 DEF RemoveMember, Leaver, Serves
  <2>2. CASE LeaveGenealogy(w)
    BY <2>2 DEF LeaveGenealogy, Leaver, Serves, None, Owner
  <2>3. CASE CheckOwners(w)
    BY <2>3, <1>2 DEF CheckOwners
  <2> QED BY <2>1, <2>2, <2>3
<1>4. CASE Done(w)
  BY <1>1, <1>4, SerialEnded
<1>5. ASSUME NEW pc \in {"owners", "delMem"}, Go(w, pc)
      PROVE  /\ job'[w].pc = pc /\ job'[w].rq = job[w].rq
             /\ Leaver(w)' = Leaver(w) /\ countOwners(job[w].rq.gid)' = countOwners(gid)
  <2>1. job'[w].pc = pc /\ job'[w].rq = job[w].rq
    BY <1>5, SerialMoved
  <2> QED BY <1>1, <2>1 DEF Leaver, Serves, countOwners, MembersOf, store
<1>6. CASE ~Done(w)
  <2>1. JobCurrent(w)'
    BY <1>1, <1>3, <1>5, <1>6 DEF JobCurrent, store
  <2> QED BY <1>1, <2>1, SerialJobStep DEF Stale
<1> QED BY <1>4, <1>6

\* A ban record decides nothing that is cached.
LEMMA SerialBan ==
    ASSUME IInv, NEW w \in Workers, SerialInv(w), BanUser(w) \/ UnbanUser(w)
    PROVE  SerialInv(w)'
<1>1. job[w].pc = "ready" /\ job'[w].pc = "idle" /\ UNCHANGED <<gen, mem, priv, cache, used, held>>
  BY DEF BanUser, UnbanUser, At, Done, Idle, IInv, TypeOK
<1>2. \A k : EffectiveRole(k[1], k[2])' = EffectiveRole(k[1], k[2])
  BY <1>1 DEF EffectiveRole, resolveLocked, explicitRole
<1>3. CacheAccounted(w)'
  BY <1>1, <1>2 DEF SerialInv, CacheAccounted, Stale
<1>4. JobCurrent(w)'
  BY <1>1 DEF JobCurrent
<1> QED BY <1>1, <1>3, <1>4 DEF SerialInv, NoOrphanMembers, UnusedAbsent

\* The counter decides nothing that is cached.
LEMMA SerialCount ==
    ASSUME IInv, NEW w \in Workers, SerialInv(w), Count(w)
    PROVE  SerialInv(w)'
<1>1. /\ job[w].pc = "count" /\ job'[w].pc = "invalidate" /\ job'[w].rq = job[w].rq
      /\ UNCHANGED <<gen, mem, bans, cache, used, held>>
  BY SerialMoved DEF Count, At
<1>2. \A k : EffectiveRole(k[1], k[2])' = EffectiveRole(k[1], k[2])
  BY <1>1 DEF EffectiveRole, resolveLocked, explicitRole
<1>3. \A k : Stale(w, k) => Stale(w, k)'
  BY <1>1 DEF Stale, Invalidated
<1>4. CacheAccounted(w)'
  BY <1>1, <1>2, <1>3 DEF SerialInv, CacheAccounted
<1>5. JobCurrent(w)'
  BY <1>1 DEF JobCurrent
<1> QED BY <1>1, <1>4, <1>5 DEF SerialInv, NoOrphanMembers, UnusedAbsent

\* A step that drops entries and ends the request, or only drops them.
LEMMA SerialForgets ==
    ASSUME IInv, NEW w \in Workers, SerialInv(w),
           Invalidate(w) \/ Crash \/ \E k \in Subjects \X Gids : Expire(k)
    PROVE  SerialInv(w)'
<1>0. cache \in [Subjects \X Gids -> Roles] /\ job \in [Workers -> Jobs]
  BY DEF IInv, TypeOK
<1>1. UNCHANGED <<store, used>>
  BY DEF Invalidate, Crash, Expire
<1>2. \A k : EffectiveRole(k[1], k[2])' = EffectiveRole(k[1], k[2])
  BY <1>1 DEF EffectiveRole, resolveLocked, explicitRole, store
<1>3. CacheAccounted(w)' /\ JobCurrent(w)'
  <2>1. CASE Invalidate(w)
    <3>1. job'[w].pc = "idle" /\ job[w].pc = "invalidate"
      BY <1>0, <2>1 DEF Invalidate, Done, Idle, At
    <3>2. ASSUME NEW k \in Subjects \X Gids, cache'[k] # None
          PROVE  cache'[k] = EffectiveRole(k[1], k[2])
      BY <1>0, <2>1, <3>2 DEF Invalidate, SerialInv, CacheAccounted, Stale
    <3> QED BY <1>2, <3>1, <3>2 DEF CacheAccounted, JobCurrent
  <2>2. CASE Crash
    BY <2>2 DEF Crash, CacheAccounted, JobCurrent, Idle
  <2>3. ASSUME NEW k \in Subjects \X Gids, Expire(k) PROVE CacheAccounted(w)' /\ JobCurrent(w)'
    <3>1. UNCHANGED job /\ \A x \in Subjects \X Gids : cache'[x] \in {cache[x], None}
      BY <1>0, <2>3 DEF Expire
    <3>2. \A x \in Subjects \X Gids : Stale(w, x)' = Stale(w, x)
      BY <3>1 DEF Stale, Invalidated
    <3>3. CacheAccounted(w)'
      BY <1>2, <3>1, <3>2 DEF SerialInv, CacheAccounted
    <3>4. JobCurrent(w)'
      <4>1. job[w].pc = "putOwner" => job[w].rq.gid \in Gids
        BY DEF IInv, JobsFit, JobFits
      <4>2. UNCHANGED <<gen, mem>>
        BY <1>1 DEF store
      <4>3. job[w].pc = "putOwner" => \A s \in Subjects : cache'[<<s, job[w].rq.gid>>] = None
        BY <3>1, <4>1 DEF SerialInv, JobCurrent
      <4> QED BY <3>1, <4>2, <4>3 DEF SerialInv, JobCurrent, EffectiveRole, resolveLocked,
              explicitRole, MembersOf, countOwners, Leaver, Serves
    <3> QED BY <3>3, <3>4
  <2> QED BY <2>1, <2>2, <2>3
<1> QED BY <1>1, <1>3 DEF SerialInv, NoOrphanMembers, UnusedAbsent, store

\* A decision rests on one record and one membership.
LEMMA SameDecision ==
    ASSUME NEW s, NEW g, gen'[g] = gen[g], s \in Users => mem'[g][s] = mem[g][s]
    PROVE  EffectiveRole(s, g)' = EffectiveRole(s, g)
BY DEF EffectiveRole, resolveLocked, explicitRole

\* A write to one record changes no other.
LEMMA RecordWrite ==
    ASSUME gen \in [Gids -> GenRecords \cup {NoGen}], NEW gid, NEW r,
           gen' = [gen EXCEPT ![gid] = r]
    PROVE  \A k \in Subjects \X Gids : k[2] # gid => gen'[k[2]] = gen[k[2]]
OBVIOUS

\* A write to one membership changes no other.
LEMMA MemberWrite ==
    ASSUME mem \in [Gids -> [Users -> Members]], NEW gid, NEW u, NEW m,
           mem' = [mem EXCEPT ![gid][u] = m]
    PROVE  \A k \in Subjects \X Gids :
              k[1] \in Users /\ (k[2] # gid \/ k[1] # u) => mem'[k[2]][k[1]] = mem[k[2]][k[1]]
OBVIOUS

\* The id is fresh, so nobody has a decision about it cached.
LEMMA SerialCreate ==
    ASSUME IInv, NEW w \in Workers, SerialInv(w), CreatePutGenealogy(w)
    PROVE  SerialInv(w)'
<1>0. /\ job[w] \in Jobs /\ job \in [Workers -> Jobs] /\ gen \in [Gids -> GenRecords \cup {NoGen}]
      /\ mem \in [Gids -> [Users -> Members]] /\ job[w].pc = "putGen"
  BY DEF IInv, TypeOK, CreatePutGenealogy, At
<1>1. PICK gid \in Gids \ used :
          /\ used' = used \cup {gid}
          /\ PutGenealogy(gid, job[w].rq.vis, job[w].rq.sub)
          /\ job' = [job EXCEPT ![w].pc = "putOwner", ![w].rq.gid = gid]
  BY DEF CreatePutGenealogy
<1>2. UNCHANGED <<mem, cache>> /\ gen' = [gen EXCEPT ![gid] = [vis |-> job[w].rq.vis, by |-> job[w].rq.sub]]
  BY <1>1 DEF CreatePutGenealogy, PutGenealogy
<1>3. job'[w].pc = "putOwner" /\ job'[w].rq.gid = gid
  BY <1>0, <1>1 DEF Jobs, AllRequests
<1>4. gen'[gid] # NoGen
  <2>1. gen'[gid] \in GenRecords
    BY <1>0, <1>2, CreatePutGenealogyStep, <1>3, <1>1 DEF GenRecords, IInv, TypeOK, JobsFit, JobFits,
       CreatePutGenealogy, At, Serves, Valid, Path
  <2> QED BY <2>1, NullsAssumption
<1>5. \A s \in Subjects : cache[<<s, gid>>] = None
  <2> SUFFICES ASSUME NEW s \in Subjects, cache[<<s, gid>>] # None PROVE FALSE
    OBVIOUS
  <2>1. EffectiveRole(s, gid) = None
    BY <1>1 DEF SerialInv, UnusedAbsent, EffectiveRole
  <2>2. <<s, gid>> \in Subjects \X Gids
    BY <1>1
  <2> QED BY <1>0, <2>1, <2>2 DEF SerialInv, CacheAccounted, Stale
<1>6. JobCurrent(w)'
  BY <1>2, <1>3, <1>4, <1>5 DEF JobCurrent
<1>7. CacheAccounted(w)'
  <2> SUFFICES ASSUME NEW k \in Subjects \X Gids, cache'[k] # None
               PROVE  cache'[k] = EffectiveRole(k[1], k[2])'
    BY DEF CacheAccounted
  <2>1. cache[k] = EffectiveRole(k[1], k[2])
    BY <1>0, <1>2 DEF SerialInv, CacheAccounted, Stale
  <2>2. k[2] # gid
    BY <1>2, <1>5
  <2>3. EffectiveRole(k[1], k[2])' = EffectiveRole(k[1], k[2])
    <3>1. gen'[k[2]] = gen[k[2]] /\ mem' = mem
      BY <1>0, <1>2, <2>2, RecordWrite
    <3> QED BY <3>1, SameDecision
  <2> QED BY <1>2, <2>1, <2>3
<1>8. NoOrphanMembers' /\ UnusedAbsent'
  BY <1>0, <1>1, <1>2, <1>4 DEF SerialInv, NoOrphanMembers, UnusedAbsent
<1> QED BY <1>6, <1>7, <1>8 DEF SerialInv

\* Nobody could cache a decision between the record and its owner.
LEMMA SerialPutOwner ==
    ASSUME IInv, NEW w \in Workers, SerialInv(w), PutOwner(w)
    PROVE  SerialInv(w)'
<1> DEFINE rq == job[w].rq
           m == [role |-> Owner, by |-> rq.sub]
<1>0. /\ gen \in [Gids -> GenRecords \cup {NoGen}] /\ mem \in [Gids -> [Users -> Members]]
      /\ job[w].pc = "putOwner" /\ UNCHANGED <<gen, bans, priv, cache, used>>
  BY DEF IInv, TypeOK, PutOwner, At
<1>1. gen[rq.gid] # NoGen /\ \A s \in Subjects : cache[<<s, rq.gid>>] = None
  BY <1>0 DEF SerialInv, JobCurrent
<1>2. mem' = [mem EXCEPT ![rq.gid][rq.sub] = m]
  BY DEF PutOwner, SetMember
<1>3. job'[w].pc \in {"count", "invalidate"}
  BY SerialMoved DEF PutOwner
<1>4. JobCurrent(w)'
  BY <1>3 DEF JobCurrent
<1> HIDE DEF m
<1>5. CacheAccounted(w)'
  <2> SUFFICES ASSUME NEW k \in Subjects \X Gids, cache'[k] # None
               PROVE  cache'[k] = EffectiveRole(k[1], k[2])'
    BY DEF CacheAccounted
  <2>1. cache[k] = EffectiveRole(k[1], k[2])
    BY <1>0 DEF SerialInv, CacheAccounted, Stale
  <2>2. k[2] # rq.gid
    BY <1>0, <1>1
  <2>3. EffectiveRole(k[1], k[2])' = EffectiveRole(k[1], k[2])
    <3>1. gen' = gen /\ (k[1] \in Users => mem'[k[2]][k[1]] = mem[k[2]][k[1]])
      BY <1>0, <1>2, <2>2, MemberWrite
    <3> QED BY <3>1, SameDecision
  <2> QED BY <1>0, <2>1, <2>3
<1>6. NoOrphanMembers'
  BY <1>0, <1>1, <1>2 DEF SerialInv, NoOrphanMembers
<1> QED BY <1>0, <1>4, <1>5, <1>6 DEF SerialInv, UnusedAbsent

\* Every decision about the genealogy is stale until it is invalidated.
LEMMA SerialUpdate ==
    ASSUME IInv, NEW w \in Workers, SerialInv(w), NamesUsed(w), UpdatePutGenealogy(w)
    PROVE  SerialInv(w)'
<1> DEFINE rq == job[w].rq
           r == [vis |-> rq.vis, by |-> job[w].g.by]
<1>0. /\ gen \in [Gids -> GenRecords \cup {NoGen}] /\ mem \in [Gids -> [Users -> Members]]
      /\ job[w] \in Jobs /\ JobFits(job[w])
      /\ job[w].pc = "putGen" /\ rq.op = "UpdateVisibility" /\ UNCHANGED <<mem, bans, priv, cache, used>>
  BY DEF IInv, TypeOK, JobsFit, UpdatePutGenealogy, At, Serves
<1>1. gen' = [gen EXCEPT ![rq.gid] = r]
  BY DEF UpdatePutGenealogy, PutGenealogy
<1>2. rq.gid \in Gids /\ rq.vis \in Visibilities /\ job[w].g \in GenRecords
  BY <1>0 DEF JobFits, Valid, Jobs
<1>3. r # NoGen
  <2>1. r \in GenRecords
    BY <1>2 DEF GenRecords
  <2> QED BY <2>1, NullsAssumption
<1> HIDE DEF r
<1>4. job'[w].pc \in {"count", "invalidate"} /\ job'[w].rq = rq
  BY SerialMoved DEF UpdatePutGenealogy
<1>5. JobCurrent(w)'
  BY <1>4 DEF JobCurrent
<1>6. CacheAccounted(w)'
  <2> SUFFICES ASSUME NEW k \in Subjects \X Gids, cache'[k] # None
               PROVE  cache'[k] = EffectiveRole(k[1], k[2])' \/ Stale(w, k)'
    BY DEF CacheAccounted
  <2>1. CASE k[2] = rq.gid
    BY <1>0, <1>4, <2>1 DEF Stale, Invalidated
  <2>2. CASE k[2] # rq.gid
    <3>1. cache[k] = EffectiveRole(k[1], k[2])
      BY <1>0 DEF SerialInv, CacheAccounted, Stale
    <3>2. EffectiveRole(k[1], k[2])' = EffectiveRole(k[1], k[2])
      <4>1. gen'[k[2]] = gen[k[2]] /\ mem' = mem
        BY <1>0, <1>1, <2>2, RecordWrite
      <4> QED BY <4>1, SameDecision
    <3> QED BY <1>0, <3>1, <3>2
  <2> QED BY <2>1, <2>2
<1>7. NoOrphanMembers'
  BY <1>0, <1>1, <1>3 DEF SerialInv, NoOrphanMembers
<1>8. UnusedAbsent'
  BY <1>0, <1>1 DEF SerialInv, UnusedAbsent, NamesUsed, At, Serves
<1> QED BY <1>5, <1>6, <1>7, <1>8 DEF SerialInv

\* The target's decision is stale until it is invalidated; the genealogy
\* exists, as the caller has a role on it.
LEMMA SerialUpsert ==
    ASSUME IInv, NEW w \in Workers, SerialInv(w), UpsertMembership(w)
    PROVE  SerialInv(w)'
<1> DEFINE rq == job[w].rq
           m == [role |-> rq.role, by |-> rq.sub]
<1>0. /\ mem \in [Gids -> [Users -> Members]]
      /\ job[w].pc = "ready" /\ rq.op = "Upsert" /\ UNCHANGED <<gen, bans, priv, cache, used>>
  BY DEF IInv, TypeOK, UpsertMembership, At, Serves
<1>1. CASE Lacks(w, Curator) \/ (rq.role = Owner /\ Lacks(w, Owner))
  BY <1>0, <1>1, SerialEnded DEF UpsertMembership, store
<1>2. CASE ~(Lacks(w, Curator) \/ (rq.role = Owner /\ Lacks(w, Owner)))
  <2>1. gen[rq.gid] # NoGen
    BY <1>0 DEF SerialInv, JobCurrent, EffectiveRole
  <2>2. mem' = [mem EXCEPT ![rq.gid][rq.tgt] = m] /\ Go(w, "invalidate")
    BY <1>2 DEF UpsertMembership, SetMember
  <2>3. job'[w].pc = "invalidate" /\ job'[w].rq = rq
    BY <2>2, SerialMoved
  <2>4. JobCurrent(w)'
    BY <2>3 DEF JobCurrent
  <2> HIDE DEF m
  <2>5. CacheAccounted(w)'
    <3> SUFFICES ASSUME NEW k \in Subjects \X Gids, cache'[k] # None
                 PROVE  cache'[k] = EffectiveRole(k[1], k[2])' \/ Stale(w, k)'
      BY DEF CacheAccounted
    <3>1. CASE k[2] = rq.gid /\ k[1] = rq.tgt
      BY <1>0, <2>3, <3>1 DEF Stale, Invalidated
    <3>2. CASE ~(k[2] = rq.gid /\ k[1] = rq.tgt)
      <4>1. cache[k] = EffectiveRole(k[1], k[2])
        BY <1>0 DEF SerialInv, CacheAccounted, Stale
      <4>2. EffectiveRole(k[1], k[2])' = EffectiveRole(k[1], k[2])
        <5>1. gen' = gen /\ (k[1] \in Users => mem'[k[2]][k[1]] = mem[k[2]][k[1]])
          BY <1>0, <2>2, <3>2, MemberWrite
        <5> QED BY <5>1, SameDecision
      <4> QED BY <1>0, <4>1, <4>2
    <3> QED BY <3>1, <3>2
  <2>6. NoOrphanMembers'
    BY <1>0, <2>1, <2>2 DEF SerialInv, NoOrphanMembers
  <2> QED BY <1>0, <2>4, <2>5, <2>6 DEF SerialInv, UnusedAbsent
<1> QED BY <1>1, <1>2

\* The leaver's decision is stale until it is invalidated.
LEMMA SerialDeleteMembership ==
    ASSUME IInv, NEW w \in Workers, SerialInv(w), DeleteMembership(w)
    PROVE  SerialInv(w)'
<1> DEFINE rq == job[w].rq
<1>0. /\ mem \in [Gids -> [Users -> Members]] /\ job[w] \in Jobs /\ JobFits(job[w])
      /\ job[w].pc = "delMem" /\ UNCHANGED <<gen, bans, priv, cache, used>>
  BY DEF IInv, TypeOK, JobsFit, DeleteMembership, At
<1>1. rq.op \in {"Remove", "Leave"}
  BY <1>0 DEF JobFits, Path, Resolving, Deleting
<1>2. mem' = [mem EXCEPT ![rq.gid][Leaver(w)] = NoMember] /\ Go(w, "invalidate")
  BY DEF DeleteMembership, ClearMember
<1>3. job'[w].pc = "invalidate" /\ job'[w].rq = rq
  BY <1>2, SerialMoved
<1>4. JobCurrent(w)'
  BY <1>3 DEF JobCurrent
<1>5. CacheAccounted(w)'
  <2> SUFFICES ASSUME NEW k \in Subjects \X Gids, cache'[k] # None
               PROVE  cache'[k] = EffectiveRole(k[1], k[2])' \/ Stale(w, k)'
    BY DEF CacheAccounted
  <2>1. CASE k[2] = rq.gid /\ k[1] = Leaver(w)
    BY <1>1, <1>3, <2>1 DEF Stale, Invalidated, Leaver, Serves
  <2>2. CASE ~(k[2] = rq.gid /\ k[1] = Leaver(w))
    <3>1. cache[k] = EffectiveRole(k[1], k[2])
      BY <1>0 DEF SerialInv, CacheAccounted, Stale
    <3>2. EffectiveRole(k[1], k[2])' = EffectiveRole(k[1], k[2])
      <4>1. gen' = gen /\ (k[1] \in Users => mem'[k[2]][k[1]] = mem[k[2]][k[1]])
        BY <1>0, <1>2, <2>2, MemberWrite
      <4> QED BY <4>1, SameDecision
    <3> QED BY <1>0, <3>1, <3>2
  <2> QED BY <2>1, <2>2
<1>6. NoOrphanMembers'
  BY <1>0, <1>2 DEF SerialInv, NoOrphanMembers, NoMember
<1> QED BY <1>0, <1>4, <1>5, <1>6 DEF SerialInv, UnusedAbsent

\* The loop of DeleteGenealogy ends with no member left.
LEMMA SerialDeleteMembers ==
    ASSUME IInv, NEW w \in Workers, SerialInv(w), DeleteMembers(w)
    PROVE  SerialInv(w)'
<1> DEFINE rq == job[w].rq
           gid == rq.gid
           todo == job[w].todo
<1>0. /\ mem \in [Gids -> [Users -> Members]] /\ job[w] \in Jobs /\ JobFits(job[w])
      /\ job[w].pc = "delMems" /\ UNCHANGED <<gen, bans, priv, cache, used>>
  BY DEF IInv, TypeOK, JobsFit, DeleteMembers, At
<1>1. rq.op = "Delete" /\ gid \in Gids /\ todo = MembersOf(gid)
  BY <1>0 DEF JobFits, Path, Resolving, Deleting, SerialInv, JobCurrent
<1>2. PICK u \in todo : ClearMember(gid, u) /\ Forgot(w, u)
  BY DEF DeleteMembers
<1>3. /\ job'[w].todo = todo \ {u} /\ job'[w].rq = rq
      /\ job'[w].pc = IF todo = {u} THEN "delGen" ELSE "delMems"
  BY <1>0, <1>2 DEF Forgot, IInv, TypeOK, Jobs
<1>4. mem' = [mem EXCEPT ![gid][u] = NoMember] /\ u \in Users
  BY <1>1, <1>2 DEF ClearMember, MembersOf
<1>5. {x \in Users : mem'[gid][x].role # None} = todo \ {u}
  BY <1>0, <1>1, <1>4 DEF MembersOf, NoMember
<1>6. MembersOf(gid)' = todo \ {u}
  BY <1>3, <1>5 DEF MembersOf
<1>7. JobCurrent(w)'
  BY <1>3, <1>6 DEF JobCurrent
<1>8. CacheAccounted(w)'
  <2> SUFFICES ASSUME NEW k \in Subjects \X Gids, cache'[k] # None
               PROVE  cache'[k] = EffectiveRole(k[1], k[2])' \/ Stale(w, k)'
    BY DEF CacheAccounted
  <2>1. CASE k[2] = gid
    BY <1>1, <1>3, <2>1 DEF Stale, Invalidated
  <2>2. CASE k[2] # gid
    <3>1. cache[k] = EffectiveRole(k[1], k[2])
      BY <1>0, <2>2 DEF SerialInv, CacheAccounted, Stale
    <3>2. EffectiveRole(k[1], k[2])' = EffectiveRole(k[1], k[2])
      <4>1. gen' = gen /\ (k[1] \in Users => mem'[k[2]][k[1]] = mem[k[2]][k[1]])
        BY <1>0, <1>4, <2>2, MemberWrite
      <4> QED BY <4>1, SameDecision
    <3> QED BY <1>0, <3>1, <3>2
  <2> QED BY <2>1, <2>2
<1>9. NoOrphanMembers'
  BY <1>0, <1>4 DEF SerialInv, NoOrphanMembers, NoMember
<1> QED BY <1>0, <1>7, <1>8, <1>9 DEF SerialInv, UnusedAbsent

\* The record goes when no member is left.
LEMMA SerialDeleteRecord ==
    ASSUME IInv, NEW w \in Workers, SerialInv(w), DeleteRecord(w)
    PROVE  SerialInv(w)'
<1> DEFINE rq == job[w].rq
           gid == rq.gid
<1>0. /\ gen \in [Gids -> GenRecords \cup {NoGen}] /\ mem \in [Gids -> [Users -> Members]]
      /\ job[w] \in Jobs /\ JobFits(job[w])
      /\ job[w].pc = "delGen" /\ UNCHANGED <<mem, bans, priv, cache, used>>
  BY DEF IInv, TypeOK, JobsFit, DeleteRecord, At
<1>1. rq.op = "Delete" /\ gid \in Gids /\ MembersOf(gid) = {}
  BY <1>0 DEF JobFits, Path, Resolving, Deleting, SerialInv, JobCurrent
<1>2. gen' = [gen EXCEPT ![gid] = NoGen]
  BY DEF DeleteRecord
<1>3. job'[w].pc \in {"count", "invalidate"} /\ job'[w].rq = rq
  BY SerialMoved DEF DeleteRecord
<1>4. JobCurrent(w)'
  BY <1>3 DEF JobCurrent
<1>5. CacheAccounted(w)'
  <2> SUFFICES ASSUME NEW k \in Subjects \X Gids, cache'[k] # None
               PROVE  cache'[k] = EffectiveRole(k[1], k[2])' \/ Stale(w, k)'
    BY DEF CacheAccounted
  <2>1. CASE k[2] = gid
    BY <1>1, <1>3, <2>1 DEF Stale, Invalidated
  <2>2. CASE k[2] # gid
    <3>1. cache[k] = EffectiveRole(k[1], k[2])
      BY <1>0, <2>2 DEF SerialInv, CacheAccounted, Stale
    <3>2. EffectiveRole(k[1], k[2])' = EffectiveRole(k[1], k[2])
      <4>1. gen'[k[2]] = gen[k[2]] /\ mem' = mem
        BY <1>0, <1>2, <2>2, RecordWrite
      <4> QED BY <4>1, SameDecision
    <3> QED BY <1>0, <3>1, <3>2
  <2> QED BY <2>1, <2>2
<1>6. NoOrphanMembers'
  BY <1>0, <1>1, <1>2 DEF SerialInv, NoOrphanMembers, MembersOf
<1>7. UnusedAbsent'
  BY <1>0, <1>2 DEF SerialInv, UnusedAbsent
<1> QED BY <1>4, <1>5, <1>6, <1>7 DEF SerialInv

\* A request keeps the genealogy it names, and ids stay drawn.
LEMMA NextNamesUsed ==
    ASSUME IInv, NEW w \in Workers, NamesUsed(w), [Next]_vars
    PROVE  NamesUsed(w)'
<1>0. job \in [Workers -> Jobs] /\ \A x \in Workers : job[x] \in Jobs
  BY DEF IInv, TypeOK
<1>1. used \subseteq used'
  BY DEF Next, Start, Resolve, CacheGet, ReadGenealogy, ReadMembership, CachePut, Handle, CheckQuota,
     CreatePutGenealogy, PutOwner, UpdateVisibility, UpdatePutGenealogy, Count, DeleteBegin,
     DropStore, ScanMembers, DeleteMembers, DeleteRecord, UpsertMembership, RemoveMember,
     LeaveGenealogy, CheckOwners, DeleteMembership, BanUser, UnbanUser, GetGenealogy, ListMembers,
     Invalidate, StoreError, Expire, Crash, vars
<1>2. \/ job'[w].pc = "idle"
      \/ ~At(w, "idle") /\ job'[w].rq = job[w].rq
      \/ job'[w].rq.op = "Create"
      \/ job'[w].rq.gid \in used
      \/ job'[w] = job[w]
  <2>1. ASSUME NEW x \in Workers, NEW rq \in Requests, Start(x, rq)
        PROVE  job'[w] = job[w] \/ job'[w].rq.op = "Create" \/ job'[w].rq.gid \in used
    BY <1>0, <2>1, IdleFits DEF Start, Jobs
  <2>2. ASSUME NEW x \in Workers, Resolve(x) \/ StoreError(x)
        PROVE  job'[w] = job[w] \/ job'[w].pc = "idle" \/ (~At(w, "idle") /\ job'[w].rq = job[w].rq)
    <3>1. CASE CacheGet(x) \/ ReadGenealogy(x) \/ ReadMembership(x) \/ CachePut(x)
      BY <1>0, <3>1 DEF CacheGet, ReadGenealogy, ReadMembership, CachePut, At, Go, Done, Idle, Jobs
    <3>2. CASE StoreError(x)
      <4>1. ~At(x, "idle")
        BY <3>2 DEF StoreError, At
      <4>2. Done(x) \/ Go(x, "invalidate") \/ \E u \in job[x].todo : Forgot(x, u)
        BY <3>2 DEF StoreError
      <4>3. CASE Done(x) \/ Go(x, "invalidate")
        BY <1>0, <4>1, <4>3 DEF At, Go, Done, Idle, Jobs
      <4>4. ASSUME NEW u \in job[x].todo, Forgot(x, u)
            PROVE  job'[w] = job[w] \/ (~At(w, "idle") /\ job'[w].rq = job[w].rq)
        BY <1>0, <4>1, <4>4 DEF Forgot, At, Jobs
      <4> QED BY <4>2, <4>3, <4>4
    <3> QED BY <2>2, <3>1, <3>2 DEF Resolve
  <2>3. ASSUME NEW x \in Workers, Handle(x)
        PROVE  job'[w] = job[w] \/ job'[w].pc = "idle" \/ (~At(w, "idle") /\ job'[w].rq = job[w].rq)
               \/ job'[w].rq.op = "Create"
    <3>1. CASE CreatePutGenealogy(x)
      BY <1>0, <3>1 DEF CreatePutGenealogy, Serves, Jobs, AllRequests
    <3>2. CASE \/ CheckQuota(x) \/ PutOwner(x) \/ UpdatePutGenealogy(x) \/ Count(x) \/ DropStore(x)
               \/ DeleteRecord(x) \/ UpsertMembership(x) \/ RemoveMember(x) \/ LeaveGenealogy(x)
               \/ CheckOwners(x) \/ DeleteMembership(x) \/ BanUser(x) \/ UnbanUser(x)
               \/ GetGenealogy(x) \/ ListMembers(x) \/ Invalidate(x)
      <4>1. ~At(x, "idle")
        BY <3>2 DEF CheckQuota, PutOwner, UpdatePutGenealogy, Count, DropStore, DeleteRecord,
           UpsertMembership, RemoveMember, LeaveGenealogy, CheckOwners, DeleteMembership, BanUser,
           UnbanUser, GetGenealogy, ListMembers, Invalidate, At
      <4>2. Done(x) \/ \E pc \in PCs : Go(x, pc)
        BY <3>2 DEF CheckQuota, PutOwner, UpdatePutGenealogy, Count, DropStore, DeleteRecord,
           UpsertMembership, RemoveMember, LeaveGenealogy, CheckOwners, DeleteMembership, BanUser,
           UnbanUser, GetGenealogy, ListMembers, Invalidate, PCs
      <4> QED BY <1>0, <4>1, <4>2 DEF At, Go, Done, Idle, Jobs
    <3>3. CASE UpdateVisibility(x) \/ DeleteBegin(x) \/ ScanMembers(x)
      BY <1>0, <3>3 DEF UpdateVisibility, DeleteBegin, ScanMembers, At, Done, Idle, Jobs
    <3>4. CASE DeleteMembers(x)
      BY <1>0, <3>4 DEF DeleteMembers, Forgot, At, Jobs
    <3> QED BY <2>3, <3>1, <3>2, <3>3, <3>4 DEF Handle
  <2>4. CASE Crash
    BY <2>4 DEF Crash, Idle
  <2> QED BY <2>1, <2>2, <2>3, <2>4 DEF Next, Expire, vars
<1> QED BY <1>1, <1>2 DEF NamesUsed, At, Serves

\* Every step of the only worker preserves the serial invariant.
LEMMA SerialNext ==
    ASSUME IInv, NEW w, Workers = {w}, "error" \notin Faults, SerialInv(w), NamesUsed(w), [Next]_vars
    PROVE  SerialInv(w)'
<1>1. ASSUME NEW rq \in Requests, Start(w, rq) PROVE SerialInv(w)'
  BY <1>1, SerialStart
<1>2. CASE Resolve(w)
  BY <1>2, SerialResolve
<1>3. CASE Handle(w)
  BY <1>3, SerialLooks, SerialScan, SerialOwners, SerialBan, SerialCount, SerialForgets,
     SerialCreate, SerialPutOwner, SerialUpdate, SerialUpsert, SerialDeleteMembership,
     SerialDeleteMembers, SerialDeleteRecord DEF Handle
<1>4. CASE Crash \/ \E k \in Subjects \X Gids : Expire(k)
  BY <1>4, SerialForgets
<1>5. CASE UNCHANGED vars
  <2>1. JobCurrent(w)'
    BY <1>5 DEF vars, store, SerialInv, JobCurrent, EffectiveRole, resolveLocked, explicitRole,
       MembersOf, countOwners, Leaver, Serves
  <2> QED BY <1>5, <2>1, SerialJobStep DEF vars, Stale, Invalidated
<1> QED BY <1>1, <1>2, <1>3, <1>4, <1>5 DEF Next, StoreError

\* A server with one worker whose store does not fail keeps SerialInv.
LEMMA SerialInductive ==
    ASSUME NEW w, Workers = {w}, "error" \notin Faults
    PROVE  Spec => [](IInv /\ SerialInv(w))
<1>1. Init => IInv /\ SerialInv(w) /\ NamesUsed(w)
  BY InitIInv, InitSerial DEF Init, NamesUsed, At, Idle
<1>2. IInv /\ SerialInv(w) /\ NamesUsed(w) /\ [Next]_vars => IInv' /\ SerialInv(w)' /\ NamesUsed(w)'
  BY NextIInv, SerialNext, NextNamesUsed
<1> QED BY <1>1, <1>2, PTL DEF Spec

\* One request at a time, crashes anywhere: no membership outlives its
\* genealogy, as CreateGenealogy writes the record first and DeleteGenealogy
\* removes it last, after all its members.
THEOREM MembersHaveGenealogy ==
    ASSUME NEW w, Workers = {w}, "error" \notin Faults
    PROVE  Spec => []NoOrphanMembers
<1>1. SerialInv(w) => NoOrphanMembers
  BY DEF SerialInv
<1> QED BY <1>1, SerialInductive, PTL

\* One request at a time, crashes and expiry anywhere: every handler leaves a
\* cache that answers as the store would, so what it invalidates is enough.
THEOREM CacheIsFresh ==
    ASSUME NEW w, Workers = {w}, "error" \notin Faults
    PROVE  Spec => []CacheFresh
<1>1. SerialInv(w) => CacheFresh
  BY DEF SerialInv, CacheAccounted, Stale, CacheFresh, Quiet, At
<1> QED BY <1>1, SerialInductive, PTL

\* A genealogy with two owners keeps one when one member goes.
LEMMA OwnerRemains ==
    ASSUME IInv, NEW w \in Workers, NEW g \in Gids, JobCurrent(w), DeleteMembership(w),
           job[w].rq.gid = g, countOwners(g) > 0
    PROVE  countOwners(g)' > 0
<1> DEFINE u == Leaver(w)
           owners == {x \in MembersOf(g) : mem[g][x].role = Owner}
           after == {x \in {y \in Users : mem'[g][y].role # None} : mem'[g][x].role = Owner}
<1>1. mem \in [Gids -> [Users -> Members]] /\ mem' = [mem EXCEPT ![g][u] = NoMember]
  BY DEF IInv, TypeOK, DeleteMembership, ClearMember
<1>2. after = owners \ {u}
  BY <1>1 DEF MembersOf, NoMember, None, Owner
<1>3. countOwners(g)' = Cardinality(after) /\ countOwners(g) = Cardinality(owners)
  BY DEF countOwners, MembersOf
<1>4. IsFiniteSet(owners)
  BY UsersAssumption, FS_Subset DEF MembersOf
<1>5. CASE u \in owners
  <2>1. mem[g][u].role = Owner
    BY <1>5
  <2>2. Cardinality(owners) > 1
    BY <1>3, <2>1 DEF JobCurrent, DeleteMembership, At
  <2>3. Cardinality(after) = Cardinality(owners) - 1
    BY <1>2, <1>4, <1>5, FS_RemoveElement
  <2> QED BY <1>3, <1>4, <2>2, <2>3, FS_CardinalityType
<1>6. CASE u \notin owners
  <2>1. after = owners
    BY <1>2, <1>6
  <2> QED BY <1>3, <2>1
<1> QED BY <1>5, <1>6

\* One request at a time: RemoveMember and LeaveGenealogy never take the last
\* Owner out, as countOwners still counts what they delete.
THEOREM LastOwnerIsKept ==
    ASSUME NEW w, Workers = {w}, "error" \notin Faults
    PROVE  Spec => LastOwnerStays
<1>1. IInv /\ SerialInv(w) /\ [Next]_vars => [KeepsAnOwner]_vars
  BY OwnerRemains DEF SerialInv, KeepsAnOwner
<1> QED BY <1>1, SerialInductive, PTL DEF Spec, LastOwnerStays

-----------------------------------------------------------------------------
(* The private counter and the records: QuotaDrift, for the specification    *)
(* with the history variable and without TLC's bound                         *)

In(x, S) == IF x \in S THEN 1 ELSE 0

\* Whether a record counts as a private genealogy of u.
Private(r, u) == IF r # NoGen /\ r.vis = "Private" /\ r.by = u THEN 1 ELSE 0

\* Only w's job changes.
OnlyJob(w) == \A x \in Workers \ {w} : job'[x] = job[x]

Accounted(u) ==
    LET off == priv[u] + Pending(u) - Cardinality(PrivateBy(u))
    IN  off <= drift /\ -off <= drift
Capped(u) ==
    MaxPrivate # 0 =>
        Cardinality(PrivateBy(u)) + Cardinality(Passed(u))
            <= MaxPrivate + (Cardinality(Workers) - 1) + drift

\* The property in its two parts.
LEMMA QuotaDriftMeans == QuotaDrift <=> \A u \in Users : Accounted(u) /\ Capped(u)
BY DEF QuotaDrift, Accounted, Capped

\* Two finite sets that agree except on x.
LEMMA OneDiffers ==
    ASSUME NEW S, NEW T, NEW x, IsFiniteSet(S), IsFiniteSet(T), S \ {x} = T \ {x}
    PROVE  /\ Cardinality(S) \in Nat /\ Cardinality(T) \in Nat
           /\ Cardinality(T) = Cardinality(S) + In(x, T) - In(x, S)
<1>1. Cardinality(S) \in Nat /\ Cardinality(T) \in Nat
  BY FS_CardinalityType
<1>2. Cardinality(S \ {x}) = Cardinality(S) - In(x, S)
  <2>1. CASE x \in S
    BY <1>1, <2>1, FS_RemoveElement DEF In
  <2>2. CASE x \notin S
    <3>1. Cardinality(S \ {x}) = Cardinality(S)
      <4>1. S \ {x} = S
        BY <2>2
      <4> QED  BY <4>1
    <3>2. In(x, S) = 0
      BY <2>2 DEF In
    <3> QED  BY <1>1, <3>1, <3>2
  <2> QED  BY <2>1, <2>2
<1>3. Cardinality(T \ {x}) = Cardinality(T) - In(x, T)
  <2>1. CASE x \in T
    BY <1>1, <2>1, FS_RemoveElement DEF In
  <2>2. CASE x \notin T
    <3>1. Cardinality(T \ {x}) = Cardinality(T)
      <4>1. T \ {x} = T
        BY <2>2
      <4> QED  BY <4>1
    <3>2. In(x, T) = 0
      BY <2>2 DEF In
    <3> QED  BY <1>1, <3>1, <3>2
  <2> QED  BY <2>1, <2>2
<1>4. In(x, S) \in {0, 1} /\ In(x, T) \in {0, 1}
  BY DEF In
<1>5. Cardinality(T) - In(x, T) = Cardinality(S) - In(x, S)
  BY <1>2, <1>3
<1> QED  BY <1>1, <1>4, <1>5

\* A part of the workers is finite.
LEMMA SomeWorkers ==
    ASSUME NEW S, S \subseteq Workers
    PROVE  IsFiniteSet(S) /\ Cardinality(S) \in Nat /\ Cardinality(S) <= Cardinality(Workers)
           /\ Cardinality(Workers) \in Nat
BY FiniteAssumption, FS_Subset, FS_CardinalityType

\* A worker owes a counter one, or is owed one, or neither.
LEMMA DebtRange == ASSUME NEW w, NEW u PROVE Debt(w, u) \in {-1, 0, 1}
BY DEF Debt, Owes, Delta

\* What is owed in all is a number.
LEMMA PendingType == ASSUME NEW u PROVE Pending(u) \in Int
<1>1. /\ Cardinality({x \in Workers : Debt(x, u) = 1}) \in Nat
      /\ Cardinality({x \in Workers : Debt(x, u) = -1}) \in Nat
  BY SomeWorkers
<1> QED  BY <1>1 DEF Pending

\* What is owed to a counter moves with the job that moves.
LEMMA PendingStep ==
    ASSUME NEW w \in Workers, OnlyJob(w), NEW u
    PROVE  Pending(u)' = Pending(u) + Debt(w, u)' - Debt(w, u)
<1> DEFINE P == {x \in Workers : Debt(x, u) = 1}
           M == {x \in Workers : Debt(x, u) = -1}
<1>1. \A x \in Workers \ {w} : Debt(x, u)' = Debt(x, u)
  BY DEF OnlyJob, Debt, Owed, QuotaHolder, Owes, Serves, At
<1>2. P' \ {w} = P \ {w} /\ M' \ {w} = M \ {w}
  BY <1>1
<1>3. In(w, P) - In(w, M) = Debt(w, u)
  BY DebtRange DEF In
<1>4. Debt(w, u)' \in {-1, 0, 1}
  BY DEF Debt, Owes, Delta
<1>5. In(w, P') - In(w, M') = Debt(w, u)'
  BY <1>4 DEF In
<1>6. IsFiniteSet(P) /\ IsFiniteSet(P') /\ IsFiniteSet(M) /\ IsFiniteSet(M')
  BY SomeWorkers
<1>7. Pending(u) = Cardinality(P) - Cardinality(M)
  BY DEF Pending
<1>8. Pending(u)' = Cardinality(P') - Cardinality(M')
  BY DEF Pending
<1>9. In(w, P) \in {0, 1} /\ In(w, P') \in {0, 1} /\ In(w, M) \in {0, 1} /\ In(w, M') \in {0, 1}
  BY DEF In
<1> HIDE DEF P, M
<1>10. /\ Cardinality(P) \in Nat /\ Cardinality(P') \in Nat
       /\ Cardinality(P') = Cardinality(P) + In(w, P') - In(w, P)
  BY <1>2, <1>6, OneDiffers
<1>11. /\ Cardinality(M) \in Nat /\ Cardinality(M') \in Nat
       /\ Cardinality(M') = Cardinality(M) + In(w, M') - In(w, M)
  BY <1>2, <1>6, OneDiffers
<1> QED  BY <1>3, <1>5, <1>7, <1>8, <1>9, <1>10, <1>11

\* The checked requests change with the job that moves.
LEMMA PassedStep ==
    ASSUME NEW w \in Workers, OnlyJob(w), NEW u
    PROVE  /\ Cardinality(Passed(u)) \in Nat
           /\ Cardinality(Passed(u)') = Cardinality(Passed(u)) + In(w, Passed(u)') - In(w, Passed(u))
<1>1. Passed(u)' \ {w} = Passed(u) \ {w}
  BY DEF OnlyJob, Passed, QuotaHolder, Serves, At
<1>2. IsFiniteSet(Passed(u)) /\ IsFiniteSet(Passed(u)')
  BY SomeWorkers DEF Passed
<1> QED  BY <1>1, <1>2, OneDiffers

\* A user has finitely many private genealogies.
LEMMA PrivateFinite ==
    ASSUME NEW u
    PROVE  IsFiniteSet(PrivateBy(u)) /\ Cardinality(PrivateBy(u)) \in Nat
<1>1. PrivateBy(u) \subseteq Gids
  BY DEF PrivateBy
<1> QED  BY <1>1, FiniteAssumption, FS_Subset, FS_CardinalityType

\* A write of one record changes their number by what that record counts for.
LEMMA PrivateByStep ==
    ASSUME IInv, NEW gid \in Gids, NEW r, gen' = [gen EXCEPT ![gid] = r], NEW u
    PROVE  Cardinality(PrivateBy(u)') =
              Cardinality(PrivateBy(u)) + Private(r, u) - Private(gen[gid], u)
<1>1. gen'[gid] = r /\ \A g \in Gids \ {gid} : gen'[g] = gen[g]
  BY DEF IInv, TypeOK
<1>2. PrivateBy(u)' \ {gid} = PrivateBy(u) \ {gid}
  BY <1>1 DEF PrivateBy
<1>3. PrivateBy(u)' \subseteq Gids
  BY DEF PrivateBy
<1>4. IsFiniteSet(PrivateBy(u)) /\ IsFiniteSet(PrivateBy(u)')
  BY <1>3, PrivateFinite, FiniteAssumption, FS_Subset
<1>5. In(gid, PrivateBy(u)') = Private(r, u)
  BY <1>1 DEF In, PrivateBy, Private
<1>6. In(gid, PrivateBy(u)) = Private(gen[gid], u)
  BY DEF In, PrivateBy, Private
<1> QED  BY <1>2, <1>4, <1>5, <1>6, OneDiffers

\* The size of a set with at most one element.
LEMMA AtMost ==
    ASSUME NEW S, NEW w, S \subseteq {w}
    PROVE  Cardinality(S) = In(w, S)
<1>1. CASE w \in S
  <2>1. S = {w}
    BY <1>1
  <2> QED  BY <1>1, <2>1, FS_Singleton DEF In
<1>2. CASE w \notin S
  <2>1. S = {}
    BY <1>2
  <2> QED  BY <1>2, <2>1, FS_EmptySet DEF In
<1> QED  BY <1>1, <1>2

\* The history counts what the step's own worker does.
LEMMA DriftStep ==
    ASSUME NEW w \in Workers, OnlyJob(w), drift \in Nat, Observe
    PROVE  /\ drift' \in Nat
           /\ drift' = drift + In(w, Overwriting)
                             + (IF priv' # priv THEN 0 ELSE In(w, Owed \ Owed'))
<1>1. Overwriting \subseteq {w}
  BY DEF Overwriting, OnlyJob, At
<1>2. Owed \ Owed' \subseteq {w}
  BY DEF Owed, OnlyJob, At
<1>3. Cardinality(Overwriting) = In(w, Overwriting) /\ Cardinality(Owed \ Owed') = In(w, Owed \ Owed')
  BY <1>1, <1>2, AtMost
<1>4. In(w, Overwriting) \in {0, 1} /\ In(w, Owed \ Owed') \in {0, 1}
  BY DEF In
<1> QED  BY <1>3, <1>4 DEF Observe

-----------------------------------------------------------------------------
\* The steps.

\* Each user's account after a step of one worker, from what the step does
\* to the counter, to the record gid and to the worker's own job.
LEMMA AccountStep ==
    ASSUME IInv, QuotaDrift, drift \in Nat, NEW w \in Workers, OnlyJob(w), NEW u \in Users,
           NEW e \in Nat, drift' = drift + e,
           NEW c \in Int, priv'[u] = priv[u] + c,
           NEW p \in Int, Cardinality(PrivateBy(u)') = Cardinality(PrivateBy(u)) + p,
           c + (Debt(w, u)' - Debt(w, u)) - p <= e,
           -(c + (Debt(w, u)' - Debt(w, u)) - p) <= e,
           p + (In(w, Passed(u)') - In(w, Passed(u))) <= e
    PROVE  Accounted(u)' /\ Capped(u)'
<1> DEFINE n == Cardinality(PrivateBy(u))
           q == Cardinality(Passed(u))
           d == Debt(w, u)' - Debt(w, u)
           i == In(w, Passed(u)') - In(w, Passed(u))
           N == Cardinality(Workers)
<1>1. n \in Nat /\ q \in Nat /\ Pending(u) \in Int /\ priv[u] \in Nat /\ N \in Nat
  BY PrivateFinite, PassedStep, PendingType, SomeWorkers DEF IInv, TypeOK
<1>2. Debt(w, u) \in {-1, 0, 1}
  BY DebtRange
<1>3. Debt(w, u)' \in {-1, 0, 1}
  BY DEF Debt, Owes, Delta
<1>4. d \in Int
  BY <1>2, <1>3
<1>5. In(w, Passed(u)) \in {0, 1} /\ In(w, Passed(u)') \in {0, 1}
  BY DEF In
<1>6. i \in Int
  BY <1>5
<1>7. Pending(u)' = Pending(u) + d
  BY <1>1, <1>2, <1>3, PendingStep
<1>8. Cardinality(Passed(u)') = q + i
  BY <1>1, <1>5, PassedStep
<1>9. priv[u] + Pending(u) - n <= drift /\ -(priv[u] + Pending(u) - n) <= drift
  BY QuotaDriftMeans DEF Accounted
<1>10. MaxPrivate # 0 => n + q <= MaxPrivate + (N - 1) + drift
  BY QuotaDriftMeans DEF Capped
<1> HIDE DEF n, q, d, i, N
<1>11. Accounted(u)'
  <2>1. (priv[u] + c) + (Pending(u) + d) - (n + p) = (priv[u] + Pending(u) - n) + (c + d - p)
    BY <1>1, <1>4
  <2>2. /\ (priv[u] + c) + (Pending(u) + d) - (n + p) <= drift + e
        /\ -((priv[u] + c) + (Pending(u) + d) - (n + p)) <= drift + e
    BY <1>1, <1>4, <1>9, <2>1 DEF d
  <2> QED  BY <1>7, <2>2 DEF Accounted, n
<1>12. Capped(u)'
  <2>1. MaxPrivate # 0 => (n + p) + (q + i) <= MaxPrivate + (N - 1) + (drift + e)
    BY <1>1, <1>6, <1>10, MaxPrivateAssumption DEF i
  <2> QED  BY <1>8, <2>1 DEF Capped, n, N
<1> QED  BY <1>11, <1>12

\* A step that leaves counter and records alone, takes on no debt and does not
\* come from the quota check.
LEMMA QuietStep ==
    ASSUME IInv, QuotaDrift, drift \in Nat, NEW w \in Workers, OnlyJob(w), Observe,
           gen' = gen, priv' = priv,
           w \in Owed' => w \in Owed /\ \A u \in Users : Debt(w, u)' = Debt(w, u),
           \A u \in Users : w \in Passed(u)' => w \in Passed(u)
    PROVE  QuotaDrift' /\ drift' \in Nat
<1> DEFINE e == In(w, Overwriting) + In(w, Owed \ Owed')
<1>1. drift' \in Nat /\ drift' = drift + In(w, Overwriting) + In(w, Owed \ Owed')
  BY DriftStep
<1>2. In(w, Overwriting) \in {0, 1} /\ In(w, Owed \ Owed') \in {0, 1}
  BY DEF In
<1>3. e \in Nat /\ drift' = drift + e
  BY <1>1, <1>2
<1>4. ASSUME NEW u \in Users PROVE Accounted(u)' /\ Capped(u)'
  <2>0. PICK z \in Int : z = 0
    OBVIOUS
  <2>1. Cardinality(PrivateBy(u)') = Cardinality(PrivateBy(u)) + z
    <3>1. PrivateBy(u)' = PrivateBy(u)
      BY DEF PrivateBy
    <3> QED  BY <2>0, <3>1, PrivateFinite
  <2>2. priv'[u] = priv[u] + z
    BY <2>0 DEF IInv, TypeOK
  <2>3. Debt(w, u) \in {-1, 0, 1}
    BY DebtRange
  <2>4. Debt(w, u)' \in {-1, 0, 1}
    BY DEF Debt, Owes, Delta
  <2>5. Debt(w, u)' - Debt(w, u) <= e /\ -(Debt(w, u)' - Debt(w, u)) <= e
    <3>1. CASE w \in Owed'
      BY <1>2, <2>3, <3>1
    <3>2. CASE w \notin Owed' /\ w \in Owed
      <4>1. Debt(w, u)' = 0 /\ In(w, Owed \ Owed') = 1
        BY <3>2 DEF Debt, In
      <4> QED  BY <1>2, <2>3, <4>1
    <3>3. CASE w \notin Owed' /\ w \notin Owed
      <4>1. Debt(w, u)' = 0 /\ Debt(w, u) = 0
        BY <3>3 DEF Debt
      <4> QED  BY <1>2, <4>1
    <3> QED  BY <3>1, <3>2, <3>3
  <2>6. In(w, Passed(u)') - In(w, Passed(u)) <= 0
    BY DEF In
  <2>7. In(w, Passed(u)) \in {0, 1} /\ In(w, Passed(u)') \in {0, 1}
    BY DEF In
  <2> HIDE DEF e
  <2>8. /\ z + (Debt(w, u)' - Debt(w, u)) - z <= e
        /\ -(z + (Debt(w, u)' - Debt(w, u)) - z) <= e
        /\ z + (In(w, Passed(u)') - In(w, Passed(u))) <= e
    BY <1>3, <2>0, <2>3, <2>4, <2>5, <2>6, <2>7
  <2> QED  BY <1>3, <2>1, <2>2, <2>8, AccountStep
<1> QED  BY <1>1, <1>4 DEF QuotaDrift, Accounted, Capped

\* Where no debt is taken on and nobody has passed a check.
Elsewhere == PCs \ {"count", "putOwner", "putGen"}

\* A step that ends there keeps the account.
LEMMA AsideStep ==
    ASSUME IInv, QuotaDrift, drift \in Nat, NEW w \in Workers, OnlyJob(w), Observe,
           gen' = gen, priv' = priv, job'[w].pc \in Elsewhere
    PROVE  QuotaDrift' /\ drift' \in Nat
<1>1. w \notin Owed' /\ \A u \in Users : w \notin Passed(u)'
  BY DEF Elsewhere, Owed, Passed, At
<1> QED  BY <1>1, QuietStep

\* Jobs that move on, or end.
LEMMA JobsMove ==
    ASSUME IInv, NEW w \in Workers
    PROVE  /\ \A pc : Go(w, pc) => OnlyJob(w) /\ job'[w].pc = pc /\ job'[w].rq = job[w].rq
                                   /\ job'[w].g = job[w].g
           /\ Done(w) => OnlyJob(w) /\ job'[w] = Idle /\ job'[w].pc \in Elsewhere
           /\ \A u : Forgot(w, u) => OnlyJob(w) /\ job'[w].pc \in Elsewhere
<1>1. job \in [Workers -> Jobs] /\ job[w] \in Jobs
  BY DEF IInv, TypeOK
<1>2. \A pc : Go(w, pc) => OnlyJob(w) /\ job'[w].pc = pc /\ job'[w].rq = job[w].rq
                            /\ job'[w].g = job[w].g
  BY <1>1 DEF Go, OnlyJob, Jobs
<1>3. Done(w) => OnlyJob(w) /\ job'[w] = Idle /\ job'[w].pc \in Elsewhere
  BY <1>1 DEF Done, OnlyJob, Idle, Elsewhere, PCs
<1>4. \A u : Forgot(w, u) => OnlyJob(w) /\ job'[w].pc \in Elsewhere
  BY <1>1 DEF Forgot, OnlyJob, Elsewhere, PCs, Jobs
<1> QED  BY <1>2, <1>3, <1>4

\* Resolve, and the handlers of roles, bans and reads.
LEMMA AsideSteps ==
    ASSUME IInv, QuotaDrift, drift \in Nat, NEW w \in Workers, Observe,
           \/ Resolve(w) \/ DeleteBegin(w) \/ DropStore(w) \/ ScanMembers(w) \/ DeleteMembers(w)
           \/ UpsertMembership(w) \/ RemoveMember(w) \/ LeaveGenealogy(w) \/ CheckOwners(w)
           \/ DeleteMembership(w) \/ BanUser(w) \/ UnbanUser(w) \/ GetGenealogy(w)
           \/ ListMembers(w) \/ Invalidate(w)
    PROVE  QuotaDrift' /\ drift' \in Nat
<1>0. job \in [Workers -> Jobs] /\ job[w] \in Jobs
  BY DEF IInv, TypeOK
<1>1. gen' = gen /\ priv' = priv
  BY DEF Resolve, CacheGet, ReadGenealogy, ReadMembership, CachePut, DeleteBegin, DropStore,
     ScanMembers, DeleteMembers, UpsertMembership, RemoveMember, LeaveGenealogy, CheckOwners,
     DeleteMembership, BanUser, UnbanUser, GetGenealogy, ListMembers, Invalidate, store
<1>2. OnlyJob(w) /\ job'[w].pc \in Elsewhere
  <2>1. CASE CacheGet(w) \/ ReadGenealogy(w) \/ ReadMembership(w)
    BY <1>0, <2>1, JobsMove
       DEF CacheGet, ReadGenealogy, ReadMembership, OnlyJob, Elsewhere, PCs, Jobs
  <2>2. CASE DeleteBegin(w) \/ ScanMembers(w)
    BY <1>0, <2>2, JobsMove DEF DeleteBegin, ScanMembers, OnlyJob, Elsewhere, PCs, Jobs
  <2>3. CASE DeleteMembers(w)
    BY <2>3, JobsMove DEF DeleteMembers
  <2>4. CASE \/ CachePut(w) \/ DropStore(w) \/ UpsertMembership(w) \/ RemoveMember(w)
             \/ LeaveGenealogy(w) \/ CheckOwners(w) \/ DeleteMembership(w) \/ BanUser(w)
             \/ UnbanUser(w) \/ GetGenealogy(w) \/ ListMembers(w) \/ Invalidate(w)
    <3>1. Done(w) \/ \E pc \in Elsewhere : Go(w, pc)
      BY <2>4 DEF CachePut, DropStore, UpsertMembership, RemoveMember, LeaveGenealogy, CheckOwners,
         DeleteMembership, BanUser, UnbanUser, GetGenealogy, ListMembers, Invalidate, Elsewhere, PCs
    <3> QED  BY <3>1, JobsMove
  <2> QED  BY <2>1, <2>2, <2>3, <2>4 DEF Resolve
<1> QED  BY <1>1, <1>2, AsideStep

\* A failed operation: what the handler owed is lost, and the history counts it.
LEMMA StoreErrorQuota ==
    ASSUME IInv, QuotaDrift, drift \in Nat, NEW w \in Workers, Observe, StoreError(w)
    PROVE  QuotaDrift' /\ drift' \in Nat
<1>1. gen' = gen /\ priv' = priv
  BY DEF StoreError, store
<1>2. Done(w) \/ Go(w, "invalidate") \/ \E u \in job[w].todo : Forgot(w, u)
  BY DEF StoreError
<1>3. OnlyJob(w) /\ job'[w].pc \in Elsewhere
  BY <1>2, JobsMove DEF Elsewhere, PCs
<1> QED  BY <1>1, <1>3, AsideStep

\* A request starts before its check.
LEMMA StartQuota ==
    ASSUME IInv, QuotaDrift, drift \in Nat, NEW w \in Workers, NEW rq \in Requests, Observe,
           Start(w, rq)
    PROVE  QuotaDrift' /\ drift' \in Nat
<1>0. job \in [Workers -> Jobs] /\ Idle \in Jobs
  BY IdleFits DEF IInv, TypeOK
<1>1. PICK j : j = [Idle EXCEPT !.pc = FirstStep(rq), !.rq = rq]
  OBVIOUS
<1>2. j.pc = FirstStep(rq) /\ j.rq = rq
  BY <1>0, <1>1 DEF Jobs
<1>3. gen' = gen /\ priv' = priv /\ job' = [job EXCEPT ![w] = j]
  BY <1>1 DEF Start, store
<1>4. OnlyJob(w) /\ job'[w] = j
  BY <1>0, <1>3 DEF OnlyJob
<1>5. j.pc \in Elsewhere \/ (j.pc = "putGen" /\ j.rq.vis # "Private")
  BY <1>2 DEF FirstStep, Elsewhere, PCs
<1>6. w \notin Owed' /\ \A u \in Users : w \notin Passed(u)'
  BY <1>4, <1>5 DEF Elsewhere, Owed, Passed, At
<1> QED  BY <1>3, <1>4, <1>6, QuietStep

\* UpdateVisibility goes to the check whenever it would make the genealogy private.
LEMMA UpdateVisibilityQuota ==
    ASSUME IInv, QuotaDrift, drift \in Nat, NEW w \in Workers, Observe, UpdateVisibility(w)
    PROVE  QuotaDrift' /\ drift' \in Nat
<1> DEFINE g == gen[job[w].rq.gid]
           pc == IF Delta(g.vis, job[w].rq.vis) = 1 THEN "check" ELSE "putGen"
<1>0. job \in [Workers -> Jobs] /\ job[w] \in Jobs
  BY DEF IInv, TypeOK
<1>1. gen' = gen /\ priv' = priv /\ Serves(w, "UpdateVisibility")
  BY DEF UpdateVisibility, store
<1>2. CASE Done(w)
  BY <1>1, <1>2, JobsMove, AsideStep
<1>3. CASE job' = [job EXCEPT ![w].g = g, ![w].pc = pc]
  <2>1. OnlyJob(w)
    BY <1>0, <1>3 DEF OnlyJob
  <2>2. job'[w].pc = pc /\ job'[w].g = g /\ job'[w].rq = job[w].rq
    BY <1>0, <1>3 DEF Jobs
  <2>3. pc = "putGen" /\ job[w].rq.vis = "Private" => g.vis = "Private"
    BY DEF Delta
  <2>4. pc \in {"check", "putGen"}
    OBVIOUS
  <2> HIDE DEF pc, g
  <2>5. w \notin Owed'
    BY <2>2, <2>4 DEF Owed, At
  <2>6. \A u \in Users : w \notin Passed(u)'
    BY <1>1, <2>2, <2>3, <2>4 DEF Passed, At, Serves
  <2> QED  BY <1>1, <2>1, <2>5, <2>6, QuietStep
<1> QED  BY <1>2, <1>3 DEF UpdateVisibility

\* The owner's membership: the debt of a private creation stays.
LEMMA PutOwnerQuota ==
    ASSUME IInv, QuotaDrift, drift \in Nat, NEW w \in Workers, Observe, PutOwner(w)
    PROVE  QuotaDrift' /\ drift' \in Nat
<1> DEFINE pc == IF job[w].rq.vis = "Private" THEN "count" ELSE "invalidate"
<1>1. At(w, "putOwner") /\ Go(w, pc) /\ gen' = gen /\ priv' = priv
  BY DEF PutOwner
<1>2. pc \in {"count", "invalidate"} /\ (pc = "count" => job[w].rq.vis = "Private")
  OBVIOUS
<1> HIDE DEF pc
<1>3. OnlyJob(w) /\ job'[w].pc = pc /\ job'[w].rq = job[w].rq /\ job'[w].g = job[w].g
  BY <1>1, JobsMove
<1>4. \A u \in Users : w \notin Passed(u)'
  BY <1>2, <1>3 DEF Passed, At
<1>5. w \in Owed' => w \in Owed
  BY <1>1, <1>2, <1>3 DEF Owed, At
<1>6. ASSUME w \in Owed', NEW u \in Users PROVE Debt(w, u)' = Debt(w, u)
  BY <1>3, <1>5, <1>6 DEF Debt, QuotaHolder, Owes, Serves
<1> QED  BY <1>1, <1>3, <1>4, <1>5, <1>6, QuietStep

\* The workers that owe one and those past the check are different workers.
LEMMA Together ==
    ASSUME NEW u, NEW w \in Workers, At(w, "check")
    PROVE  Pending(u) + Cardinality(Passed(u)) + 1 <= Cardinality(Workers)
<1> DEFINE P == {x \in Workers : Debt(x, u) = 1}
           M == {x \in Workers : Debt(x, u) = -1}
           S == Passed(u) \cup {w}
<1>1. P \subseteq Workers /\ M \subseteq Workers /\ Passed(u) \subseteq Workers /\ S \subseteq Workers
  BY DEF Passed
<1>2. w \notin Passed(u) /\ P \cap S = {}
  BY DEF Passed, Debt, Owed, At
<1>3. Pending(u) = Cardinality(P) - Cardinality(M)
  BY DEF Pending
<1> HIDE DEF P, M
<1>4. /\ IsFiniteSet(P) /\ IsFiniteSet(S) /\ IsFiniteSet(Passed(u))
      /\ Cardinality(P) \in Nat /\ Cardinality(M) \in Nat /\ Cardinality(Passed(u)) \in Nat
  BY <1>1, SomeWorkers
<1>5. Cardinality(S) = Cardinality(Passed(u)) + 1
  BY <1>2, <1>4, FS_AddElement
<1> HIDE DEF S
<1>6. Cardinality(P \cup S) = Cardinality(P) + Cardinality(S)
  <2>1. Cardinality(P \cup S) = Cardinality(P) + Cardinality(S) - Cardinality(P \cap S)
    BY <1>4, FS_Union
  <2>2. Cardinality(P \cap S) = 0
    BY <1>2, FS_EmptySet
  <2> QED  BY <1>4, <1>5, <2>1, <2>2
<1>7. Cardinality(P \cup S) <= Cardinality(Workers) /\ Cardinality(Workers) \in Nat
  BY <1>1, SomeWorkers
<1> QED  BY <1>3, <1>4, <1>5, <1>6, <1>7

\* The check: the counter is below the cap, so the records are, but for what is
\* owed, for the drift and for the others past the check.
LEMMA CheckingQuota ==
    ASSUME IInv, QuotaDrift, drift \in Nat, NEW w \in Workers, Observe, CheckQuota(w)
    PROVE  QuotaDrift' /\ drift' \in Nat
<1>0. At(w, "check") /\ gen' = gen /\ priv' = priv
  BY DEF CheckQuota, store
<1>1. CASE Done(w)
  BY <1>0, <1>1, JobsMove, AsideStep
<1>2. CASE Go(w, "putGen") /\ QuotaAllows(QuotaHolder(w))
  <2>1. OnlyJob(w) /\ job'[w].pc = "putGen" /\ job'[w].rq = job[w].rq /\ job'[w].g = job[w].g
    BY <1>2, JobsMove
  <2>2. w \notin Owed /\ w \notin Owed' /\ w \notin Overwriting
    BY <1>0, <2>1 DEF Owed, Overwriting, At
  <2>3. drift' = drift
    <3>1. In(w, Overwriting) = 0 /\ In(w, Owed \ Owed') = 0
      BY <2>2 DEF In
    <3>2. drift' = drift + In(w, Overwriting) + In(w, Owed \ Owed')
      BY <1>0, <2>1, DriftStep
    <3> QED  BY <3>1, <3>2
  <2>4. ASSUME NEW u \in Users PROVE Accounted(u)' /\ Capped(u)'
    <3> DEFINE n == Cardinality(PrivateBy(u))
               q == Cardinality(Passed(u))
               N == Cardinality(Workers)
    <3>1. PrivateBy(u)' = PrivateBy(u)
      BY <1>0 DEF PrivateBy
    <3>2. Debt(w, u) = 0 /\ Debt(w, u)' = 0
      BY <2>2 DEF Debt
    <3>3. n \in Nat /\ q \in Nat /\ Pending(u) \in Int /\ priv[u] \in Nat /\ N \in Nat
      BY <2>1, PrivateFinite, PassedStep, PendingType, SomeWorkers DEF IInv, TypeOK
    <3>4. Pending(u)' = Pending(u)
      BY <2>1, <3>2, <3>3, PendingStep
    <3>5. Accounted(u)'
      BY <1>0, <2>3, <3>1, <3>4, QuotaDriftMeans DEF Accounted
    <3>6. /\ priv[u] + Pending(u) - n <= drift /\ -(priv[u] + Pending(u) - n) <= drift
          /\ MaxPrivate # 0 => n + q <= MaxPrivate + (N - 1) + drift
      BY QuotaDriftMeans DEF Accounted, Capped
    <3>7. Cardinality(Passed(u)') = q + In(w, Passed(u)') - In(w, Passed(u))
      BY <2>1, PassedStep
    <3>8. w \notin Passed(u)
      BY <1>0 DEF Passed, At
    <3>9. CASE w \notin Passed(u)'
      <4>1. In(w, Passed(u)') = 0 /\ In(w, Passed(u)) = 0
        BY <3>8, <3>9 DEF In
      <4>2. Cardinality(Passed(u)') = q
        BY <3>3, <3>7, <4>1
      <4> QED  BY <2>3, <3>1, <3>5, <3>6, <4>2 DEF Capped
    <3>10. CASE w \in Passed(u)'
      <4>1. In(w, Passed(u)') = 1 /\ In(w, Passed(u)) = 0
        BY <3>8, <3>10 DEF In
      <4>2. Cardinality(Passed(u)') = q + 1
        BY <3>3, <3>7, <4>1
      <4>3. QuotaHolder(w) = u
        BY <2>1, <3>10 DEF Passed, QuotaHolder, Serves
      <4>4. MaxPrivate = 0 \/ priv[u] < MaxPrivate
        BY <1>2, <4>3 DEF QuotaAllows
      <4>5. Pending(u) + q + 1 <= N
        BY <1>0, Together
      <4> HIDE DEF n, q, N
      <4>6. MaxPrivate # 0 => n + (q + 1) <= MaxPrivate + (N - 1) + drift
        BY <3>3, <3>6, <4>4, <4>5, MaxPrivateAssumption
      <4> QED  BY <2>3, <3>1, <3>5, <4>2, <4>6 DEF Capped, n, N
    <3> QED  BY <3>9, <3>10
  <2> QED  BY <2>3, <2>4 DEF QuotaDrift, Accounted, Capped
<1> QED  BY <1>1, <1>2 DEF CheckQuota

\* A new record, and the debt that goes with it.
LEMMA CreateQuota ==
    ASSUME IInv, UnusedAbsent, QuotaDrift, drift \in Nat, NEW w \in Workers, Observe,
           CreatePutGenealogy(w)
    PROVE  QuotaDrift' /\ drift' \in Nat
<1> DEFINE rq == job[w].rq
<1>0. job \in [Workers -> Jobs] /\ job[w] \in Jobs /\ At(w, "putGen") /\ Serves(w, "Create")
  BY DEF IInv, TypeOK, CreatePutGenealogy
<1>1. PICK gid \in Gids \ used :
         /\ PutGenealogy(gid, rq.vis, rq.sub)
         /\ job' = [job EXCEPT ![w].pc = "putOwner", ![w].rq.gid = gid]
  BY DEF CreatePutGenealogy
<1>2. OnlyJob(w) /\ job'[w].pc = "putOwner" /\ job'[w].g = job[w].g
  BY <1>0, <1>1 DEF OnlyJob, Jobs
<1>3. job'[w].rq.op = rq.op /\ job'[w].rq.sub = rq.sub /\ job'[w].rq.vis = rq.vis
  BY <1>0, <1>1 DEF Jobs, AllRequests
<1>4. priv' = priv
  BY DEF CreatePutGenealogy
<1>5. PICK r : r = [vis |-> rq.vis, by |-> rq.sub]
  OBVIOUS
<1>6. gen' = [gen EXCEPT ![gid] = r] /\ gen[gid] = NoGen
  BY <1>1, <1>5 DEF PutGenealogy, UnusedAbsent
<1>7. r # NoGen
  <2>1. Valid(rq) /\ rq.op = "Create"
    BY <1>0 DEF IInv, JobsFit, JobFits, At, Serves
  <2>2. r \in GenRecords
    BY <1>5, <2>1 DEF Valid, GenRecords
  <2> QED  BY <2>2, NullsAssumption
<1>8. w \notin Owed
  BY <1>0 DEF Owed, At
<1>9. PICK e \in Nat : drift' = drift + e
  <2>1. In(w, Overwriting) \in {0, 1} /\ In(w, Owed \ Owed') = 0
    BY <1>8 DEF In
  <2> QED  BY <1>2, <1>4, <2>1, DriftStep
<1>10. ASSUME NEW u \in Users PROVE Accounted(u)' /\ Capped(u)'
  <2>1. PICK p \in {0, 1} : p = IF rq.vis = "Private" /\ rq.sub = u THEN 1 ELSE 0
    OBVIOUS
  <2>2. Private(r, u) = p /\ Private(gen[gid], u) = 0
    BY <1>5, <1>6, <1>7, <2>1 DEF Private
  <2>3. Cardinality(PrivateBy(u)') = Cardinality(PrivateBy(u)) + p
    <3>1. Cardinality(PrivateBy(u)') =
             Cardinality(PrivateBy(u)) + Private(r, u) - Private(gen[gid], u)
      BY <1>6, PrivateByStep
    <3>2. Cardinality(PrivateBy(u)) \in Nat
      BY PrivateFinite
    <3> QED  BY <2>2, <3>1, <3>2
  <2>4. Debt(w, u) = 0
    BY <1>8 DEF Debt
  <2>5. Debt(w, u)' = p
    <3>1. w \in Owed' <=> rq.vis = "Private"
      BY <1>2, <1>3 DEF Owed, At
    <3>2. QuotaHolder(w)' = rq.sub /\ Owes(w)' = 1
      BY <1>0, <1>3 DEF QuotaHolder, Owes, Serves
    <3> QED  BY <2>1, <3>1, <3>2 DEF Debt
  <2>6. In(w, Passed(u)) = p
    BY <1>0, <2>1 DEF In, Passed, QuotaHolder, Serves, At
  <2>7. In(w, Passed(u)') = 0
    BY <1>2 DEF In, Passed, At
  <2>8. PICK c \in Int : c = 0
    OBVIOUS
  <2>9. priv'[u] = priv[u] + c
    BY <1>4, <2>8 DEF IInv, TypeOK
  <2>10. /\ c + (Debt(w, u)' - Debt(w, u)) - p <= e
         /\ -(c + (Debt(w, u)' - Debt(w, u)) - p) <= e
         /\ p + (In(w, Passed(u)') - In(w, Passed(u))) <= e
    BY <2>4, <2>5, <2>6, <2>7, <2>8
  <2>11. p \in Int
    OBVIOUS
  <2> QED  BY <1>2, <1>9, <2>3, <2>9, <2>10, <2>11, AccountStep
<1> QED  BY <1>9, <1>10 DEF QuotaDrift, Accounted, Capped

\* A record x is written over with r (or deleted), by a worker that read it as g:
\* the debt is what the step would have changed had the record stayed as it was.
Overwrites(w, gid, r, g) ==
    /\ OnlyJob(w) /\ priv' = priv /\ gen' = [gen EXCEPT ![gid] = r]
    /\ w \notin Owed /\ (gen[gid] # g => w \in Overwriting)
    /\ \A u \in Users :
          /\ Debt(w, u)' = Private(r, u) - Private(g, u)
          /\ w \notin Passed(u)'
          /\ Private(r, u) = 1 /\ Private(g, u) = 0 => w \in Passed(u)

\* Such a write keeps the account: it is off by one at most if the record had changed.
LEMMA WriteQuota ==
    ASSUME IInv, QuotaDrift, drift \in Nat, NEW w \in Workers, Observe,
           NEW gid \in Gids, NEW r, NEW g, Overwrites(w, gid, r, g)
    PROVE  QuotaDrift' /\ drift' \in Nat
<1>0. /\ OnlyJob(w) /\ priv' = priv /\ gen' = [gen EXCEPT ![gid] = r]
      /\ w \notin Owed /\ (gen[gid] # g => w \in Overwriting)
      /\ \A u \in Users : /\ Debt(w, u)' = Private(r, u) - Private(g, u) /\ w \notin Passed(u)'
                          /\ Private(r, u) = 1 /\ Private(g, u) = 0 => w \in Passed(u)
  BY DEF Overwrites
<1>1. In(w, Overwriting) \in {0, 1} /\ In(w, Owed \ Owed') = 0
  BY <1>0 DEF In
<1>2. drift' \in Nat /\ drift' = drift + In(w, Overwriting) + In(w, Owed \ Owed')
  BY <1>0, DriftStep
<1>3. PICK e \in Nat : e = In(w, Overwriting)
  BY <1>1
<1>4. drift' = drift + e
  BY <1>1, <1>2, <1>3
<1>5. gen[gid] = g \/ e = 1
  BY <1>0, <1>3 DEF In
<1>6. ASSUME NEW u \in Users PROVE Accounted(u)' /\ Capped(u)'
  <2>1. Private(r, u) \in {0, 1} /\ Private(g, u) \in {0, 1} /\ Private(gen[gid], u) \in {0, 1}
    BY DEF Private
  <2>2. PICK p \in Int : p = Private(r, u) - Private(gen[gid], u)
    BY <2>1
  <2>3. Cardinality(PrivateBy(u)') = Cardinality(PrivateBy(u)) + p
    <3>1. Cardinality(PrivateBy(u)') =
             Cardinality(PrivateBy(u)) + Private(r, u) - Private(gen[gid], u)
      BY <1>0, PrivateByStep
    <3>2. Cardinality(PrivateBy(u)) \in Nat
      BY PrivateFinite
    <3> QED  BY <2>1, <2>2, <3>1, <3>2
  <2>4. Debt(w, u) = 0 /\ Debt(w, u)' = Private(r, u) - Private(g, u)
    BY <1>0 DEF Debt
  <2>5. In(w, Passed(u)') = 0 /\ In(w, Passed(u)) \in {0, 1}
        /\ (Private(r, u) = 1 /\ Private(g, u) = 0 => In(w, Passed(u)) = 1)
    BY <1>0 DEF In
  <2>6. PICK c \in Int : c = 0
    OBVIOUS
  <2>7. priv'[u] = priv[u] + c
    BY <1>0, <2>6 DEF IInv, TypeOK
  <2>8. Private(gen[gid], u) = Private(g, u) \/ e = 1
    BY <1>5
  <2>9. /\ c + (Debt(w, u)' - Debt(w, u)) - p <= e
        /\ -(c + (Debt(w, u)' - Debt(w, u)) - p) <= e
        /\ p + (In(w, Passed(u)') - In(w, Passed(u))) <= e
    BY <2>1, <2>2, <2>4, <2>5, <2>6, <2>8
  <2> QED  BY <1>0, <1>4, <2>3, <2>7, <2>9, AccountStep
<1> QED  BY <1>2, <1>6 DEF QuotaDrift, Accounted, Capped

\* UpdateVisibility writes the record it read, with the new visibility.
LEMMA UpdatePutQuota ==
    ASSUME IInv, QuotaDrift, drift \in Nat, NEW w \in Workers, Observe, UpdatePutGenealogy(w)
    PROVE  QuotaDrift' /\ drift' \in Nat
<1> DEFINE rq == job[w].rq
           g == job[w].g
           pc == IF Delta(g.vis, rq.vis) # 0 THEN "count" ELSE "invalidate"
<1>1. /\ job[w] \in Jobs /\ JobFits(job[w]) /\ At(w, "putGen") /\ job[w].pc = "putGen"
      /\ rq.op = "UpdateVisibility"
  BY DEF IInv, TypeOK, JobsFit, UpdatePutGenealogy, At, Serves
<1>2. g \in GenRecords /\ g # NoGen /\ rq.vis \in Visibilities /\ rq.gid \in Gids
  BY <1>1 DEF JobFits, Valid, Jobs
<1>3. PICK r : r = [vis |-> rq.vis, by |-> g.by]
  OBVIOUS
<1>4. r \in GenRecords /\ r # NoGen /\ r.vis = rq.vis /\ r.by = g.by
  BY <1>2, <1>3, NullsAssumption DEF GenRecords
<1>5. gen' = [gen EXCEPT ![rq.gid] = r] /\ priv' = priv /\ Go(w, pc)
  BY <1>3 DEF UpdatePutGenealogy, PutGenealogy
<1>6. /\ OnlyJob(w) /\ job'[w].pc = pc /\ job'[w].rq = rq /\ job'[w].g = g
  BY <1>5, JobsMove
<1>7. pc \in {"count", "invalidate"} /\ (pc = "count" <=> Delta(g.vis, rq.vis) # 0)
  OBVIOUS
<1> HIDE DEF pc
<1>8. w \notin Owed
  BY <1>1 DEF Owed, At
<1>9. gen[rq.gid] # g => w \in Overwriting
  BY <1>1, <1>6, <1>7 DEF Overwriting, Serves
<1>10. \A u \in Users : w \notin Passed(u)'
  BY <1>6, <1>7 DEF Passed, At
<1>11. ASSUME NEW u \in Users PROVE Debt(w, u)' = Private(r, u) - Private(g, u)
  <2>1. Private(r, u) - Private(g, u) = IF g.by = u THEN Delta(g.vis, rq.vis) ELSE 0
    BY <1>2, <1>4 DEF Private, Delta
  <2>2. w \in Owed' <=> pc = "count"
    BY <1>6, <1>7 DEF Owed, At
  <2>3. QuotaHolder(w)' = g.by /\ Owes(w)' = Delta(g.vis, rq.vis)
    BY <1>1, <1>6 DEF QuotaHolder, Owes, Serves
  <2>4. Debt(w, u)' = IF w \in Owed' /\ QuotaHolder(w)' = u THEN Owes(w)' ELSE 0
    BY DEF Debt
  <2> QED  BY <1>7, <2>1, <2>2, <2>3, <2>4
<1>12. ASSUME NEW u \in Users, Private(r, u) = 1, Private(g, u) = 0 PROVE w \in Passed(u)
  BY <1>1, <1>2, <1>4, <1>12 DEF Private, Passed, QuotaHolder, Serves
<1>13. Overwrites(w, rq.gid, r, g)
  BY <1>5, <1>6, <1>8, <1>9, <1>10, <1>11, <1>12 DEF Overwrites
<1> QED  BY <1>2, <1>13, WriteQuota

\* DeleteGenealogy deletes a record; the creator it read gets one back.
LEMMA DeleteRecordQuota ==
    ASSUME IInv, QuotaDrift, drift \in Nat, NEW w \in Workers, Observe, DeleteRecord(w)
    PROVE  QuotaDrift' /\ drift' \in Nat
<1> DEFINE rq == job[w].rq
           g == job[w].g
           pc == IF g.vis = "Private" THEN "count" ELSE "invalidate"
<1>1. /\ job[w] \in Jobs /\ JobFits(job[w]) /\ At(w, "delGen") /\ job[w].pc = "delGen"
  BY DEF IInv, TypeOK, JobsFit, DeleteRecord, At
<1>2. rq.op = "Delete"
  BY <1>1 DEF JobFits, Path, Resolving, Deleting
<1>3. g \in GenRecords /\ g # NoGen /\ rq.gid \in Gids
  BY <1>1, <1>2 DEF JobFits, Jobs, Deleting
<1>4. PICK r : r = NoGen
  OBVIOUS
<1>5. gen' = [gen EXCEPT ![rq.gid] = r] /\ priv' = priv /\ Go(w, pc)
  BY <1>4 DEF DeleteRecord
<1>6. /\ OnlyJob(w) /\ job'[w].pc = pc /\ job'[w].rq = rq /\ job'[w].g = g
  BY <1>5, JobsMove
<1>7. pc \in {"count", "invalidate"} /\ (pc = "count" <=> g.vis = "Private")
  OBVIOUS
<1> HIDE DEF pc
<1>8. w \notin Owed
  BY <1>1 DEF Owed, At
<1>9. gen[rq.gid] # g => w \in Overwriting
  BY <1>1, <1>6, <1>7 DEF Overwriting
<1>10. \A u \in Users : w \notin Passed(u)'
  BY <1>6, <1>7 DEF Passed, At
<1>11. ASSUME NEW u \in Users PROVE Debt(w, u)' = Private(r, u) - Private(g, u)
  <2>1. Private(r, u) - Private(g, u) = IF g.vis = "Private" /\ g.by = u THEN -1 ELSE 0
    BY <1>3, <1>4 DEF Private
  <2>2. w \in Owed' <=> pc = "count"
    BY <1>6, <1>7 DEF Owed, At
  <2>3. QuotaHolder(w)' = g.by /\ Owes(w)' = -1
    BY <1>2, <1>6 DEF QuotaHolder, Owes, Serves
  <2>4. Debt(w, u)' = IF w \in Owed' /\ QuotaHolder(w)' = u THEN Owes(w)' ELSE 0
    BY DEF Debt
  <2> QED  BY <1>7, <2>1, <2>2, <2>3, <2>4
<1>12. ASSUME NEW u \in Users, Private(r, u) = 1, Private(g, u) = 0 PROVE w \in Passed(u)
  BY <1>4, <1>12 DEF Private
<1>13. Overwrites(w, rq.gid, r, g)
  BY <1>5, <1>6, <1>8, <1>9, <1>10, <1>11, <1>12 DEF Overwrites
<1> QED  BY <1>3, <1>13, WriteQuota

\* The counter moves by what is owed to it, unless it is at the floor: then the
\* step is lost, and the history counts it.
LEMMA CountQuota ==
    ASSUME IInv, QuotaDrift, drift \in Nat, NEW w \in Workers, Observe, Count(w)
    PROVE  QuotaDrift' /\ drift' \in Nat
<1> DEFINE h == QuotaHolder(w)
           d == Owes(w)
<1>1. /\ job[w] \in Jobs /\ JobFits(job[w]) /\ At(w, "count") /\ job[w].pc = "count"
  BY DEF IInv, TypeOK, JobsFit, Count, At
<1>2. job[w].rq.op \in {"Create", "UpdateVisibility", "Delete"}
  BY <1>1 DEF JobFits, Path, Resolving, Deleting
<1>3. h \in Users
  BY <1>1, <1>2 DEF JobFits, Valid, QuotaHolder, Serves, Jobs, GenRecords
<1>4. d \in {-1, 0, 1}
  BY DEF Owes, Delta
<1>5. priv' = [priv EXCEPT ![h] = incCounter(priv[h], d)] /\ gen' = gen /\ Go(w, "invalidate")
  BY DEF Count, Owes, Serves
<1>6. OnlyJob(w) /\ job'[w].pc = "invalidate" /\ job'[w].rq = job[w].rq /\ job'[w].g = job[w].g
  BY <1>5, JobsMove
<1>7. w \in Owed /\ w \notin Owed' /\ w \notin Overwriting
  BY <1>1, <1>6 DEF Owed, Overwriting, At
<1>8. \A u \in Users : w \notin Passed(u) /\ w \notin Passed(u)'
  BY <1>1, <1>6 DEF Passed, At
<1>9. \A u \in Users : Debt(w, u)' = 0 /\ Debt(w, u) = IF h = u THEN d ELSE 0
  BY <1>7 DEF Debt
<1>10. priv \in [Users -> Nat]
  BY DEF IInv, TypeOK
<1>11. /\ drift' \in Nat
       /\ drift' = drift + In(w, Overwriting) + (IF priv' # priv THEN 0 ELSE In(w, Owed \ Owed'))
  BY <1>6, DriftStep
<1>12. In(w, Overwriting) = 0 /\ In(w, Owed \ Owed') = 1
  BY <1>7 DEF In
<1> HIDE DEF h, d
<1>13. PICK e \in Nat : e = IF priv' # priv THEN 0 ELSE 1
  OBVIOUS
<1>14. drift' = drift + e
  BY <1>11, <1>12, <1>13
<1>15. ASSUME NEW u \in Users PROVE Accounted(u)' /\ Capped(u)'
  <2>1. PICK p \in Int : p = 0
    OBVIOUS
  <2>2. Cardinality(PrivateBy(u)') = Cardinality(PrivateBy(u)) + p
    <3>1. PrivateBy(u)' = PrivateBy(u)
      BY <1>5 DEF PrivateBy
    <3> QED  BY <2>1, <3>1, PrivateFinite
  <2>3. PICK c \in Int : c = priv'[u] - priv[u]
    <3>1. incCounter(priv[h], d) \in Nat
      BY <1>3, <1>4, <1>10 DEF incCounter
    <3>2. priv'[u] \in Nat
      BY <1>5, <1>10, <3>1
    <3> QED  BY <1>10, <3>2
  <2>4. priv[u] \in Nat /\ priv'[u] \in Nat
    <3>1. incCounter(priv[h], d) \in Nat
      BY <1>3, <1>4, <1>10 DEF incCounter
    <3> QED  BY <1>5, <1>10, <3>1
  <2>5. priv'[u] = priv[u] + c
    BY <2>3, <2>4
  <2>6. In(w, Passed(u)') = 0 /\ In(w, Passed(u)) = 0
    BY <1>8 DEF In
  <2>7. Debt(w, u)' = 0 /\ Debt(w, u) = IF h = u THEN d ELSE 0
    BY <1>9
  <2>8. c - Debt(w, u) \in {0, 1} /\ (c - Debt(w, u) = 1 => e = 1)
    <3>1. CASE u # h
      <4>1. priv'[u] = priv[u]
        BY <1>5, <1>10, <3>1
      <4> QED  BY <2>3, <2>4, <2>7, <3>1, <4>1
    <3>2. CASE u = h
      <4>1. priv'[u] = incCounter(priv[u], d)
        BY <1>3, <1>5, <1>10, <3>2
      <4>2. CASE d < 0 /\ -d > priv[u]
        <5>1. priv[u] = 0 /\ d = -1 /\ priv'[u] = 0
          BY <1>4, <2>4, <4>1, <4>2 DEF incCounter
        <5>2. priv' = priv
          BY <1>5, <1>10, <3>2, <4>1, <5>1
        <5> QED  BY <1>13, <2>3, <2>7, <3>2, <5>1, <5>2
      <4>3. CASE ~(d < 0 /\ -d > priv[u])
        <5>1. priv'[u] = priv[u] + d
          BY <4>1, <4>3 DEF incCounter
        <5> QED  BY <1>4, <2>3, <2>4, <2>7, <3>2, <5>1
      <4> QED  BY <4>2, <4>3
    <3> QED  BY <3>1, <3>2
  <2>9. Debt(w, u) \in {-1, 0, 1}
    BY DebtRange
  <2>10. /\ c + (Debt(w, u)' - Debt(w, u)) - p <= e
         /\ -(c + (Debt(w, u)' - Debt(w, u)) - p) <= e
         /\ p + (In(w, Passed(u)') - In(w, Passed(u))) <= e
    BY <2>1, <2>6, <2>7, <2>8, <2>9
  <2> QED  BY <1>6, <1>14, <2>2, <2>5, <2>10, AccountStep
<1> QED  BY <1>11, <1>15 DEF QuotaDrift, Accounted, Capped

\* A crash loses whatever is owed; the checked requests are gone.
LEMMA CrashQuota ==
    ASSUME IInv, QuotaDrift, drift \in Nat, Observe, Crash
    PROVE  QuotaDrift' /\ drift' \in Nat
<1>1. gen' = gen /\ priv' = priv /\ \A x \in Workers : job'[x] = Idle
  BY DEF Crash, store
<1>2. Overwriting = {} /\ Owed' = {}
  BY <1>1 DEF Overwriting, Owed, At, Idle
<1>3. Owed \subseteq Workers /\ Owed \ Owed' = Owed
  BY <1>2 DEF Owed
<1>4. Cardinality(Owed) \in Nat
  BY <1>3, SomeWorkers
<1>5. drift' = drift + Cardinality(Owed)
  <2>1. drift' = drift + Cardinality(Overwriting) + Cardinality(Owed \ Owed')
    BY <1>1 DEF Observe
  <2>2. Cardinality(Overwriting) = 0
    BY <1>2, FS_EmptySet
  <2>3. drift' = drift + 0 + Cardinality(Owed)
    BY <1>3, <2>1, <2>2
  <2> QED  BY <1>4, <2>3
<1>6. ASSUME NEW u \in Users PROVE Accounted(u)' /\ Capped(u)'
  <2> DEFINE P == {x \in Workers : Debt(x, u) = 1}
             M == {x \in Workers : Debt(x, u) = -1}
  <2>1. PrivateBy(u)' = PrivateBy(u) /\ Passed(u)' = {}
    BY <1>1 DEF PrivateBy, Passed, At, Idle
  <2>2. \A x \in Workers : Debt(x, u)' = 0
    BY <1>2 DEF Debt
  <2>3. P' = {} /\ M' = {}
    BY <2>2
  <2>4. Pending(u)' = Cardinality(P') - Cardinality(M') /\ Pending(u) = Cardinality(P) - Cardinality(M)
    BY DEF Pending
  <2>5. P \subseteq Owed /\ M \subseteq Owed
    BY DEF Debt
  <2> HIDE DEF P, M
  <2>6. Pending(u)' = 0
    BY <2>3, <2>4, FS_EmptySet
  <2>7. /\ Cardinality(P) \in Nat /\ Cardinality(P) <= Cardinality(Owed)
        /\ Cardinality(M) \in Nat /\ Cardinality(M) <= Cardinality(Owed)
    <3>1. IsFiniteSet(Owed)
      BY <1>3, SomeWorkers
    <3> QED  BY <2>5, <3>1, FS_Subset, FS_CardinalityType
  <2>8. /\ Cardinality(PrivateBy(u)) \in Nat /\ Cardinality(Passed(u)) \in Nat /\ priv[u] \in Nat
        /\ Cardinality(Workers) \in Nat
    BY PrivateFinite, SomeWorkers DEF Passed, IInv, TypeOK
  <2>9. Accounted(u) /\ Capped(u)
    BY QuotaDriftMeans
  <2>10. Accounted(u)'
    <3>1. /\ priv[u] + 0 - Cardinality(PrivateBy(u)) <= drift + Cardinality(Owed)
          /\ -(priv[u] + 0 - Cardinality(PrivateBy(u))) <= drift + Cardinality(Owed)
      BY <1>4, <2>4, <2>7, <2>8, <2>9 DEF Accounted
    <3> QED  BY <1>1, <1>5, <2>1, <2>6, <3>1 DEF Accounted
  <2>11. Capped(u)'
    <3>1. Cardinality(Passed(u)') = 0
      BY <2>1, FS_EmptySet
    <3>2. MaxPrivate # 0 => Cardinality(PrivateBy(u)) + 0
                              <= MaxPrivate + (Cardinality(Workers) - 1) + (drift + Cardinality(Owed))
      BY <1>4, <2>8, <2>9, MaxPrivateAssumption DEF Capped
    <3> QED  BY <1>5, <2>1, <3>1, <3>2 DEF Capped
  <2> QED  BY <2>10, <2>11
<1> QED  BY <1>4, <1>5, <1>6 DEF QuotaDrift, Accounted, Capped

\* Time passes for the cache only.
LEMMA ExpireQuota ==
    ASSUME QuotaDrift, drift \in Nat, Observe, NEW k \in Subjects \X Gids, Expire(k)
    PROVE  QuotaDrift' /\ drift' \in Nat
<1>1. gen' = gen /\ priv' = priv /\ job' = job
  BY DEF Expire, store
<1>2. Overwriting = {} /\ Owed \ Owed' = {}
  BY <1>1 DEF Overwriting, Owed, At
<1>3. drift' = drift
  <2>1. drift' = drift + Cardinality(Overwriting) + Cardinality(Owed \ Owed')
    BY <1>1 DEF Observe
  <2>2. Cardinality(Overwriting) = 0 /\ Cardinality(Owed \ Owed') = 0
    BY <1>2, FS_EmptySet
  <2> QED  BY <2>1, <2>2
<1> QED  BY <1>1, <1>3
            DEF QuotaDrift, PrivateBy, Pending, Passed, Debt, Owed, Owes, QuotaHolder, Serves, At

-----------------------------------------------------------------------------
\* Three steps write a record.
LEMMA RecordsWritten ==
    ASSUME [Next]_vars
    PROVE  \/ \E w \in Workers : CreatePutGenealogy(w) \/ UpdatePutGenealogy(w) \/ DeleteRecord(w)
           \/ gen' = gen /\ used' = used
<1> DEFINE Writes == \E w \in Workers : CreatePutGenealogy(w) \/ UpdatePutGenealogy(w) \/ DeleteRecord(w)
           Same == gen' = gen /\ used' = used
<1>1. ASSUME NEW w \in Workers, Resolve(w) \/ StoreError(w) PROVE Same
  BY <1>1 DEF Resolve, CacheGet, ReadGenealogy, ReadMembership, CachePut, StoreError, store
<1>2. ASSUME NEW w \in Workers, Handle(w) PROVE Writes \/ Same
  BY <1>2 DEF Handle, CheckQuota, PutOwner, UpdateVisibility, Count, DeleteBegin, DropStore,
     ScanMembers, DeleteMembers, UpsertMembership, RemoveMember, LeaveGenealogy, CheckOwners,
     DeleteMembership, BanUser, UnbanUser, GetGenealogy, ListMembers, Invalidate, store
<1>3. ASSUME NEW w \in Workers, NEW rq \in Requests, Start(w, rq) PROVE Same
  BY <1>3 DEF Start, store
<1>4. ASSUME Crash \/ (\E k \in Subjects \X Gids : Expire(k)) \/ UNCHANGED vars PROVE Same
  BY <1>4 DEF Crash, Expire, vars, store
<1> HIDE DEF Writes, Same
<1>5. Writes \/ Same
  BY <1>1, <1>2, <1>3, <1>4 DEF Next
<1> QED  BY <1>5 DEF Writes, Same

\* Only CreateGenealogy writes under a new id, and it draws it.
LEMMA NextUnusedAbsent ==
    ASSUME IInv, UnusedAbsent, \A w \in Workers : NamesUsed(w), [Next]_vars
    PROVE  UnusedAbsent'
<1>0. gen \in [Gids -> GenRecords \cup {NoGen}]
  BY DEF IInv, TypeOK
<1>1. ASSUME NEW w \in Workers, CreatePutGenealogy(w) PROVE UnusedAbsent'
  BY <1>0, <1>1 DEF CreatePutGenealogy, PutGenealogy, UnusedAbsent
<1>2. ASSUME NEW w \in Workers, UpdatePutGenealogy(w) \/ DeleteRecord(w) PROVE UnusedAbsent'
  <2>1. /\ JobFits(job[w]) /\ job[w].pc \in {"putGen", "delGen"} /\ used' = used
        /\ job[w].pc = "putGen" => job[w].rq.op = "UpdateVisibility"
    BY <1>2 DEF IInv, JobsFit, UpdatePutGenealogy, DeleteRecord, At, Serves
  <2>2. job[w].rq.op # "Create"
    BY <2>1 DEF JobFits, Path
  <2>3. job[w].rq.gid \in used
    BY <2>1, <2>2 DEF NamesUsed, At, Serves
  <2>4. \A g \in Gids : g # job[w].rq.gid => gen'[g] = gen[g]
    BY <1>0, <1>2 DEF UpdatePutGenealogy, DeleteRecord, PutGenealogy
  <2> QED  BY <2>1, <2>3, <2>4 DEF UnusedAbsent
<1> QED  BY <1>1, <1>2, RecordsWritten DEF UnusedAbsent

\* The inductive invariant of the history.
QuotaInv ==
    IInv /\ (\A w \in Workers : NamesUsed(w)) /\ UnusedAbsent /\ drift \in Nat /\ QuotaDrift

\* At the start nothing is owed, counted or private.
LEMMA InitQuota == HInit => QuotaInv
<1> SUFFICES ASSUME HInit PROVE QuotaInv
  OBVIOUS
<1>1. Init /\ drift = 0 /\ IInv
  BY InitIInv DEF HInit
<1>2. (\A w \in Workers : NamesUsed(w)) /\ UnusedAbsent
  BY <1>1 DEF Init, NamesUsed, UnusedAbsent, At, Idle
<1>3. ASSUME NEW u \in Users PROVE Accounted(u) /\ Capped(u)
  <2>1. PrivateBy(u) = {} /\ Passed(u) = {} /\ Owed = {}
    BY <1>1 DEF Init, PrivateBy, Passed, Owed, At, Idle
  <2>2. \A w \in Workers : Debt(w, u) = 0
    BY <2>1 DEF Debt
  <2>3. {w \in Workers : Debt(w, u) = 1} = {} /\ {w \in Workers : Debt(w, u) = -1} = {}
    BY <2>2
  <2>4. Cardinality({}) = 0
    BY FS_EmptySet
  <2>5. Pending(u) = 0 /\ Cardinality(PrivateBy(u)) = 0 /\ Cardinality(Passed(u)) = 0
    BY <2>1, <2>3, <2>4 DEF Pending
  <2>6. priv[u] = 0
    BY <1>1 DEF Init
  <2>7. Accounted(u)
    BY <1>1, <2>5, <2>6 DEF Accounted
  <2>8. Capped(u)
    BY <1>1, <2>5, SomeWorkers, MaxPrivateAssumption DEF Capped
  <2> QED  BY <2>7, <2>8
<1> QED  BY <1>1, <1>2, <1>3, QuotaDriftMeans DEF QuotaInv

\* Every step keeps the account.
LEMMA NextQuota == QuotaInv /\ [HNext]_MCvars => QuotaInv'
<1> SUFFICES ASSUME QuotaInv, [HNext]_MCvars PROVE QuotaInv'
  OBVIOUS
<1>1. /\ IInv /\ UnusedAbsent /\ drift \in Nat /\ QuotaDrift
      /\ \A w \in Workers : NamesUsed(w)
  BY DEF QuotaInv
<1>2. [Next]_vars
  BY DEF HNext, MCvars
<1>3. IInv' /\ UnusedAbsent' /\ \A w \in Workers : NamesUsed(w)'
  BY <1>1, <1>2, NextIInv, NextNamesUsed, NextUnusedAbsent
<1>4. CASE UNCHANGED MCvars
  <2>1. gen' = gen /\ priv' = priv /\ job' = job /\ drift' = drift
    BY <1>4 DEF MCvars, vars, store
  <2>2. QuotaDrift'
    BY <1>1, <2>1 DEF QuotaDrift, PrivateBy, Pending, Passed, Debt, Owed, Owes, QuotaHolder, Serves, At
  <2> QED  BY <1>1, <1>3, <2>1, <2>2 DEF QuotaInv
<1>5. CASE Next /\ Observe
  <2>1. ASSUME NEW w \in Workers, NEW rq \in Requests, Start(w, rq) PROVE QuotaDrift' /\ drift' \in Nat
    BY <1>1, <1>5, <2>1, StartQuota
  <2>2. ASSUME NEW w \in Workers, Resolve(w) \/ StoreError(w) PROVE QuotaDrift' /\ drift' \in Nat
    BY <1>1, <1>5, <2>2, AsideSteps, StoreErrorQuota
  <2>3. ASSUME NEW w \in Workers, Handle(w) PROVE QuotaDrift' /\ drift' \in Nat
    BY <1>1, <1>5, <2>3, AsideSteps, CheckingQuota, CreateQuota, PutOwnerQuota,
       UpdateVisibilityQuota, UpdatePutQuota, CountQuota, DeleteRecordQuota DEF Handle
  <2>4. ASSUME NEW k \in Subjects \X Gids, Expire(k) PROVE QuotaDrift' /\ drift' \in Nat
    BY <1>1, <1>5, <2>4, ExpireQuota
  <2>5. ASSUME Crash PROVE QuotaDrift' /\ drift' \in Nat
    BY <1>1, <1>5, <2>5, CrashQuota
  <2>6. QuotaDrift' /\ drift' \in Nat
    BY <1>5, <2>1, <2>2, <2>3, <2>4, <2>5 DEF Next
  <2> QED  BY <1>3, <2>6 DEF QuotaInv
<1> QED  BY <1>4, <1>5 DEF HNext

\* The private counter accounts for the records with any number of users,
\* genealogies and goroutines, through any interleaving, error and crash:
\* what separates it from the number of private genealogies is what handlers
\* still owe it, the steps that were lost and the writes over changed records;
\* and the cap is exceeded by no more than those and the other requests that
\* passed the check together (CreateGenealogy, UpdateVisibility,
\* DeleteGenealogy, CheckCreatePrivateGenealogy, incCounter).
THEOREM CounterAccounts == HSpec => []QuotaDrift
<1>1. QuotaInv => QuotaDrift
  BY DEF QuotaInv
<1> QED  BY <1>1, InitQuota, NextQuota, PTL DEF HSpec

-----------------------------------------------------------------------------
(* One request at a time and no faults: nothing drifts                       *)

Keeping == {"check", "putGen", "drop", "scan", "delMems", "delGen"}

\* The record a handler writes over is the one it read.
ReadCurrent(w) ==
    job[w].pc \in Keeping /\ job[w].rq.op # "Create" => gen[job[w].rq.gid] = job[w].g

\* Between requests the counter is the number of private genealogies, and the
\* cap holds at every step of every handler.
QuotaExact ==
    \A u \in Users :
        LET private == Cardinality(PrivateBy(u))
        IN  /\ Quiet => priv[u] = private
            /\ MaxPrivate # 0 => private <= MaxPrivate

\* The loop over the members keeps request and record.
LEMMA Forgets ==
    ASSUME IInv, NEW w \in Workers, NEW u, Forgot(w, u)
    PROVE  job'[w].pc \in {"delGen", "delMems"} /\ job'[w].rq = job[w].rq /\ job'[w].g = job[w].g
<1> DEFINE pc == IF job[w].todo = {u} THEN "delGen" ELSE "delMems"
<1>1. job \in [Workers -> Jobs] /\ job[w] \in Jobs /\ pc \in {"delGen", "delMems"}
  BY DEF IInv, TypeOK
<1>2. job' = [job EXCEPT ![w].todo = @ \ {u}, ![w].pc = pc]
  BY DEF Forgot
<1> HIDE DEF pc
<1> QED  BY <1>1, <1>2 DEF Jobs

\* A handler keeps the record from where it reads it to where it writes it.
LEMMA ReadStaysCurrent ==
    ASSUME IInv, NEW w, Workers = {w}, ReadCurrent(w), [Next]_vars
    PROVE  ReadCurrent(w)'
<1>0. job \in [Workers -> Jobs] /\ job[w] \in Jobs
  BY DEF IInv, TypeOK
<1>1. ASSUME NEW rq \in Requests, Start(w, rq) PROVE ReadCurrent(w)'
  <2>1. job'[w].pc = FirstStep(rq) /\ job'[w].rq = rq
    BY <1>0, <1>1, IdleFits DEF Start, Jobs
  <2> QED  BY <2>1 DEF ReadCurrent, Keeping, FirstStep
<1>2. CASE Resolve(w)
  <2>1. job'[w].pc \notin Keeping
    BY <1>0, <1>2 DEF Resolve, CacheGet, ReadGenealogy, ReadMembership, CachePut, Go, Done, Idle,
       Keeping, Jobs
  <2> QED  BY <2>1 DEF ReadCurrent
<1>3. CASE UpdateVisibility(w) \/ DeleteBegin(w)
  <2>1. gen' = gen /\ (job'[w] = Idle \/ (job'[w].rq = job[w].rq /\ job'[w].g = gen[job[w].rq.gid]))
    BY <1>0, <1>3 DEF UpdateVisibility, DeleteBegin, Done, Jobs, store
  <2> QED  BY <2>1 DEF ReadCurrent, Keeping, Idle
<1>4. CASE CheckQuota(w) \/ DropStore(w) \/ ScanMembers(w) \/ DeleteMembers(w) \/ StoreError(w)
  <2>1. gen' = gen
    BY <1>4 DEF CheckQuota, DropStore, ScanMembers, DeleteMembers, StoreError, store
  <2>2. \/ job'[w].pc \notin Keeping
        \/ job[w].pc \in Keeping /\ job'[w].rq = job[w].rq /\ job'[w].g = job[w].g
    <3>1. CASE CheckQuota(w) \/ DropStore(w) \/ ScanMembers(w) \/ DeleteMembers(w)
      <4>1. CASE CheckQuota(w) \/ DropStore(w)
        <5>1. job[w].pc \in Keeping /\ (Done(w) \/ Go(w, "putGen") \/ Go(w, "scan"))
          BY <4>1 DEF CheckQuota, DropStore, At, Keeping
        <5> QED  BY <5>1, JobsMove DEF Idle, Keeping
      <4>2. CASE ScanMembers(w)
        BY <1>0, <4>2 DEF ScanMembers, At, Keeping, Jobs
      <4>3. CASE DeleteMembers(w)
        BY <4>3, Forgets DEF DeleteMembers, At, Keeping
      <4> QED  BY <3>1, <4>1, <4>2, <4>3
    <3>2. CASE StoreError(w)
      <4>1. Done(w) \/ Go(w, "invalidate") \/ (At(w, "delMems") /\ \E u \in job[w].todo : Forgot(w, u))
        BY <3>2 DEF StoreError
      <4> QED  BY <4>1, JobsMove, Forgets DEF At, Idle, Keeping
    <3> QED  BY <1>4, <3>1, <3>2
  <2> QED  BY <2>1, <2>2 DEF ReadCurrent
<1>5. CASE \/ CreatePutGenealogy(w) \/ PutOwner(w) \/ UpdatePutGenealogy(w) \/ Count(w)
           \/ DeleteRecord(w) \/ UpsertMembership(w) \/ RemoveMember(w) \/ LeaveGenealogy(w)
           \/ CheckOwners(w) \/ DeleteMembership(w) \/ BanUser(w) \/ UnbanUser(w)
           \/ GetGenealogy(w) \/ ListMembers(w) \/ Invalidate(w)
  <2>1. CASE CreatePutGenealogy(w)
    BY <1>0, <2>1 DEF CreatePutGenealogy, ReadCurrent, Keeping, Jobs
  <2>2. CASE ~CreatePutGenealogy(w)
    <3>1. Done(w) \/ \E pc \in PCs \ Keeping : Go(w, pc)
      BY <1>5, <2>2 DEF PutOwner, UpdatePutGenealogy, Count, DeleteRecord, UpsertMembership,
         RemoveMember, LeaveGenealogy, CheckOwners, DeleteMembership, BanUser, UnbanUser,
         GetGenealogy, ListMembers, Invalidate, PCs, Keeping
    <3>2. job'[w].pc \notin Keeping
      BY <1>0, <3>1 DEF Go, Done, Idle, Keeping, Jobs
    <3> QED  BY <3>2 DEF ReadCurrent
  <2> QED  BY <2>1, <2>2
<1>6. CASE Crash
  BY <1>6 DEF Crash, ReadCurrent, Keeping, Idle
<1>7. CASE UNCHANGED vars \/ \E k \in Subjects \X Gids : Expire(k)
  <2>1. gen' = gen /\ job' = job
    BY <1>7 DEF vars, Expire, store
  <2> QED  BY <2>1 DEF ReadCurrent
<1> QED  BY <1>1, <1>2, <1>3, <1>4, <1>5, <1>6, <1>7 DEF Next, Handle

\* With nothing lost so far, the counter is never at the floor when a handler
\* gives one back.
LEMMA CounterMoves ==
    ASSUME IInv, QuotaDrift, drift = 0, NEW w, Workers = {w}, Count(w), Owes(w) # 0
    PROVE  priv' # priv
<1> DEFINE h == QuotaHolder(w)
           d == Owes(w)
<1>1. /\ job[w] \in Jobs /\ JobFits(job[w]) /\ At(w, "count") /\ job[w].pc = "count"
  BY DEF IInv, TypeOK, JobsFit, Count, At
<1>2. job[w].rq.op \in {"Create", "UpdateVisibility", "Delete"}
  BY <1>1 DEF JobFits, Path, Resolving, Deleting
<1>3. h \in Users
  BY <1>1, <1>2 DEF JobFits, Valid, QuotaHolder, Serves, Jobs, GenRecords
<1>4. d \in {-1, 1}
  BY DEF Owes, Delta
<1>5. priv' = [priv EXCEPT ![h] = incCounter(priv[h], d)]
  BY DEF Count, Owes, Serves
<1>6. priv \in [Users -> Nat] /\ priv[h] \in Nat /\ Cardinality(PrivateBy(h)) \in Nat
  BY <1>3, PrivateFinite DEF IInv, TypeOK
<1>7. w \in Owed /\ Debt(w, h) = d
  BY <1>1 DEF Owed, Debt, At
<1> HIDE DEF h, d
<1>8. Pending(h) = d
  <2> DEFINE P == {x \in Workers : Debt(x, h) = 1}
             M == {x \in Workers : Debt(x, h) = -1}
  <2>1. P \subseteq {w} /\ M \subseteq {w}
    OBVIOUS
  <2>2. In(w, P) - In(w, M) = d
    BY <1>4, <1>7 DEF In
  <2>3. Pending(h) = Cardinality(P) - Cardinality(M)
    BY DEF Pending
  <2> HIDE DEF P, M
  <2> QED  BY <2>1, <2>2, <2>3, AtMost
<1>9. priv[h] + d - Cardinality(PrivateBy(h)) = 0
  <2>1. Accounted(h)
    BY <1>3, QuotaDriftMeans
  <2> QED  BY <1>4, <1>6, <1>8, <2>1 DEF Accounted
<1>10. priv[h] + d >= 0
  BY <1>4, <1>6, <1>9
<1>11. priv'[h] = priv[h] + d
  BY <1>3, <1>4, <1>5, <1>6, <1>10 DEF incCounter
<1> QED  BY <1>4, <1>6, <1>11

\* A handler that counts owes one.
OwesOne(w) == job[w].pc = "count" => Owes(w) # 0

\* The counter is only reached by a handler that owes it something.
LEMMA CountsWhenOwed ==
    ASSUME IInv, NEW w, Workers = {w}, OwesOne(w), [Next]_vars
    PROVE  OwesOne(w)'
<1>0. job \in [Workers -> Jobs] /\ job[w] \in Jobs
  BY DEF IInv, TypeOK
<1>1. CASE PutOwner(w)
  <2>1. job[w].pc = "putOwner" /\ JobFits(job[w])
    BY <1>1 DEF PutOwner, At, IInv, JobsFit
  <2>2. job[w].rq.op = "Create" /\ job'[w].rq = job[w].rq
    BY <1>0, <1>1, <2>1 DEF PutOwner, Go, Jobs, JobFits, Path, Resolving, Deleting
  <2> QED  BY <2>2 DEF OwesOne, Owes, Serves
<1>2. CASE UpdatePutGenealogy(w)
  <2> DEFINE pc == IF Delta(job[w].g.vis, job[w].rq.vis) # 0 THEN "count" ELSE "invalidate"
  <2>1. Go(w, pc) /\ job[w].rq.op = "UpdateVisibility"
    BY <1>2 DEF UpdatePutGenealogy, Serves
  <2>2. pc = "count" => Delta(job[w].g.vis, job[w].rq.vis) # 0
    OBVIOUS
  <2> HIDE DEF pc
  <2>3. job'[w].pc = pc /\ job'[w].rq = job[w].rq /\ job'[w].g = job[w].g
    BY <2>1, JobsMove
  <2> QED  BY <2>1, <2>2, <2>3 DEF OwesOne, Owes, Serves
<1>3. CASE DeleteRecord(w)
  <2>1. job[w].pc = "delGen" /\ JobFits(job[w])
    BY <1>3 DEF DeleteRecord, At, IInv, JobsFit
  <2>2. job[w].rq.op = "Delete" /\ job'[w].rq = job[w].rq
    BY <1>0, <1>3, <2>1 DEF DeleteRecord, Go, Jobs, JobFits, Path, Resolving, Deleting
  <2> QED  BY <2>2 DEF OwesOne, Owes, Serves
<1>4. CASE UNCHANGED vars \/ \E k \in Subjects \X Gids : Expire(k)
  <2>1. job' = job
    BY <1>4 DEF vars, Expire
  <2> QED  BY <2>1 DEF OwesOne, Owes, Serves
<1>5. CASE \/ Crash \/ Resolve(w) \/ StoreError(w) \/ \E rq \in Requests : Start(w, rq)
           \/ Handle(w) /\ ~(PutOwner(w) \/ UpdatePutGenealogy(w) \/ DeleteRecord(w))
  <2>1. job'[w].pc # "count"
    <3>1. CASE Crash
      BY <3>1 DEF Crash, Idle
    <3>2. ASSUME NEW rq \in Requests, Start(w, rq) PROVE job'[w].pc # "count"
      <4>1. job'[w].pc = FirstStep(rq)
        BY <1>0, <3>2, IdleFits DEF Start, Jobs
      <4> QED  BY <4>1 DEF FirstStep
    <3>3. CASE Resolve(w)
      BY <1>0, <3>3 DEF Resolve, CacheGet, ReadGenealogy, ReadMembership, CachePut, Go, Done, Idle, Jobs
    <3>4. CASE StoreError(w)
      <4>1. Done(w) \/ Go(w, "invalidate") \/ \E u \in job[w].todo : Forgot(w, u)
        BY <3>4 DEF StoreError
      <4> QED  BY <4>1, JobsMove, Forgets DEF Idle
    <3>5. CASE UpdateVisibility(w) \/ DeleteBegin(w) \/ ScanMembers(w) \/ DeleteMembers(w)
               \/ CreatePutGenealogy(w)
      <4>1. CASE UpdateVisibility(w) \/ DeleteBegin(w) \/ ScanMembers(w) \/ CreatePutGenealogy(w)
        BY <1>0, <4>1 DEF UpdateVisibility, DeleteBegin, ScanMembers, CreatePutGenealogy, Done, Idle, Jobs
      <4>2. CASE DeleteMembers(w)
        BY <4>2, Forgets DEF DeleteMembers
      <4> QED  BY <3>5, <4>1, <4>2
    <3>6. CASE \/ CheckQuota(w) \/ Count(w) \/ DropStore(w) \/ UpsertMembership(w)
               \/ RemoveMember(w) \/ LeaveGenealogy(w) \/ CheckOwners(w) \/ DeleteMembership(w)
               \/ BanUser(w) \/ UnbanUser(w) \/ GetGenealogy(w) \/ ListMembers(w) \/ Invalidate(w)
      <4>1. Done(w) \/ \E pc \in PCs \ {"count"} : Go(w, pc)
        BY <3>6 DEF CheckQuota, Count, DropStore, UpsertMembership, RemoveMember, LeaveGenealogy,
           CheckOwners, DeleteMembership, BanUser, UnbanUser, GetGenealogy, ListMembers,
           Invalidate, PCs
      <4> QED  BY <1>0, <4>1 DEF Go, Done, Idle, Jobs
    <3> QED  BY <1>5, <3>1, <3>2, <3>3, <3>4, <3>5, <3>6 DEF Handle
  <2> QED  BY <2>1 DEF OwesOne
<1> QED  BY <1>1, <1>2, <1>3, <1>4, <1>5 DEF Next, Handle

\* Nothing is written over and no step of the counter is lost.
LEMMA NothingDrifts ==
    ASSUME QuotaInv, drift = 0, NEW w, Workers = {w}, Faults = {}, ReadCurrent(w), OwesOne(w),
           [HNext]_MCvars
    PROVE  drift' = 0
<1>0. job \in [Workers -> Jobs] /\ job[w] \in Jobs /\ IInv /\ QuotaDrift /\ JobFits(job[w])
  BY DEF QuotaInv, IInv, TypeOK, JobsFit
<1>1. CASE UNCHANGED MCvars
  BY <1>1 DEF MCvars
<1>2. CASE Next /\ Observe
  <2>1. Overwriting = {}
    <3>1. w \notin Overwriting
      <4>1. At(w, "delGen") => job[w].rq.op # "Create"
        BY <1>0 DEF JobFits, Path, At
      <4> QED  BY <4>1 DEF Overwriting, ReadCurrent, Keeping, At, Serves
    <3> QED  BY <3>1 DEF Overwriting
  <2>2. priv' # priv \/ Owed \ Owed' = {}
    <3>1. SUFFICES ASSUME w \in Owed, priv' = priv PROVE w \in Owed'
      BY DEF Owed
    <3>2. job[w].pc \in {"count", "putOwner"} /\ (job[w].pc = "putOwner" => job[w].rq.vis = "Private")
      BY <3>1 DEF Owed, At
    <3>3. ~Crash /\ ~StoreError(w)
      BY DEF Crash, StoreError
    <3>4. ~Resolve(w) /\ \A rq \in Requests : ~Start(w, rq)
      BY <3>2 DEF Resolve, CacheGet, ReadGenealogy, ReadMembership, CachePut, Start, At
    <3>5. Handle(w) => Count(w) \/ PutOwner(w)
      BY <3>2 DEF Handle, CheckQuota, CreatePutGenealogy, UpdateVisibility, UpdatePutGenealogy,
         DeleteBegin, DropStore, ScanMembers, DeleteMembers, DeleteRecord, UpsertMembership,
         RemoveMember, LeaveGenealogy, CheckOwners, DeleteMembership, BanUser, UnbanUser,
         GetGenealogy, ListMembers, Invalidate, At
    <3>6. ~Count(w)
      <4>1. ASSUME Count(w) PROVE FALSE
        <5>1. Owes(w) # 0
          BY <4>1 DEF Count, OwesOne, At
        <5> QED  BY <1>0, <3>1, <4>1, <5>1, CounterMoves
      <4> QED  BY <4>1
    <3>7. CASE PutOwner(w)
      <4>1. job[w].pc = "putOwner" /\ Go(w, "count")
        BY <3>2, <3>7 DEF PutOwner, At
      <4>2. job'[w].pc = "count"
        BY <1>0, <4>1, JobsMove
      <4> QED  BY <4>2 DEF Owed, At
    <3>8. ASSUME NEW k \in Subjects \X Gids, Expire(k) PROVE w \in Owed'
      BY <3>1, <3>8 DEF Expire, Owed, At
    <3> QED  BY <1>2, <3>3, <3>4, <3>5, <3>6, <3>7, <3>8 DEF Next
  <2>3. Cardinality(Overwriting) = 0 /\ (priv' # priv \/ Cardinality(Owed \ Owed') = 0)
    BY <2>1, <2>2, FS_EmptySet
  <2> QED  BY <1>2, <2>3 DEF Observe
<1> QED  BY <1>1, <1>2 DEF HNext

\* One request at a time, and no faults: the counter is exact between requests
\* and no user ever has more private genealogies than the cap
\* (CreateGenealogy, UpdateVisibility, DeleteGenealogy and the quotas package).
THEOREM SerialQuotaIsExact ==
    ASSUME NEW w, Workers = {w}, Faults = {}
    PROVE  HSpec => []QuotaExact
<1> DEFINE SInv == QuotaInv /\ drift = 0 /\ ReadCurrent(w) /\ OwesOne(w)
<1>1. HInit => SInv
  BY InitQuota DEF HInit, Init, ReadCurrent, OwesOne, Keeping, Idle
<1>2. SInv /\ [HNext]_MCvars => SInv'
  <2> SUFFICES ASSUME SInv, [HNext]_MCvars PROVE SInv'
    OBVIOUS
  <2>1. [Next]_vars /\ IInv
    BY DEF HNext, MCvars, QuotaInv
  <2>2. QuotaInv' /\ drift' = 0
    BY NextQuota, NothingDrifts
  <2>3. ReadCurrent(w)' /\ OwesOne(w)'
    BY <2>1, ReadStaysCurrent, CountsWhenOwed
  <2> QED  BY <2>2, <2>3
<1>3. SInv => QuotaExact
  <2> SUFFICES ASSUME SInv, NEW u \in Users
               PROVE  /\ Quiet => priv[u] = Cardinality(PrivateBy(u))
                      /\ MaxPrivate # 0 => Cardinality(PrivateBy(u)) <= MaxPrivate
    BY DEF QuotaExact
  <2>1. Accounted(u) /\ Capped(u) /\ drift = 0 /\ IInv
    BY QuotaDriftMeans DEF QuotaInv
  <2>2. /\ Cardinality(PrivateBy(u)) \in Nat /\ Pending(u) \in Int /\ priv[u] \in Nat
        /\ Cardinality(Passed(u)) \in Nat
    BY <2>1, PrivateFinite, PendingType, SomeWorkers DEF Passed, IInv, TypeOK
  <2>3. Cardinality(Workers) = 1
    BY FS_Singleton
  <2>4. ASSUME Quiet PROVE priv[u] = Cardinality(PrivateBy(u))
    <3>1. \A x \in Workers : Debt(x, u) = 0
      BY <2>4 DEF Quiet, Debt, Owed, At
    <3>2. {x \in Workers : Debt(x, u) = 1} = {} /\ {x \in Workers : Debt(x, u) = -1} = {}
      BY <3>1
    <3>3. Pending(u) = 0
      BY <3>2, FS_EmptySet DEF Pending
    <3> QED  BY <2>1, <2>2, <3>3 DEF Accounted
  <2>5. MaxPrivate # 0 => Cardinality(PrivateBy(u)) <= MaxPrivate
    BY <2>1, <2>2, <2>3, MaxPrivateAssumption DEF Capped
  <2> QED  BY <2>4, <2>5
<1> HIDE DEF SInv
<1> QED  BY <1>1, <1>2, <1>3, PTL DEF HSpec

\* One request at a time, whatever fails: UpdateVisibility finds the record it
\* read, so it brings no deleted genealogy back.
THEOREM DeletionIsFinal ==
    ASSUME NEW w, Workers = {w}
    PROVE  Spec => DeletedStaysDeleted
<1>1. Init => ReadCurrent(w)
  BY DEF Init, ReadCurrent, Keeping, Idle
<1>2. IInv /\ ReadCurrent(w) /\ [Next]_vars => ReadCurrent(w)'
  BY ReadStaysCurrent
<1>3. ASSUME IInv, ReadCurrent(w), [Next]_vars
      PROVE  [\A g \in Gids : g \in used /\ gen[g] = NoGen => gen'[g] = NoGen]_vars
  <2>0. gen \in [Gids -> GenRecords \cup {NoGen}]
    BY <1>3 DEF IInv, TypeOK
  <2>1. CASE CreatePutGenealogy(w)
    BY <2>0, <2>1 DEF CreatePutGenealogy, PutGenealogy
  <2>2. CASE DeleteRecord(w)
    BY <2>0, <2>2 DEF DeleteRecord
  <2>3. CASE UpdatePutGenealogy(w)
    <3>1. /\ JobFits(job[w]) /\ job[w].pc = "putGen" /\ job[w].rq.op = "UpdateVisibility"
      BY <1>3, <2>3 DEF IInv, JobsFit, UpdatePutGenealogy, At, Serves
    <3>2. gen[job[w].rq.gid] # NoGen
      BY <1>3, <3>1 DEF JobFits, ReadCurrent, Keeping
    <3>3. \A g \in Gids : g # job[w].rq.gid => gen'[g] = gen[g]
      BY <2>0, <2>3 DEF UpdatePutGenealogy, PutGenealogy
    <3> QED  BY <3>2, <3>3
  <2>4. \/ CreatePutGenealogy(w) \/ UpdatePutGenealogy(w) \/ DeleteRecord(w) \/ gen' = gen
    BY <1>3, RecordsWritten
  <2> QED  BY <2>1, <2>2, <2>3, <2>4
<1> QED  BY <1>1, <1>2, <1>3, Inductive, PTL DEF Spec, DeletedStaysDeleted
=============================================================================
