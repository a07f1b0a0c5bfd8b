-------------------------- MODULE ProposalsProofs --------------------------
(***************************************************************************)
(* Proofs about Proposals, with the history variables of MCProposals, for  *)
(* any users, workers, proposals and cap: typing, the counter accounts for *)
(* every person, the cap is exceeded by the Accepts in flight at most, and *)
(* only authorized requests change a proposal, and the filters of a        *)
(* listing split the proposals.                                            *)
(***************************************************************************)
EXTENDS MCProposals, FiniteSetTheorems, TLAPS

Single == Ops \ {"Create", "BulkReject"}

\* What a handler carries where it is, given the proposals st and their kinds k:
\* an existing proposal, and after Accept's first transaction that one's kind.
JobFits(j, st, k) ==
    IF j.pc = "idle" THEN j = Idle
    ELSE /\ j.sub \in Users
         /\ j.op \in Single => j.pid \in Pids /\ st[j.pid] # "none"
         /\ j.pc = "ban" => requiresProposalSubmission(j.op)
         /\ j.pc \in {"view", "check", "inc"} => j.op = "Accept"
         /\ j.pc = "check" => j.kind = "person"
         /\ j.pc \in {"check", "apply"} /\ j.op = "Accept" => j.kind = k[j.pid]

JobsFit == \A w \in Workers : JobFits(job[w], state, kind)

\* Beyond the gate the subject had the role, and no ban where it matters.
JobSeen(j, facts) ==
    /\ j.pc \notin {"idle", "resolve"} => "role" \in facts
    /\ j.pc \in {"store", "apply"} /\ requiresProposalSubmission(j.op) => "clear" \in facts

JobsSeen ==
    /\ seen \in [Workers -> SUBSET {"role", "clear"}]
    /\ \A w \in Workers : JobSeen(job[w], seen[w])

\* The counter and the Accepts between their check and their increment.
Capped ==
    MaxPersons # 0 =>
        count + Cardinality(Counting) + Cardinality(Applying) <= MaxPersons + Cardinality(Workers) - 1

\* The inductive invariant.
Fits == TypeOK /\ JobsFit
IInv == Fits /\ lost \in Nat /\ JobsSeen /\ CountExact /\ Capped

-----------------------------------------------------------------------------
(* What a step does to the jobs and the proposals *)

\* The table of actions and kinds has a create-Person row and others.
LEMMA KindsHave == "other" \in Kinds
<1>1. Unspecified \in ProposalAction /\ Unspecified \in EntityKind
  BY DEF ProposalAction, EntityKind
<1>2. actionFromProto(Unspecified) = Unspecified
  BY DEF actionFromProto, Mapped, actionRows, Unspecified
<1>3. ~createsPerson(actionFromProto(Unspecified), entityKindFromProto(Unspecified))
  BY <1>2 DEF createsPerson, Unspecified
<1> QED BY <1>1, <1>3 DEF Kinds

\* The idle job fits.
LEMMA IdleFits == Idle \in Jobs /\ \A st, k : JobFits(Idle, st, k)
BY KindsHave DEF Idle, Jobs, PCs, Ops, JobFits

\* Nothing happened yet.
LEMMA InitFits == Init => Fits
BY KindsHave, IdleFits DEF Init, Fits, TypeOK, JobsFit, States, Roles

\* Proposals exist for good and keep their kind.
Lasting == \A p \in Pids : state[p] # "none" => state'[p] # "none" /\ kind'[p] = kind[p]

\* A step of worker w that leaves him with a job that fits.
StepOf(w) ==
    /\ job' \in [Workers -> Jobs]
    /\ \A x \in Workers : x # w => job'[x] = job[x]
    /\ JobFits(job'[w], state', kind')

\* A job keeps fitting while proposals last.
LEMMA FitsLasting ==
    ASSUME NEW st, NEW st2, NEW k, NEW k2, NEW j \in Jobs, JobFits(j, st, k),
           \A p \in Pids : st[p] # "none" => st2[p] # "none" /\ k2[p] = k[p]
    PROVE  JobFits(j, st2, k2)
BY DEF JobFits, Single, Ops

\* So a step of one worker leaves all jobs fitting.
LEMMA StepFits ==
    ASSUME Fits, NEW w \in Workers, StepOf(w), Lasting
    PROVE  JobsFit'
<1> SUFFICES ASSUME NEW x \in Workers PROVE JobFits(job'[x], state', kind')
  BY DEF JobsFit
<1>1. CASE x = w
  BY <1>1 DEF StepOf
<1>2. CASE x # w
  <2>1. job'[x] = job[x] /\ job[x] \in Jobs /\ JobFits(job[x], state, kind)
    BY <1>2 DEF StepOf, Fits, TypeOK, JobsFit
  <2> QED BY <2>1, FitsLasting DEF Lasting
<1> QED BY <1>1, <1>2

\* A step that ends the request, or moves it on with what it carries.
LEMMA DoneIs ==
    ASSUME Fits, NEW w \in Workers, Done(w)
    PROVE  StepOf(w) /\ job'[w] = Idle /\ job'[w].pc = "idle"
<1>1. job'[w] = Idle /\ job' \in [Workers -> Jobs]
  BY IdleFits DEF Done, Fits, TypeOK
<1> QED BY <1>1, IdleFits DEF Done, StepOf, Fits, TypeOK, Idle

\* The rest of a job that moves on stays.
LEMMA GoIs ==
    ASSUME Fits, NEW w \in Workers, NEW pc \in PCs, Go(w, pc)
    PROVE  /\ job' \in [Workers -> Jobs]
           /\ \A x \in Workers : x # w => job'[x] = job[x]
           /\ job'[w].pc = pc /\ job'[w].op = job[w].op /\ job'[w].sub = job[w].sub
           /\ job'[w].pid = job[w].pid /\ job'[w].kind = job[w].kind /\ job'[w].todo = job[w].todo
BY DEF Go, Fits, TypeOK, Jobs

\* One id of BulkReject's list less.
LEMMA NextIdIs ==
    ASSUME Fits, NEW w \in Workers, job[w].pc = "apply", job[w].op = "BulkReject",
           NEW p \in job[w].todo, NextId(w, p)
    PROVE  /\ StepOf(w)
           /\ \/ job'[w] = Idle /\ job'[w].pc = "idle"
              \/ /\ job'[w].pc = "apply" /\ job'[w].op = "BulkReject" /\ job'[w].sub = job[w].sub
                 /\ job'[w].todo = job[w].todo \ {p}
<1>0. job \in [Workers -> Jobs] /\ job[w] \in Jobs /\ JobFits(job[w], state, kind)
  BY DEF Fits, TypeOK, JobsFit
<1>1. CASE job[w].todo = {p}
  BY <1>1, DoneIs DEF NextId
<1>2. CASE job[w].todo # {p}
  <2>1. /\ job' \in [Workers -> Jobs] /\ \A x \in Workers : x # w => job'[x] = job[x]
        /\ job'[w].pc = "apply" /\ job'[w].op = "BulkReject" /\ job'[w].sub = job[w].sub
        /\ job'[w].todo = job[w].todo \ {p}
    BY <1>0, <1>2 DEF NextId, Jobs
  <2>2. JobFits(job'[w], state', kind')
    BY <1>0, <2>1 DEF JobFits, Single
  <2> QED BY <2>1, <2>2 DEF StepOf
<1> QED BY <1>1, <1>2

\* A request that starts: it names an existing proposal, draws one, or lists some.
LEMMA StartIs ==
    ASSUME Fits, NEW w \in Workers, NEW u \in Users,
           \/ \E op \in Ops, p \in Pids : StartOne(w, op, u, p)
           \/ \E k \in Kinds : StartCreate(w, u, k)
           \/ \E ps \in SUBSET Pids : ps # {} /\ StartBulkReject(w, u, ps)
    PROVE  StepOf(w) /\ job[w].pc = "idle" /\ job'[w].pc = "resolve" /\ UNCHANGED <<data, env>>
<1>0. job \in [Workers -> Jobs] /\ Idle \in Jobs
  BY IdleFits DEF Fits, TypeOK
<1>1. ASSUME NEW op \in Ops, NEW p \in Pids, StartOne(w, op, u, p)
      PROVE  StepOf(w) /\ job[w].pc = "idle" /\ job'[w].pc = "resolve" /\ UNCHANGED <<data, env>>
  <2> DEFINE j == [Idle EXCEPT !.pc = "resolve", !.op = op, !.sub = u, !.pid = p]
  <2>1. j \in Jobs /\ j.pc = "resolve" /\ j.op = op /\ j.sub = u /\ j.pid = p
    BY <1>0 DEF Jobs, PCs
  <2>2. job' = [job EXCEPT ![w] = j] /\ UNCHANGED <<data, env>> /\ job[w].pc = "idle" /\ state[p] # "none"
    BY <1>1 DEF StartOne, At
  <2> HIDE DEF j
  <2>3. JobFits(j, state', kind')
    BY <2>1, <2>2 DEF JobFits, data
  <2> QED BY <1>0, <2>1, <2>2, <2>3 DEF StepOf
<1>2. ASSUME NEW k \in Kinds, StartCreate(w, u, k)
      PROVE  StepOf(w) /\ job[w].pc = "idle" /\ job'[w].pc = "resolve" /\ UNCHANGED <<data, env>>
  <2> DEFINE j == [Idle EXCEPT !.pc = "resolve", !.sub = u, !.kind = k]
  <2>1. j \in Jobs /\ j.pc = "resolve" /\ j.op = Idle.op /\ j.sub = u
    BY <1>0 DEF Jobs, PCs
  <2>2. job' = [job EXCEPT ![w] = j] /\ UNCHANGED <<data, env>> /\ job[w].pc = "idle"
    BY <1>2 DEF StartCreate, At
  <2>3. Idle.op = "Create"
    BY DEF Idle
  <2> HIDE DEF j
  <2>4. JobFits(j, state', kind')
    BY <2>1, <2>3 DEF JobFits, Single
  <2> QED BY <1>0, <2>1, <2>2, <2>4 DEF StepOf
<1>3. ASSUME NEW ps \in SUBSET Pids, StartBulkReject(w, u, ps)
      PROVE  StepOf(w) /\ job[w].pc = "idle" /\ job'[w].pc = "resolve" /\ UNCHANGED <<data, env>>
  <2> DEFINE j == [Idle EXCEPT !.pc = "resolve", !.op = "BulkReject", !.sub = u, !.todo = ps]
  <2>1. j \in Jobs /\ j.pc = "resolve" /\ j.op = "BulkReject" /\ j.sub = u
    BY <1>0 DEF Jobs, PCs, Ops
  <2>2. job' = [job EXCEPT ![w] = j] /\ UNCHANGED <<data, env>> /\ job[w].pc = "idle"
    BY <1>3 DEF StartBulkReject, At
  <2> HIDE DEF j
  <2>3. JobFits(j, state', kind')
    BY <2>1 DEF JobFits, Single
  <2> QED BY <1>0, <2>1, <2>2, <2>3 DEF StepOf
<1> QED BY <1>1, <1>2, <1>3

\* The role check lets through who has the role.
LEMMA ResolveIs ==
    ASSUME Fits, NEW w \in Workers, ResolveRole(w)
    PROVE  /\ job[w].pc = "resolve"
           /\ \/ Done(w)
              \/ /\ roles[job[w].sub] >= minRole(job[w].op)
                 /\ Go(w, IF requiresProposalSubmission(job[w].op) THEN "ban" ELSE "store")
<1>1. job[w].pc = "resolve" /\ job[w].sub \in Users
  BY DEF ResolveRole, At, JobFits, Fits, JobsFit
<1>2. roles[job[w].sub] \in Int /\ minRole(job[w].op) \in Int
  BY <1>1 DEF Fits, TypeOK, Roles, None, Contributor, Curator, minRole
<1>3. roles[job[w].sub] < minRole(job[w].op) \/ roles[job[w].sub] >= minRole(job[w].op)
  BY <1>2
<1> QED BY <1>1, <1>3 DEF ResolveRole

\* The gate, and Accept up to governance: the request goes on or ends, the
\* proposals stay.
LEMMA GateIs ==
    ASSUME Fits, NEW w \in Workers,
           ResolveRole(w) \/ CheckBan(w) \/ GetStore(w) \/ AcceptView(w) \/ AcceptCheck(w)
    PROVE  StepOf(w) /\ UNCHANGED <<data, env>>
<1>0. job \in [Workers -> Jobs] /\ job[w] \in Jobs /\ JobFits(job[w], state, kind)
  BY DEF Fits, TypeOK, JobsFit
<1>1. UNCHANGED <<data, env>> /\ UNCHANGED <<state, kind>>
  BY DEF ResolveRole, CheckBan, GetStore, AcceptView, AcceptCheck, data
<1>2. CASE Done(w)
  BY <1>1, <1>2, DoneIs
<1>3. CASE ResolveRole(w) /\ ~Done(w)
  <2>1. /\ job[w].pc = "resolve"
        /\ Go(w, IF requiresProposalSubmission(job[w].op) THEN "ban" ELSE "store")
    BY <1>3, ResolveIs
  <2> QED BY <1>0, <1>1, <2>1, GoIs DEF StepOf, JobFits, PCs, Single
<1>4. CASE CheckBan(w) /\ ~Done(w)
  <2>1. job[w].pc = "ban" /\ Go(w, "store")
    BY <1>4 DEF CheckBan, At
  <2> QED BY <1>0, <1>1, <2>1, GoIs DEF StepOf, JobFits, PCs, Single
<1>5. CASE GetStore(w)
  <2>1. job[w].pc = "store" /\ Go(w, IF job[w].op = "Accept" THEN "view" ELSE "apply")
    BY <1>5 DEF GetStore, At
  <2> QED BY <1>0, <1>1, <2>1, GoIs DEF StepOf, JobFits, PCs, Single
<1>6. CASE AcceptView(w)
  <2> DEFINE k == kind[job[w].pid]
  <2>1. job[w].pc = "view" /\ job[w].op = "Accept" /\ job[w].pid \in Pids /\ k \in Kinds
    BY <1>0, <1>6 DEF AcceptView, At, JobFits, Single, Ops, Fits, TypeOK
  <2>2. job' = [job EXCEPT ![w].kind = k, ![w].pc = IF k = "person" THEN "check" ELSE "apply"]
    BY <1>6 DEF AcceptView
  <2> HIDE DEF k
  <2>3. /\ job' \in [Workers -> Jobs] /\ \A x \in Workers : x # w => job'[x] = job[x]
        /\ job'[w].pc = (IF k = "person" THEN "check" ELSE "apply") /\ job'[w].kind = k
        /\ job'[w].op = job[w].op /\ job'[w].sub = job[w].sub /\ job'[w].pid = job[w].pid
    BY <1>0, <2>1, <2>2 DEF Jobs, PCs
  <2>4. JobFits(job'[w], state', kind')
    BY <1>0, <1>1, <2>1, <2>3 DEF JobFits, k
  <2> QED BY <1>1, <2>3, <2>4 DEF StepOf
<1>7. CASE AcceptCheck(w) /\ ~Done(w)
  <2>1. job[w].pc = "check" /\ Go(w, "apply")
    BY <1>7 DEF AcceptCheck, At
  <2> QED BY <1>0, <1>1, <2>1, GoIs DEF StepOf, JobFits, PCs, Single
<1> QED BY <1>2, <1>3, <1>4, <1>5, <1>6, <1>7

\* Sources(op) names no state that is final, nor "none"; Target(op) neither.
LEMMA Transitions ==
    ASSUME NEW op \in Ops \ {"Create"}
    PROVE  /\ "none" \notin Sources(op) /\ "Accepted" \notin Sources(op)
           /\ Target(op) \in States \ {"none"} /\ (op # "Accept" => Target(op) # "Accepted")
BY DEF Ops, Sources, Target, States

\* The handlers' transactions on the proposals.
LEMMA ApplyIs ==
    ASSUME Fits, NEW w \in Workers,
           CreateProposal(w) \/ Transition(w) \/ AcceptApply(w) \/ BulkReject(w)
    PROVE  StepOf(w) /\ Lasting /\ state' \in [Pids -> States] /\ kind' \in [Pids -> Kinds]
<1>0. /\ job \in [Workers -> Jobs] /\ job[w] \in Jobs /\ JobFits(job[w], state, kind)
      /\ state \in [Pids -> States] /\ kind \in [Pids -> Kinds]
  BY DEF Fits, TypeOK, JobsFit
<1>1. CASE CreateProposal(w)
  <2>1. PICK p \in Pids : /\ state[p] = "none" /\ state' = [state EXCEPT ![p] = "Draft"]
                          /\ kind' = [kind EXCEPT ![p] = job[w].kind]
    BY <1>1 DEF CreateProposal
  <2>2. Lasting /\ state' \in [Pids -> States] /\ kind' \in [Pids -> Kinds]
    BY <1>0, <2>1 DEF Lasting, States, Jobs
  <2> QED BY <1>1, <2>2, DoneIs DEF CreateProposal
<1>2. CASE Transition(w)
  <2>1. /\ job[w].op \in Ops \ {"Create"}
        /\ state' = IF state[job[w].pid] \in Sources(job[w].op)
                    THEN [state EXCEPT ![job[w].pid] = Target(job[w].op)] ELSE state
        /\ kind' = kind /\ Done(w)
    BY <1>2 DEF Transition, Ops
  <2>2. Lasting /\ state' \in [Pids -> States] /\ kind' \in [Pids -> Kinds]
    BY <1>0, <2>1, Transitions DEF Lasting
  <2> QED BY <2>1, <2>2, DoneIs
<1>3. CASE AcceptApply(w)
  <2>1. /\ job[w].pc = "apply" /\ job[w].op = "Accept" /\ kind' = kind
        /\ state' = IF state[job[w].pid] \in Sources("Accept")
                    THEN [state EXCEPT ![job[w].pid] = "Accepted"] ELSE state
        /\ Done(w) \/ Go(w, "inc")
    BY <1>3 DEF AcceptApply, At
  <2>2. Lasting /\ state' \in [Pids -> States] /\ kind' \in [Pids -> Kinds]
    BY <1>0, <2>1 DEF Lasting, States
  <2>3. CASE Go(w, "inc")
    <3>1. /\ job'[w].pc = "inc" /\ job'[w].op = "Accept" /\ job'[w].sub = job[w].sub
          /\ job'[w].pid = job[w].pid /\ job' \in [Workers -> Jobs]
          /\ \A x \in Workers : x # w => job'[x] = job[x]
      BY <2>1, <2>3, GoIs DEF PCs
    <3>2. job[w].sub \in Users /\ job[w].pid \in Pids /\ state[job[w].pid] # "none"
      BY <1>0, <2>1 DEF JobFits, Single, Ops
    <3>3. JobFits(job'[w], state', kind')
      BY <2>2, <3>1, <3>2 DEF JobFits, Lasting
    <3> QED BY <2>2, <3>1, <3>3 DEF StepOf
  <2> QED BY <2>1, <2>2, <2>3, DoneIs
<1>4. CASE BulkReject(w)
  <2>0. job[w].pc = "apply" /\ job[w].op = "BulkReject" /\ kind' = kind
    BY <1>4 DEF BulkReject, At
  <2>1. PICK p \in job[w].todo :
            /\ state' = IF state[p] \in Sources("BulkReject")
                        THEN [state EXCEPT ![p] = "Rejected"] ELSE state
            /\ NextId(w, p)
    BY <1>4 DEF BulkReject
  <2>2. Lasting /\ state' \in [Pids -> States] /\ kind' \in [Pids -> Kinds]
    BY <1>0, <2>0, <2>1 DEF Lasting, States
  <2> QED BY <2>0, <2>1, <2>2, NextIdIs
<1> QED BY <1>1, <1>2, <1>3, <1>4

\* A failed operation ends the request, or costs BulkReject one id.
LEMMA ErrorIs ==
    ASSUME Fits, NEW w \in Workers, StoreError(w)
    PROVE  /\ StepOf(w) /\ UNCHANGED <<data, env>>
           /\ \/ job'[w] = Idle
              \/ /\ job[w].pc = "apply" /\ job'[w].pc = "apply"
                 /\ job[w].op = "BulkReject" /\ job'[w].op = "BulkReject"
BY DoneIs, NextIdIs DEF StoreError, At

\* The counter's increment ends the request.
LEMMA IncIs ==
    ASSUME Fits, NEW w \in Workers, AcceptInc(w)
    PROVE  /\ StepOf(w) /\ job[w].pc = "inc" /\ job'[w] = Idle /\ job'[w].pc = "idle"
           /\ count' = count + 1 /\ UNCHANGED <<state, kind, persons, env>>
BY DoneIs DEF AcceptInc, At

\* Every step leaves handlers with what they need.
LEMMA NextFits ==
    ASSUME Fits, [Next]_vars
    PROVE  Fits'
<1>0. /\ job \in [Workers -> Jobs] /\ state \in [Pids -> States] /\ kind \in [Pids -> Kinds]
      /\ persons \in Nat /\ count \in Nat /\ roles \in [Users -> Roles] /\ banned \subseteq Users
  BY DEF Fits, TypeOK
<1>1. ASSUME NEW w \in Workers, StepOf(w), UNCHANGED <<data, env>> PROVE Fits'
  <2>1. Lasting
    BY <1>1 DEF Lasting, data
  <2>2. JobsFit'
    BY <1>1, <2>1, StepFits
  <2>3. TypeOK'
    BY <1>0, <1>1 DEF TypeOK, StepOf, data, env
  <2> QED BY <2>2, <2>3 DEF Fits
<1>2. ASSUME NEW w \in Workers, NEW u \in Users,
             \/ \E op \in Ops, p \in Pids : StartOne(w, op, u, p)
             \/ \E k \in Kinds : StartCreate(w, u, k)
             \/ \E ps \in SUBSET Pids : ps # {} /\ StartBulkReject(w, u, ps)
      PROVE  Fits'
  BY <1>1, <1>2, StartIs
<1>3. ASSUME NEW w \in Workers, Handle(w) PROVE Fits'
  <2>1. CASE ResolveRole(w) \/ CheckBan(w) \/ GetStore(w) \/ AcceptView(w) \/ AcceptCheck(w)
    BY <1>1, <2>1, GateIs
  <2>2. CASE CreateProposal(w) \/ Transition(w) \/ AcceptApply(w) \/ BulkReject(w)
    <3>1. StepOf(w) /\ Lasting /\ state' \in [Pids -> States] /\ kind' \in [Pids -> Kinds]
      BY <2>2, ApplyIs
    <3>2. persons' \in Nat /\ UNCHANGED <<count, env>>
      BY <1>0, <2>2 DEF CreateProposal, Transition, AcceptApply, BulkReject
    <3>3. TypeOK'
      BY <1>0, <3>1, <3>2 DEF TypeOK, StepOf, env
    <3> QED BY <3>1, <3>3, StepFits DEF Fits
  <2>3. CASE AcceptInc(w)
    <3>1. StepOf(w) /\ count' = count + 1 /\ UNCHANGED <<state, kind, persons, env>>
      BY <2>3, IncIs
    <3>2. Lasting
      BY <3>1 DEF Lasting
    <3>3. TypeOK'
      BY <1>0, <3>1 DEF TypeOK, StepOf, env
    <3> QED BY <3>1, <3>2, <3>3, StepFits DEF Fits
  <2> QED BY <1>3, <2>1, <2>2, <2>3 DEF Handle
<1>4. ASSUME NEW w \in Workers, StoreError(w) PROVE Fits'
  BY <1>1, <1>4, ErrorIs
<1>5. ASSUME NEW u \in Users, NEW r \in Roles, SetRole(u, r) PROVE Fits'
  BY <1>0, <1>5 DEF SetRole, data, Fits, TypeOK, JobsFit
<1>6. ASSUME NEW u \in Users, NEW b \in BOOLEAN, SetBan(u, b) PROVE Fits'
  BY <1>0, <1>6 DEF SetBan, data, Fits, TypeOK, JobsFit
<1>7. CASE Crash
  BY <1>0, <1>7, IdleFits DEF Crash, data, env, Fits, TypeOK, JobsFit
<1>8. CASE UNCHANGED vars
  BY <1>8 DEF vars, data, env, Fits, TypeOK, JobsFit
<1> QED BY <1>2, <1>3, <1>4, <1>5, <1>6, <1>7, <1>8 DEF Next

-----------------------------------------------------------------------------
(* Counting *)

\* The workers between check and increment are finitely many.
LEMMA Finite ==
    /\ IsFiniteSet(Counting) /\ IsFiniteSet(Applying) /\ IsFiniteSet(AcceptedPersons)
    /\ IsFiniteSet(Counting)' /\ IsFiniteSet(Applying)' /\ IsFiniteSet(AcceptedPersons)'
    /\ Cardinality(Counting) \in Nat /\ Cardinality(Applying) \in Nat
    /\ Cardinality(Counting)' \in Nat /\ Cardinality(Applying)' \in Nat
    /\ Cardinality(Workers) \in Nat
<1>1. Counting \subseteq Workers /\ Applying \subseteq Workers /\ AcceptedPersons \subseteq Pids
  BY DEF Counting, Applying, AcceptedPersons
<1>2. Counting' \subseteq Workers /\ Applying' \subseteq Workers /\ AcceptedPersons' \subseteq Pids
  BY DEF Counting, Applying, AcceptedPersons
<1>3. /\ IsFiniteSet(Counting) /\ IsFiniteSet(Applying) /\ IsFiniteSet(AcceptedPersons)
  BY <1>1, FiniteAssumption, FS_Subset
<1>4. /\ IsFiniteSet(Counting') /\ IsFiniteSet(Applying') /\ IsFiniteSet(AcceptedPersons')
  BY <1>2, FiniteAssumption, FS_Subset
<1> QED BY <1>3, <1>4, FiniteAssumption, FS_CardinalityType

\* A step that counts nothing and accepts no person: what leaves Counting is lost.
LEMMA Uncounted ==
    ASSUME IInv, Observe, UNCHANGED <<persons, count>>, AcceptedPersons' = AcceptedPersons,
           Counting' \subseteq Counting
    PROVE  CountExact' /\ lost' \in Nat
<1> DEFINE C == Counting
           D == Counting'
<1>0. persons \in Nat /\ count \in Nat /\ lost \in Nat
  BY DEF IInv, Fits, TypeOK
<1>1. lost' = lost + Cardinality(C \ D)
  BY DEF Observe
<1>2. D \subseteq C /\ IsFiniteSet(C) /\ IsFiniteSet(D)
  BY Finite
<1>3. persons = Cardinality(AcceptedPersons) /\ persons = count + Cardinality(C) + lost
  BY DEF IInv, CountExact
<1>4. CountExact' <=> persons' = Cardinality(AcceptedPersons') /\ persons' = count' + Cardinality(D) + lost'
  BY DEF CountExact
<1> HIDE DEF C, D
<1>5. C \cap D = D
  BY <1>2
<1>6. Cardinality(C \ D) = Cardinality(C) - Cardinality(D)
  BY <1>2, <1>5, FS_Difference
<1>7. IsFiniteSet(C \ D)
  BY <1>2, FS_Difference
<1>8. Cardinality(C \ D) \in Nat /\ Cardinality(C) \in Nat /\ Cardinality(D) \in Nat
  BY <1>2, <1>7, FS_CardinalityType
<1> QED BY <1>0, <1>1, <1>3, <1>4, <1>6, <1>8

\* Fewer Accepts in flight keep the cap.
LEMMA StaysCapped ==
    ASSUME IInv, UNCHANGED count, Counting' \subseteq Counting, Applying' \subseteq Applying
    PROVE  Capped'
<1>1. Cardinality(Counting') <= Cardinality(Counting) /\ Cardinality(Applying') <= Cardinality(Applying)
  BY Finite, FS_Subset
<1>2. count \in Nat /\ Capped
  BY DEF IInv, Fits, TypeOK
<1> QED BY <1>1, <1>2, Finite, MaxPersonsAssumption DEF Capped

\* A worker that does not come to count or to apply an Accept.
LEMMA Narrows ==
    ASSUME NEW w \in Workers, StepOf(w), job'[w].pc # "inc",
           job'[w].pc = "apply" => job'[w].op # "Accept" \/ job'[w].kind # "person"
    PROVE  Counting' \subseteq Counting /\ Applying' \subseteq Applying
BY DEF StepOf, Counting, Applying, At

\* Accept applies a proposal that creates a person: one person more, one Accept
\* that has yet to count it.
LEMMA AcceptCounts ==
    ASSUME IInv, NEW w \in Workers, AcceptApply(w), Observe
    PROVE  CountExact' /\ lost' \in Nat /\ Capped'
<1> DEFINE p == job[w].pid
<1>0. /\ job[w].pc = "apply" /\ job[w].op = "Accept" /\ UNCHANGED <<kind, count>>
      /\ job[w] \in Jobs /\ JobFits(job[w], state, kind) /\ state \in [Pids -> States]
      /\ persons \in Nat /\ count \in Nat /\ lost \in Nat /\ Fits
  BY DEF AcceptApply, At, IInv, Fits, TypeOK, JobsFit
<1>1. p \in Pids /\ job[w].kind = kind[p]
  BY <1>0 DEF JobFits, Single, Ops
<1>2. StepOf(w)
  BY <1>0, ApplyIs
<1>3. Sources("Accept") = {"UnderReview"}
  BY DEF Sources
<1>4. CASE state[p] = "UnderReview" /\ kind[p] = "person"
  <2>1. /\ state' = [state EXCEPT ![p] = "Accepted"] /\ persons' = persons + 1 /\ Go(w, "inc")
    BY <1>1, <1>3, <1>4 DEF AcceptApply
  <2>2. job'[w].pc = "inc"
    BY <1>0, <2>1, GoIs DEF PCs
  <2>3. Counting' = Counting \cup {w} /\ w \notin Counting
    BY <1>0, <1>2, <2>2 DEF StepOf, Counting, At
  <2>4. Applying' = Applying \ {w} /\ w \in Applying
    BY <1>0, <1>1, <1>2, <1>4, <2>2 DEF StepOf, Applying, At
  <2>5. AcceptedPersons' = AcceptedPersons \cup {p} /\ p \notin AcceptedPersons
    BY <1>0, <1>1, <1>4, <2>1 DEF AcceptedPersons
  <2>6. Cardinality(Counting') = Cardinality(Counting) + 1
    BY <2>3, Finite, FS_AddElement
  <2>7. Cardinality(Applying') = Cardinality(Applying) - 1
    BY <2>4, Finite, FS_RemoveElement
  <2>8. Cardinality(AcceptedPersons') = Cardinality(AcceptedPersons) + 1
    BY <2>5, Finite, FS_AddElement
  <2>9. lost' = lost
    <3>1. Counting \ Counting' = {}
      BY <2>3
    <3>2. lost' = lost + Cardinality(Counting \ Counting')
      BY <1>0 DEF Observe
    <3> QED BY <1>0, <3>1, <3>2, FS_EmptySet
  <2>10. CountExact'
    <3>1. persons = Cardinality(AcceptedPersons) /\ persons = count + Cardinality(Counting) + lost
      BY DEF IInv, CountExact
    <3>2. persons' = Cardinality(AcceptedPersons')
      BY <1>0, <2>1, <2>8, <3>1
    <3>3. persons' = count' + Cardinality(Counting') + lost'
      BY <1>0, <2>1, <2>6, <2>9, <3>1, Finite
    <3> QED BY <3>2, <3>3 DEF CountExact
  <2>11. Capped'
    BY <1>0, <2>6, <2>7, Finite, MaxPersonsAssumption DEF IInv, Capped
  <2> QED BY <1>0, <2>9, <2>10, <2>11
<1>5. CASE ~(state[p] = "UnderReview" /\ kind[p] = "person")
  <2>1. Done(w) /\ persons' = persons /\ AcceptedPersons' = AcceptedPersons
    BY <1>0, <1>1, <1>3, <1>5 DEF AcceptApply, AcceptedPersons
  <2>2. job'[w].pc = "idle"
    BY <1>0, <2>1, DoneIs
  <2>3. Counting' \subseteq Counting /\ Applying' \subseteq Applying
    BY <1>2, <2>2, Narrows
  <2> QED BY <1>0, <2>1, <2>3, Uncounted, StaysCapped
<1> QED BY <1>4, <1>5

\* The increment: one Accept less in flight, one counted.
LEMMA IncCounts ==
    ASSUME IInv, NEW w \in Workers, AcceptInc(w), Observe
    PROVE  CountExact' /\ lost' \in Nat /\ Capped'
<1>0. persons \in Nat /\ count \in Nat /\ lost \in Nat /\ Fits
  BY DEF IInv, Fits, TypeOK
<1>1. /\ StepOf(w) /\ job[w].pc = "inc" /\ job'[w].pc = "idle"
      /\ count' = count + 1 /\ UNCHANGED <<state, kind, persons>>
  BY <1>0, IncIs
<1>2. Counting' = Counting \ {w} /\ w \in Counting
  BY <1>1 DEF StepOf, Counting, At
<1>3. Applying' = Applying
  BY <1>1 DEF StepOf, Applying, At
<1>4. Cardinality(Counting') = Cardinality(Counting) - 1
  BY <1>2, Finite, FS_RemoveElement
<1>5. lost' = lost /\ AcceptedPersons' = AcceptedPersons
  BY <1>0, <1>1 DEF Observe, AcceptedPersons
<1>6. CountExact'
  <2>1. persons = Cardinality(AcceptedPersons) /\ persons = count + Cardinality(Counting) + lost
    BY DEF IInv, CountExact
  <2>2. persons' = count' + Cardinality(Counting') + lost'
    BY <1>0, <1>1, <1>4, <1>5, <2>1, Finite
  <2> QED BY <1>1, <1>5, <2>1, <2>2 DEF CountExact
<1>7. Capped'
  BY <1>0, <1>1, <1>3, <1>4, Finite, MaxPersonsAssumption DEF IInv, Capped
<1> QED BY <1>0, <1>5, <1>6, <1>7

\* The check lets an Accept through while the counter is below the cap, so
\* that all workers together add one less than there are of them.
LEMMA CheckCounts ==
    ASSUME IInv, NEW w \in Workers, AcceptCheck(w), Observe
    PROVE  CountExact' /\ lost' \in Nat /\ Capped'
<1>0. count \in Nat /\ Fits /\ job[w].pc = "check"
  BY DEF IInv, Fits, TypeOK, AcceptCheck, At
<1>1. StepOf(w) /\ UNCHANGED data
  BY <1>0, GateIs
<1>2. job'[w].pc # "inc"
  BY <1>0, DoneIs, GoIs DEF AcceptCheck, PCs
<1>3. Counting' \subseteq Counting
  BY <1>1, <1>2 DEF StepOf, Counting, At
<1>4. UNCHANGED <<persons, count>> /\ AcceptedPersons' = AcceptedPersons
  BY <1>1 DEF data, AcceptedPersons
<1>5. Capped'
  <2>1. CASE MaxPersons = 0
    BY <2>1 DEF Capped
  <2>2. CASE MaxPersons # 0 /\ count < MaxPersons
    <3>1. (Counting' \cup Applying') \subseteq Workers /\ Counting' \cap Applying' = {}
      BY DEF Counting, Applying, At
    <3>2. Cardinality(Counting' \cup Applying') <= Cardinality(Workers)
      BY <3>1, FiniteAssumption, FS_Subset
    <3>3. Cardinality(Counting' \cup Applying') = Cardinality(Counting') + Cardinality(Applying') - Cardinality({})
      BY <3>1, Finite, FS_Union
    <3> QED BY <1>0, <1>4, <2>2, <3>2, <3>3, Finite, FS_EmptySet, MaxPersonsAssumption DEF Capped
  <2>3. CASE MaxPersons # 0 /\ ~(count < MaxPersons)
    <3>1. job'[w].pc = "idle"
      BY <1>0, <2>3, DoneIs DEF AcceptCheck
    <3> QED BY <1>1, <1>4, <3>1, Narrows, StaysCapped
  <2> QED BY <2>1, <2>2, <2>3
<1> QED BY <1>3, <1>4, <1>5, Uncounted

\* Every step keeps the account of persons and the cap.
LEMMA NextCounts ==
    ASSUME IInv, [MCNext]_MCvars
    PROVE  CountExact' /\ lost' \in Nat /\ Capped'
<1>0. Fits /\ kind \in [Pids -> Kinds] /\ state \in [Pids -> States] /\ job \in [Workers -> Jobs]
  BY DEF IInv, Fits, TypeOK
<1>1. ASSUME Observe, UNCHANGED <<persons, count>>, AcceptedPersons' = AcceptedPersons,
             Counting' \subseteq Counting, Applying' \subseteq Applying
      PROVE  CountExact' /\ lost' \in Nat /\ Capped'
  BY <1>1, Uncounted, StaysCapped
<1>2. ASSUME Observe, NEW w \in Workers, StepOf(w), UNCHANGED data, job'[w].pc # "inc",
             job'[w].pc = "apply" => job'[w].op # "Accept" \/ job'[w].kind # "person"
      PROVE  CountExact' /\ lost' \in Nat /\ Capped'
  <2>1. UNCHANGED <<persons, count>> /\ AcceptedPersons' = AcceptedPersons
    BY <1>2 DEF data, AcceptedPersons
  <2> QED BY <1>1, <1>2, <2>1, Narrows
<1>3. ASSUME Observe, NEW w \in Workers, NEW u \in Users,
             \/ \E op \in Ops, p \in Pids : StartOne(w, op, u, p)
             \/ \E k \in Kinds : StartCreate(w, u, k)
             \/ \E ps \in SUBSET Pids : ps # {} /\ StartBulkReject(w, u, ps)
      PROVE  CountExact' /\ lost' \in Nat /\ Capped'
  BY <1>0, <1>2, <1>3, StartIs
<1>4. ASSUME Observe, NEW w \in Workers, Handle(w)
      PROVE  CountExact' /\ lost' \in Nat /\ Capped'
  <2>1. CASE ResolveRole(w) \/ CheckBan(w) \/ GetStore(w) \/ AcceptView(w)
    <3>1. StepOf(w) /\ UNCHANGED data
      BY <1>0, <2>1, GateIs
    <3>2. /\ job'[w].pc # "inc"
          /\ job'[w].pc = "apply" => job'[w].op # "Accept" \/ job'[w].kind # "person"
      <4>1. CASE Done(w)
        BY <1>0, <4>1, DoneIs
      <4>2. CASE ResolveRole(w) /\ ~Done(w)
        BY <1>0, <4>2, ResolveIs, GoIs DEF PCs
      <4>3. CASE CheckBan(w) /\ ~Done(w)
        BY <1>0, <4>3, GoIs DEF CheckBan, PCs
      <4>4. CASE GetStore(w)
        BY <1>0, <4>4, GoIs DEF GetStore, PCs
      <4>5. CASE AcceptView(w)
        BY <1>0, <4>5 DEF AcceptView, Jobs
      <4> QED BY <2>1, <4>1, <4>2, <4>3, <4>4, <4>5
    <3> QED BY <1>2, <1>4, <3>1, <3>2
  <2>2. CASE CreateProposal(w) \/ Transition(w) \/ BulkReject(w)
    <3>1. StepOf(w) /\ UNCHANGED <<persons, count>>
      BY <1>0, <2>2, ApplyIs DEF CreateProposal, Transition, BulkReject
    <3>2. job'[w].pc # "inc" /\ (job'[w].pc = "apply" => job'[w].op # "Accept")
      BY <1>0, <2>2, DoneIs, NextIdIs DEF CreateProposal, Transition, BulkReject, At
    <3>3. AcceptedPersons' = AcceptedPersons
      <4>1. CASE CreateProposal(w)
        <5>1. PICK p \in Pids : /\ state[p] = "none" /\ state' = [state EXCEPT ![p] = "Draft"]
                                /\ kind' = [kind EXCEPT ![p] = job[w].kind]
          BY <4>1 DEF CreateProposal
        <5> QED BY <1>0, <5>1 DEF AcceptedPersons
      <4>2. CASE Transition(w)
        <5>1. job[w].op \in Ops \ {"Create", "Accept"} /\ kind' = kind
          BY <4>2 DEF Transition, Ops
        <5>2. Target(job[w].op) # "Accepted" /\ "Accepted" \notin Sources(job[w].op)
          BY <5>1, Transitions
        <5> QED BY <1>0, <4>2, <5>1, <5>2 DEF Transition, AcceptedPersons
      <4>3. CASE BulkReject(w)
        <5>1. "Accepted" \notin Sources("BulkReject") /\ kind' = kind
          BY <4>3, Transitions DEF Ops, BulkReject
        <5> QED BY <1>0, <4>3, <5>1 DEF BulkReject, AcceptedPersons
      <4> QED BY <2>2, <4>1, <4>2, <4>3
    <3> QED BY <1>1, <1>4, <3>1, <3>2, <3>3, Narrows
  <2> QED BY <1>4, <2>1, <2>2, AcceptCounts, IncCounts, CheckCounts DEF Handle
<1>5. ASSUME Observe, NEW w \in Workers, StoreError(w)
      PROVE  CountExact' /\ lost' \in Nat /\ Capped'
  BY <1>0, <1>2, <1>5, ErrorIs DEF Idle
<1>6. ASSUME Observe, Crash \/ UNCHANGED <<data, job>>
      PROVE  CountExact' /\ lost' \in Nat /\ Capped'
  <2>1. UNCHANGED data
    BY <1>6 DEF Crash
  <2>2. UNCHANGED <<persons, count>> /\ AcceptedPersons' = AcceptedPersons
    BY <2>1 DEF data, AcceptedPersons
  <2>3. Counting' \subseteq Counting /\ Applying' \subseteq Applying
    BY <1>6 DEF Crash, Counting, Applying, At, Idle
  <2> QED BY <1>1, <1>6, <2>2, <2>3
<1>7. CASE UNCHANGED MCvars
  BY <1>7 DEF MCvars, vars, data, IInv, CountExact, Capped, Counting, Applying, AcceptedPersons, At
<1> QED BY <1>3, <1>4, <1>5, <1>6, <1>7 DEF MCNext, Next, SetRole, SetBan

-----------------------------------------------------------------------------
(* Authorization *)

\* What was seen of a request stays seen, and what holds after the step is seen.
LEMMA Sees ==
    ASSUME Observe, NEW w \in Workers, job'[w].pc # "idle"
    PROVE  /\ seen[w] \subseteq seen'[w]
           /\ roles'[job'[w].sub] >= minRole(job'[w].op) => "role" \in seen'[w]
           /\ requiresProposalSubmission(job'[w].op) /\ job'[w].sub \notin banned' => "clear" \in seen'[w]
<1>1. seen'[w] = seen[w] \cup Facts(w)'
  BY DEF Observe
<1>2. roles'[job'[w].sub] >= minRole(job'[w].op) => "role" \in Facts(w)'
  BY DEF Facts, minRole
<1>3. requiresProposalSubmission(job'[w].op) /\ job'[w].sub \notin banned' => "clear" \in Facts(w)'
  BY DEF Facts, requiresProposalSubmission
<1> QED BY <1>1, <1>2, <1>3

\* A job that was left alone, and the job of a step's worker.
LEMMA StepSeen ==
    ASSUME JobsSeen, Observe, NEW w \in Workers, StepOf(w), JobSeen(job'[w], seen'[w])
    PROVE  JobsSeen'
<1>1. seen' \in [Workers -> SUBSET {"role", "clear"}]
  BY DEF JobsSeen, Observe, Facts
<1>2. ASSUME NEW x \in Workers, x # w PROVE JobSeen(job'[x], seen'[x])
  <2>1. job'[x] = job[x] /\ JobSeen(job[x], seen[x])
    BY <1>2 DEF StepOf, JobsSeen
  <2>2. CASE job'[x].pc = "idle"
    BY <2>2 DEF JobSeen
  <2>3. CASE job'[x].pc # "idle"
    BY <2>1, <2>3, Sees DEF JobSeen
  <2> QED BY <2>2, <2>3
<1> QED BY <1>1, <1>2 DEF JobsSeen

\* Every step keeps what the gate established.
LEMMA NextSeen ==
    ASSUME IInv, [MCNext]_MCvars
    PROVE  JobsSeen'
<1>0. Fits /\ JobsSeen /\ job \in [Workers -> Jobs]
  BY DEF IInv, Fits, TypeOK
<1>1. ASSUME Observe, NEW w \in Workers, StepOf(w), job'[w].pc \in {"idle", "resolve"}
      PROVE  JobsSeen'
  BY <1>0, <1>1, StepSeen DEF JobSeen
<1>2. ASSUME Observe, NEW w \in Workers, StepOf(w), job'[w].op = job[w].op,
             job[w].pc \notin {"idle", "resolve"},
             requiresProposalSubmission(job[w].op) /\ job'[w].pc \in {"store", "apply"}
                => job[w].pc \in {"store", "apply"}
      PROVE  JobsSeen'
  <2>1. JobSeen(job[w], seen[w])
    BY <1>0 DEF JobsSeen
  <2>2. CASE job'[w].pc # "idle"
    <3>1. JobSeen(job'[w], seen'[w])
      BY <1>2, <2>1, <2>2, Sees DEF JobSeen
    <3> QED BY <1>0, <1>2, <3>1, StepSeen
  <2> QED BY <1>1, <1>2, <2>2
<1>3. ASSUME Observe, NEW w \in Workers, NEW u \in Users,
             \/ \E op \in Ops, p \in Pids : StartOne(w, op, u, p)
             \/ \E k \in Kinds : StartCreate(w, u, k)
             \/ \E ps \in SUBSET Pids : ps # {} /\ StartBulkReject(w, u, ps)
      PROVE  JobsSeen'
  BY <1>0, <1>1, <1>3, StartIs
<1>4. ASSUME Observe, NEW w \in Workers, Handle(w)
      PROVE  JobsSeen'
  <2>0. JobFits(job[w], state, kind)
    BY <1>0 DEF Fits, JobsFit
  <2>1. CASE Done(w)
    BY <1>0, <1>1, <1>4, <2>1, DoneIs
  <2>2. CASE ResolveRole(w) /\ ~Done(w)
    <3>1. /\ StepOf(w) /\ UNCHANGED env /\ roles[job[w].sub] >= minRole(job[w].op)
          /\ Go(w, IF requiresProposalSubmission(job[w].op) THEN "ban" ELSE "store")
      BY <1>0, <2>2, GateIs, ResolveIs
    <3>2. /\ job'[w].pc = IF requiresProposalSubmission(job[w].op) THEN "ban" ELSE "store"
          /\ job'[w].op = job[w].op /\ job'[w].sub = job[w].sub
      BY <1>0, <3>1, GoIs DEF PCs
    <3>3. "role" \in seen'[w]
      BY <1>4, <3>1, <3>2, Sees DEF env
    <3>4. JobSeen(job'[w], seen'[w])
      BY <3>2, <3>3 DEF JobSeen
    <3> QED BY <1>0, <1>4, <3>1, <3>4, StepSeen
  <2>3. CASE CheckBan(w) /\ ~Done(w)
    <3>1. /\ StepOf(w) /\ UNCHANGED env /\ Go(w, "store") /\ job[w].sub \notin banned
          /\ job[w].pc = "ban" /\ requiresProposalSubmission(job[w].op)
      BY <1>0, <2>0, <2>3, GateIs DEF CheckBan, At, JobFits
    <3>2. job'[w].pc = "store" /\ job'[w].op = job[w].op /\ job'[w].sub = job[w].sub
      BY <1>0, <3>1, GoIs DEF PCs
    <3>3. "clear" \in seen'[w] /\ seen[w] \subseteq seen'[w]
      BY <1>4, <3>1, <3>2, Sees DEF env
    <3>4. "role" \in seen[w]
      BY <1>0, <3>1 DEF JobsSeen, JobSeen
    <3>5. JobSeen(job'[w], seen'[w])
      BY <3>2, <3>3, <3>4 DEF JobSeen
    <3> QED BY <1>0, <1>4, <3>1, <3>5, StepSeen
  <2>4. CASE GetStore(w)
    <3>1. StepOf(w) /\ job[w].pc = "store"
      BY <1>0, <2>4, GateIs DEF GetStore, At
    <3>2. job'[w].op = job[w].op
      BY <1>0, <2>4, GoIs DEF GetStore, PCs
    <3> QED BY <1>2, <1>4, <3>1, <3>2
  <2>5. CASE AcceptView(w)
    <3>1. StepOf(w) /\ job[w].pc = "view" /\ job[w].op = "Accept" /\ job'[w].op = job[w].op
      BY <1>0, <2>0, <2>5, GateIs DEF AcceptView, At, JobFits, Jobs
    <3> QED BY <1>2, <1>4, <3>1 DEF requiresProposalSubmission
  <2>6. CASE AcceptCheck(w) /\ ~Done(w)
    <3>1. StepOf(w) /\ job[w].pc = "check" /\ job[w].op = "Accept" /\ Go(w, "apply")
      BY <1>0, <2>0, <2>6, GateIs DEF AcceptCheck, At, JobFits
    <3>2. job'[w].op = job[w].op
      BY <1>0, <3>1, GoIs DEF PCs
    <3> QED BY <1>2, <1>4, <3>1, <3>2 DEF requiresProposalSubmission
  <2>7. CASE AcceptApply(w) /\ ~Done(w)
    <3>1. StepOf(w) /\ job[w].pc = "apply" /\ Go(w, "inc")
      BY <1>0, <2>7, ApplyIs DEF AcceptApply, At
    <3>2. job'[w].op = job[w].op
      BY <1>0, <3>1, GoIs DEF PCs
    <3> QED BY <1>2, <1>4, <3>1, <3>2
  <2>8. CASE BulkReject(w)
    <3>1. StepOf(w) /\ job[w].pc = "apply" /\ (job'[w].op = job[w].op \/ job'[w].pc = "idle")
      BY <1>0, <2>8, ApplyIs, NextIdIs DEF BulkReject, At
    <3> QED BY <1>1, <1>2, <1>4, <3>1
  <2> QED BY <1>4, <2>1, <2>2, <2>3, <2>4, <2>5, <2>6, <2>7, <2>8
          DEF Handle, CreateProposal, Transition, AcceptInc
<1>5. ASSUME Observe, NEW w \in Workers, StoreError(w) PROVE JobsSeen'
  <2>1. CASE job'[w] = Idle
    BY <1>0, <1>1, <1>5, <2>1, ErrorIs DEF Idle
  <2> QED BY <1>0, <1>2, <1>5, <2>1, ErrorIs
<1>6. ASSUME Observe, Crash \/ UNCHANGED job PROVE JobsSeen'
  <2>1. seen' \in [Workers -> SUBSET {"role", "clear"}]
    BY <1>0, <1>6 DEF JobsSeen, Observe, Facts
  <2>2. ASSUME NEW w \in Workers PROVE JobSeen(job'[w], seen'[w])
    <3>1. job'[w].pc = "idle" \/ job'[w] = job[w]
      BY <1>6 DEF Crash, Idle
    <3>2. JobSeen(job[w], seen[w])
      BY <1>0 DEF JobsSeen
    <3> QED BY <1>6, <3>1, <3>2, Sees DEF JobSeen
  <2> QED BY <2>1, <2>2 DEF JobsSeen
<1>7. CASE UNCHANGED MCvars
  BY <1>0, <1>7 DEF MCvars, vars, JobsSeen
<1> QED BY <1>3, <1>4, <1>5, <1>6, <1>7 DEF MCNext, Next, SetRole, SetBan

-----------------------------------------------------------------------------
(* The theorems *)

\* Every step preserves the invariant.
LEMMA NextIInv ==
    ASSUME IInv, [MCNext]_MCvars
    PROVE  IInv'
<1>1. Fits'
  BY NextFits DEF IInv, MCNext, MCvars
<1> QED BY <1>1, NextCounts, NextSeen DEF IInv

\* Nothing is counted or in flight, nothing was seen.
LEMMA InitIInv == MCInit => IInv
<1> SUFFICES ASSUME MCInit PROVE IInv
  OBVIOUS
<1>1. Fits
  BY InitFits DEF MCInit
<1>2. \A w \in Workers : job[w].pc = "idle"
  BY DEF MCInit, Init, Idle
<1>3. JobsSeen
  BY <1>2 DEF MCInit, JobsSeen, JobSeen
<1>4. Counting = {} /\ Applying = {} /\ AcceptedPersons = {}
  BY <1>2 DEF Counting, Applying, AcceptedPersons, At, MCInit, Init
<1>5. persons = 0 /\ count = 0 /\ lost = 0
  BY DEF MCInit, Init
<1>6. CountExact
  BY <1>4, <1>5, FS_EmptySet DEF CountExact
<1>7. Capped
  <2>1. CASE MaxPersons = 0
    BY <2>1 DEF Capped
  <2>2. CASE MaxPersons # 0
    BY <2>2, <1>4, <1>5, FS_EmptySet, Finite, MaxPersonsAssumption DEF Capped
  <2> QED BY <2>1, <2>2
<1> QED BY <1>1, <1>3, <1>5, <1>6, <1>7 DEF IInv

\* The invariant that ties the requests in flight to the proposals, the counter
\* and what was seen of each subject holds in every reachable state.
THEOREM Inductive == MCSpec => []IInv
<1>1. IInv /\ [MCNext]_MCvars => IInv'
  BY NextIInv
<1> QED BY <1>1, InitIInv, PTL DEF MCSpec

\* Every variable keeps its type.
THEOREM TypeCorrect == MCSpec => []TypeOK
<1>1. IInv => TypeOK
  BY DEF IInv, Fits
<1> QED BY <1>1, Inductive, PTL

\* Each accepted create-Person proposal is counted exactly once, or lost to a
\* crash or an error between governance.Accept and qincPerson.
THEOREM EveryPersonCounted == MCSpec => []CountExact
<1>1. IInv => CountExact
  BY DEF IInv
<1> QED BY <1>1, Inductive, PTL

\* The check before Accept, which is not atomic with it, lets the genealogy
\* exceed its cap by the other Accepts in flight and the lost counts at most.
THEOREM CapExceededByFlight == MCSpec => []PersonOvershoot
<1>1. IInv => PersonOvershoot
  BY Finite, MaxPersonsAssumption DEF IInv, CountExact, Capped, PersonOvershoot, Fits, TypeOK
<1> QED BY <1>1, Inductive, PTL

\* Only the handlers' transactions change a proposal, each in a step of its own.
LEMMA ChangeIs ==
    ASSUME IInv, [MCNext]_MCvars, NEW p \in Pids, state'[p] # state[p]
    PROVE  \E w \in Workers : job[w].pc = "apply" /\ job'[w] # job[w]
<1>0. Fits
  BY DEF IInv
<1>1. PICK w \in Workers : CreateProposal(w) \/ Transition(w) \/ AcceptApply(w) \/ BulkReject(w)
  BY DEF MCNext, MCvars, vars, Next, Handle, StartOne, StartCreate, StartBulkReject, ResolveRole,
     CheckBan, GetStore, AcceptView, AcceptCheck, AcceptInc, StoreError, SetRole, SetBan, Crash, data
<1>2. job[w].pc = "apply"
  BY <1>1 DEF CreateProposal, Transition, AcceptApply, BulkReject, At
<1>3. job'[w] # job[w]
  <2>1. CASE Done(w)
    BY <1>0, <1>2, <2>1, DoneIs
  <2>2. CASE Go(w, "inc")
    BY <1>0, <1>2, <2>2, GoIs DEF PCs
  <2>3. CASE BulkReject(w)
    <3>1. PICK q \in job[w].todo : NextId(w, q)
      BY <2>3 DEF BulkReject
    <3>2. job'[w].pc = "idle" \/ job'[w].todo = job[w].todo \ {q}
      BY <1>0, <1>2, <2>3, <3>1, NextIdIs DEF BulkReject
    <3> QED BY <1>2, <3>1, <3>2
  <2> QED BY <1>1, <2>1, <2>2, <2>3 DEF CreateProposal, Transition, AcceptApply
<1> QED BY <1>2, <1>3

\* A proposal changes only by a request that passed resolveStore's checks.
THEOREM ChangesAreAuthorized == MCSpec => OnlyAuthorizedChange
<1>1. IInv /\ [MCNext]_MCvars => [AuthorizedChange]_MCvars
  <2> SUFFICES ASSUME IInv, [MCNext]_MCvars, NEW p \in Pids, state'[p] # state[p]
               PROVE  \E w \in Workers :
                         /\ At(w, "apply")
                         /\ job'[w] # job[w]
                         /\ "role" \in seen[w]
                         /\ requiresProposalSubmission(job[w].op) => "clear" \in seen[w]
    BY DEF AuthorizedChange
  <2>1. PICK w \in Workers : job[w].pc = "apply" /\ job'[w] # job[w]
    BY ChangeIs
  <2>2. JobSeen(job[w], seen[w])
    BY DEF IInv, JobsSeen
  <2> QED BY <2>1, <2>2 DEF JobSeen, At
<1> QED BY <1>1, Inductive, PTL DEF MCSpec, OnlyAuthorizedChange

-----------------------------------------------------------------------------
(* Listing *)

\* What the mapper makes of each state.
LEMMA MapsStates ==
    /\ proposalStateToProto("Draft") = "DRAFT" /\ proposalStateToProto("Submitted") = "SUBMITTED"
    /\ proposalStateToProto("UnderReview") = "UNDER_REVIEW"
    /\ proposalStateToProto("Accepted") = "ACCEPTED"
    /\ proposalStateToProto("Rejected") = "REJECTED"
    /\ proposalStateToProto("Withdrawn") = "WITHDRAWN"
BY DEF proposalStateToProto, Mapped, stateRowsBack

\* What the mapper makes of each filter.
LEMMA MapsFilters ==
    /\ proposalStateFromProto("DRAFT") = "Draft" /\ proposalStateFromProto("SUBMITTED") = "Submitted"
    /\ proposalStateFromProto("UNDER_REVIEW") = "UnderReview"
    /\ proposalStateFromProto("ACCEPTED") = "Accepted"
    /\ proposalStateFromProto("REJECTED") = "Rejected"
    /\ proposalStateFromProto("WITHDRAWN") = "Withdrawn"
    /\ proposalStateFromProto(Unspecified) = Unspecified
    /\ proposalStateFromProto("unknown") = Unspecified
BY DEF proposalStateFromProto, Mapped, stateRows, Unspecified

Known    == ProposalState \ {Unspecified, "unknown"}
Existing == {p \in Pids : state[p] # "none"}
Shown(p) == [id |-> p, state |-> proposalStateToProto(state[p])]

\* The two mappers are inverse to each other on the states there are.
LEMMA MappersInverse ==
    /\ \A s \in States \ {"none"} :
          proposalStateToProto(s) \in Known /\ proposalStateFromProto(proposalStateToProto(s)) = s
    /\ \A f \in Known :
          proposalStateFromProto(f) # Unspecified /\ proposalStateToProto(proposalStateFromProto(f)) = f
<1>1. Known = {"DRAFT", "SUBMITTED", "UNDER_REVIEW", "ACCEPTED", "REJECTED", "WITHDRAWN"}
  BY DEF Known, ProposalState, Unspecified
<1>2. States \ {"none"} = {"Draft", "Submitted", "UnderReview", "Accepted", "Rejected", "Withdrawn"}
  BY DEF States
<1>3. Unspecified = "0"
  BY DEF Unspecified
<1> QED BY <1>1, <1>2, <1>3, MapsStates, MapsFilters

\* What each filter shows.
LEMMA Lists ==
    /\ ListProposals(Unspecified) = {Shown(p) : p \in Existing}
    /\ ListProposals("unknown") = ListProposals(Unspecified)
    /\ \A f \in Known :
          ListProposals(f) = {Shown(p) : p \in {q \in Existing : state[q] = proposalStateFromProto(f)}}
<1>1. ASSUME NEW f, proposalStateFromProto(f) = Unspecified
      PROVE  ListProposals(f) = {Shown(p) : p \in Existing}
  BY <1>1 DEF ListProposals, Shown, Existing
<1>2. ASSUME NEW f \in Known
      PROVE  ListProposals(f) = {Shown(p) : p \in {q \in Existing : state[q] = proposalStateFromProto(f)}}
  <2>1. proposalStateFromProto(f) # Unspecified
    BY MappersInverse
  <2>2. {q \in Pids : state[q] # "none" /\ state[q] = proposalStateFromProto(f)}
          = {q \in Existing : state[q] = proposalStateFromProto(f)}
    BY DEF Existing
  <2> QED BY <2>1, <2>2 DEF ListProposals, Shown
<1> QED BY <1>1, <1>2, MapsFilters

\* Each proposal is shown once.
LEMMA ShownOnce == Cardinality({Shown(p) : p \in Existing}) = Cardinality(Existing)
<1> DEFINE T == {Shown(p) : p \in Existing}
           b == [p \in Existing |-> Shown(p)]
<1>1. b \in [Existing -> T] /\ \A t \in T : \E p \in Existing : b[p] = t
  OBVIOUS
<1>2. \A p, q \in Existing : b[p] = b[q] => p = q
  BY DEF Shown
<1> HIDE DEF T
<1>3. b \in Bijection(Existing, T)
  BY <1>1, <1>2 DEF Bijection, Injection, Surjection, IsInjective
<1>4. IsFiniteSet(Existing)
  BY FiniteAssumption, FS_Subset DEF Existing
<1>5. ExistsBijection(Existing, T)
  BY <1>3 DEF ExistsBijection
<1>6. Cardinality(T) = Cardinality(Existing)
  BY <1>4, <1>5, FS_Bijection
<1> QED BY <1>6 DEF T

\* The state filters of ListProposals split the proposals between them.
THEOREM ListingIsFiltered == MCSpec => []FilteredListing
<1>1. IInv => FilteredListing
  <2> SUFFICES ASSUME IInv PROVE FilteredListing
    OBVIOUS
  <2> DEFINE list == [f \in ProposalState |-> ListProposals(f)]
  <2>0. \A p \in Existing : state[p] \in States \ {"none"}
    BY DEF IInv, Fits, TypeOK, Existing
  <2>1. /\ list[Unspecified] = {Shown(p) : p \in Existing} /\ list["unknown"] = list[Unspecified]
        /\ \A f \in Known :
              list[f] = {Shown(p) : p \in {q \in Existing : state[q] = proposalStateFromProto(f)}}
    BY Lists DEF Known, ProposalState
  <2> HIDE DEF list
  <2>2. Cardinality(list[Unspecified]) = Cardinality({p \in Pids : state[p] # "none"})
    BY <2>1, ShownOnce DEF Existing
  <2>3. \A f \in Known : \A x \in list[f] : x.state = f
    BY <2>1, MappersInverse DEF Shown
  <2>4. UNION {list[f] : f \in Known} \subseteq list[Unspecified]
    BY <2>1
  <2>5. list[Unspecified] \subseteq UNION {list[f] : f \in Known}
    <3> SUFFICES ASSUME NEW p \in Existing PROVE \E f \in Known : Shown(p) \in list[f]
      BY <2>1
    <3>1. /\ proposalStateToProto(state[p]) \in Known
          /\ state[p] = proposalStateFromProto(proposalStateToProto(state[p]))
      BY <2>0, MappersInverse
    <3> QED BY <2>1, <3>1
  <2> QED BY <2>1, <2>2, <2>3, <2>4, <2>5 DEF FilteredListing, list, Known
<1> QED BY <1>1, Inductive, PTL
=============================================================================
