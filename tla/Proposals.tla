----------------------------- MODULE Proposals -----------------------------
(***************************************************************************)
(* The proposals of one genealogy, src/internal/service/proposals.go, the  *)
(* gate in front of them (resolveStore, service/resolver.go) and the       *)
(* person quota (internal/quotas).                                         *)
(*                                                                         *)
(* Linea-core's governance package, which is not in this repository, runs  *)
(* each transition in one transaction of the genealogy's store; here it is *)
(* the table Sources and the right to refuse.  What Resolve answers, and   *)
(* the ban records, change at any time (module Genealogies is about how).  *)
(***************************************************************************)
EXTENDS Naturals, FiniteSets, Mappers

CONSTANTS
    Users,          \* authenticated subjects
    Workers,        \* goroutines that serve requests
    Pids,           \* proposal ids, drawn by model.NewID
    MaxPersons,     \* Limits.MaxPersonsPerGenealogy, 0 for no limit
    Faults,         \* subset of {"crash", "error"}
    NoUser, NoPid

ASSUME MaxPersonsAssumption == MaxPersons \in Nat
ASSUME FaultsAssumption == Faults \subseteq {"crash", "error"}
ASSUME NullsAssumption == NoUser \notin Users /\ NoPid \notin Pids
ASSUME FiniteAssumption == IsFiniteSet(Workers) /\ IsFiniteSet(Pids)

(* platform.Role *)
None        == 0
Contributor == 2
Curator     == 3
Roles       == {None, Contributor, Curator}

States == {"none", "Draft", "Submitted", "UnderReview", "Accepted", "Rejected", "Withdrawn"}

\* Accept's createsPerson: the create-Person proposals, and all others.
createsPerson(action, entityKind) == action = "Create" /\ entityKind = "Person"
Kinds ==
    {IF createsPerson(actionFromProto(a), entityKindFromProto(e)) THEN "person" ELSE "other" :
        a \in ProposalAction, e \in EntityKind}

Ops == {"Create", "Submit", "Withdraw", "Claim", "Accept", "Reject", "BulkReject"}

VARIABLES
    state,      \* proposal -> its state
    kind,       \* proposal -> what it proposes
    persons,    \* the Person entities that accepted proposals created
    count,      \* "c/g/<id>/persons": the platform's person counter
    roles,      \* subject -> the role Resolve gives him
    banned,     \* the subjects with a ban record
    job         \* worker -> its request and the handler's locals

data == <<state, kind, persons, count>>
env  == <<roles, banned>>
vars == <<data, env, job>>

PCs == {"idle", "resolve", "ban", "store", "view", "check", "apply", "inc"}

Idle == [pc |-> "idle", op |-> "Create", sub |-> NoUser, pid |-> NoPid, kind |-> "other", todo |-> {}]

Jobs == [pc : PCs, op : Ops, sub : Users \cup {NoUser}, pid : Pids \cup {NoPid},
         kind : Kinds, todo : SUBSET Pids]

TypeOK ==
    /\ state \in [Pids -> States]
    /\ kind \in [Pids -> Kinds]
    /\ persons \in Nat
    /\ count \in Nat
    /\ roles \in [Users -> Roles]
    /\ banned \subseteq Users
    /\ job \in [Workers -> Jobs]

Init ==
    /\ state = [p \in Pids |-> "none"]
    /\ kind = [p \in Pids |-> "other"]
    /\ persons = 0
    /\ count = 0
    /\ roles \in [Users -> Roles]
    /\ banned = {}
    /\ job = [w \in Workers |-> Idle]

-----------------------------------------------------------------------------
(* governance, external: the states a transition may leave, and where it goes *)

Sources(op) ==
    CASE op = "Submit"   -> {"Draft"}
      [] op = "Claim"    -> {"Submitted"}
      [] op = "Accept"   -> {"UnderReview"}
      [] op \in {"Reject", "BulkReject"} -> {"Submitted", "UnderReview"}
      [] op = "Withdraw" -> {"Draft", "Submitted", "UnderReview"}

Target(op) ==
    CASE op = "Submit"   -> "Submitted"
      [] op = "Claim"    -> "UnderReview"
      [] op = "Accept"   -> "Accepted"
      [] op \in {"Reject", "BulkReject"} -> "Rejected"
      [] op = "Withdraw" -> "Withdrawn"

-----------------------------------------------------------------------------
(* A request, up to the store *)

At(w, pc) == job[w].pc = pc
Go(w, pc) == job' = [job EXCEPT ![w].pc = pc]
Done(w)   == job' = [job EXCEPT ![w] = Idle]

\* The minRole and requiresProposalSubmission that each RPC passes.
minRole(op) == IF op \in {"Create", "Submit", "Withdraw"} THEN Contributor ELSE Curator
requiresProposalSubmission(op) == op \in {"Create", "Submit"}

\* Ids of proposals are drawn by the server: clients name those that exist.
StartOne(w, op, u, p) ==
    /\ At(w, "idle")
    /\ op \notin {"Create", "BulkReject"}
    /\ state[p] # "none"
    /\ job' = [job EXCEPT ![w] = [Idle EXCEPT !.pc = "resolve", !.op = op, !.sub = u, !.pid = p]]
    /\ UNCHANGED <<data, env>>

StartCreate(w, u, k) ==
    /\ At(w, "idle")
    /\ Cardinality({x \in Workers : job[x].op = "Create" /\ ~At(x, "idle")})
          < Cardinality({p \in Pids : state[p] = "none"})
    /\ job' = [job EXCEPT ![w] = [Idle EXCEPT !.pc = "resolve", !.sub = u, !.kind = k]]
    /\ UNCHANGED <<data, env>>

StartBulkReject(w, u, ps) ==
    /\ At(w, "idle")
    /\ \A p \in ps : state[p] # "none"
    /\ job' = [job EXCEPT ![w] = [Idle EXCEPT !.pc = "resolve", !.op = "BulkReject", !.sub = u,
                                              !.todo = ps]]
    /\ UNCHANGED <<data, env>>

\* Mutant: the ban check is skipped.
ResolveRole_NoBan(w) ==
    /\ At(w, "resolve")
    /\ IF roles[job[w].sub] < minRole(job[w].op) THEN Done(w) ELSE Go(w, "store")
    /\ UNCHANGED <<data, env>>

\* resolveStore: Resolve and the role check.
ResolveRole(w) ==
    /\ At(w, "resolve")
    /\ CASE roles[job[w].sub] < minRole(job[w].op)  -> Done(w)
         [] roles[job[w].sub] >= minRole(job[w].op) ->
               Go(w, IF requiresProposalSubmission(job[w].op) THEN "ban" ELSE "store")
    /\ UNCHANGED <<data, env>>

\* resolveStore: IsBanned.
CheckBan(w) ==
    /\ At(w, "ban")
    /\ IF job[w].sub \in banned THEN Done(w) ELSE Go(w, "store")
    /\ UNCHANGED <<data, env>>

\* resolveStore: tenants.Get.
GetStore(w) ==
    /\ At(w, "store")
    /\ Go(w, IF job[w].op = "Accept" THEN "view" ELSE "apply")
    /\ UNCHANGED <<data, env>>

-----------------------------------------------------------------------------
(* The handlers *)

CreateProposal(w) ==
    /\ At(w, "apply")
    /\ job[w].op = "Create"
    /\ \E p \in Pids :
          /\ state[p] = "none"
          /\ state' = [state EXCEPT ![p] = "Draft"]
          /\ kind' = [kind EXCEPT ![p] = job[w].kind]
    /\ Done(w)
    /\ UNCHANGED <<persons, count, env>>

\* transition and transitionWithReason: one call of governance, which refuses a
\* proposal in any other state.
Transition(w) ==
    /\ At(w, "apply")
    /\ job[w].op \in {"Submit", "Withdraw", "Claim", "Reject"}
    /\ state' = IF state[job[w].pid] \in Sources(job[w].op)
                THEN [state EXCEPT ![job[w].pid] = Target(job[w].op)] ELSE state
    /\ Done(w)
    /\ UNCHANGED <<kind, persons, count, env>>

\* Accept, first transaction: read the proposal to see if it creates a Person.
AcceptView(w) ==
    /\ At(w, "view")
    /\ job' = [job EXCEPT ![w].kind = kind[job[w].pid],
                          ![w].pc = IF kind[job[w].pid] = "person" THEN "check" ELSE "apply"]
    /\ UNCHANGED <<data, env>>

\* Mutant: off by one.
AcceptCheck_OffByOne(w) ==
    /\ At(w, "check")
    /\ IF MaxPersons = 0 \/ count <= MaxPersons THEN Go(w, "apply") ELSE Done(w)
    /\ UNCHANGED <<data, env>>

\* Accept: qcheckCreatePerson.
AcceptCheck(w) ==
    /\ At(w, "check")
    /\ IF MaxPersons = 0 \/ count < MaxPersons THEN Go(w, "apply") ELSE Done(w)
    /\ UNCHANGED <<data, env>>

\* Mutant: the person is counted even if governance refuses.
AcceptApply_CountsAnyway(w) ==
    /\ At(w, "apply")
    /\ job[w].op = "Accept"
    /\ IF state[job[w].pid] \in Sources("Accept")
       THEN /\ state' = [state EXCEPT ![job[w].pid] = "Accepted"]
            /\ persons' = IF kind[job[w].pid] = "person" THEN persons + 1 ELSE persons
       ELSE UNCHANGED <<state, persons>>
    /\ IF job[w].kind = "person" THEN Go(w, "inc") ELSE Done(w)
    /\ UNCHANGED <<kind, count, env>>

\* Accept: governance.Accept, which applies the proposal.
AcceptApply(w) ==
    /\ At(w, "apply")
    /\ job[w].op = "Accept"
    /\ IF state[job[w].pid] \in Sources("Accept")
       THEN /\ state' = [state EXCEPT ![job[w].pid] = "Accepted"]
            /\ persons' = IF kind[job[w].pid] = "person" THEN persons + 1 ELSE persons
            /\ IF job[w].kind = "person" THEN Go(w, "inc") ELSE Done(w)
       ELSE Done(w) /\ UNCHANGED <<state, persons>>
    /\ UNCHANGED <<kind, count, env>>

\* Mutant: the wrong sign.
AcceptInc_Minus(w) ==
    /\ At(w, "inc")
    /\ count' = count - 1
    /\ Done(w)
    /\ UNCHANGED <<state, kind, persons, env>>

\* Accept: qincPerson.
AcceptInc(w) ==
    /\ At(w, "inc")
    /\ count' = count + 1
    /\ Done(w)
    /\ UNCHANGED <<state, kind, persons, env>>

\* BulkReject: the loop goes on, or ends.
NextId(w, p) ==
    IF job[w].todo = {p} THEN Done(w) ELSE job' = [job EXCEPT ![w].todo = @ \ {p}]

\* BulkReject: one id of the list; a refusal is noted and the loop goes on.
BulkReject(w) ==
    /\ At(w, "apply")
    /\ job[w].op = "BulkReject"
    /\ \E p \in job[w].todo :
          /\ state' = IF state[p] \in Sources("BulkReject")
                      THEN [state EXCEPT ![p] = "Rejected"] ELSE state
          /\ NextId(w, p)
    /\ UNCHANGED <<kind, persons, count, env>>

\* ListProposals, in one View transaction: what a Viewer is shown of each
\* proposal that passes the filter.
ListProposals(state_filter) ==
    LET filter == proposalStateFromProto(state_filter)
    IN  {[id |-> p, state |-> proposalStateToProto(state[p])] :
            p \in {q \in Pids : state[q] # "none"
                                 /\ (filter # Unspecified => state[q] = filter)}}

-----------------------------------------------------------------------------
(* Environment and faults *)

\* Somebody's role changes, or what the authz cache says of it.
SetRole(u, r) ==
    /\ r # roles[u]
    /\ roles' = [roles EXCEPT ![u] = r]
    /\ UNCHANGED <<data, banned, job>>

\* BanUser and UnbanUser.
SetBan(u, b) ==
    /\ b # (u \in banned)
    /\ banned' = IF b THEN banned \cup {u} ELSE banned \ {u}
    /\ UNCHANGED <<data, roles, job>>

\* An operation of either store fails, because governance refuses, the disk
\* does, or the handle was closed under the handler.  BulkReject goes on with
\* the next id, and Accept discards the error of qincPerson; both of them, and
\* every other handler, make no change.
StoreError(w) ==
    /\ "error" \in Faults
    /\ ~At(w, "idle")
    /\ IF At(w, "apply") /\ job[w].op = "BulkReject"
       THEN \E p \in job[w].todo : NextId(w, p)
       ELSE Done(w)
    /\ UNCHANGED <<data, env>>

Crash ==
    /\ "crash" \in Faults
    /\ job' = [w \in Workers |-> Idle]
    /\ UNCHANGED <<data, env>>

-----------------------------------------------------------------------------
Handle(w) ==
    \/ ResolveRole(w) \/ CheckBan(w) \/ GetStore(w)
    \/ CreateProposal(w) \/ Transition(w) \/ BulkReject(w)
    \/ AcceptView(w) \/ AcceptCheck(w) \/ AcceptApply(w) \/ AcceptInc(w)

Next ==
    \/ \E w \in Workers, u \in Users :
          \/ \E op \in Ops, p \in Pids : StartOne(w, op, u, p)
          \/ \E k \in Kinds : StartCreate(w, u, k)
          \/ \E ps \in SUBSET Pids : ps # {} /\ StartBulkReject(w, u, ps)
    \/ \E w \in Workers : Handle(w) \/ StoreError(w)
    \/ \E u \in Users, r \in Roles : SetRole(u, r)
    \/ \E u \in Users, b \in BOOLEAN : SetBan(u, b)
    \/ Crash

Spec == Init /\ [][Next]_vars

-----------------------------------------------------------------------------
(* Properties *)

AcceptedPersons == {p \in Pids : state[p] = "Accepted" /\ kind[p] = "person"}
Counting        == {w \in Workers : At(w, "inc")}
Applying        == {w \in Workers : At(w, "apply") /\ job[w].op = "Accept" /\ job[w].kind = "person"}

\* At any moment the six filters split the proposals of a genealogy between
\* them: each shows, in the state it asks for, what no other shows, and
\* together they show every proposal; no filter, or one from a newer API, shows
\* all (ListProposals with both directions of the state mapper).
FilteredListing ==
    LET list  == [f \in ProposalState |-> ListProposals(f)]
        known == ProposalState \ {Unspecified, "unknown"}
    IN  /\ Cardinality(list[Unspecified]) = Cardinality({p \in Pids : state[p] # "none"})
        /\ list["unknown"] = list[Unspecified]
        /\ list[Unspecified] = UNION {list[f] : f \in known}
        /\ \A f \in known : \A x \in list[f] : x.state = f
=============================================================================
