---------------------------- MODULE MCProposals ----------------------------
(***************************************************************************)
(* Proposals for TLC, with two history variables: what was true of each    *)
(* request's subject at some moment since the request began, and how many  *)
(* increments of the person counter were lost to a crash or an error.      *)
(***************************************************************************)
EXTENDS Proposals, TLC

VARIABLES seen, lost

MCvars == <<vars, seen, lost>>

\* What holds now of the subject of worker w's request: he has the role, and
\* (where it matters) no ban.
Facts(w) ==
    {f \in {"role", "clear"} :
        /\ job[w].pc # "idle"
        /\ f = "role"  => roles[job[w].sub] >= minRole(job[w].op)
        /\ f = "clear" => requiresProposalSubmission(job[w].op) /\ job[w].sub \notin banned}

Observe ==
    /\ seen' = [w \in Workers |->
                  IF job'[w].pc = "idle" THEN {} ELSE seen[w] \cup Facts(w)']
    /\ lost' = lost + (IF count' # count THEN 0 ELSE Cardinality(Counting \ Counting'))

MCInit == Init /\ seen = [w \in Workers |-> {}] /\ lost = 0
MCNext == Next /\ Observe
MCSpec == MCInit /\ [][MCNext]_MCvars

Symmetry == Permutations(Users) \cup Permutations(Workers) \cup Permutations(Pids)

-----------------------------------------------------------------------------
\* The counter and the graph move together: each accepted create-Person
\* proposal is counted once, by the Accept that applied it, however many
\* Accepts, Rejects and Withdraws of it race; a crash or an error between the
\* two loses that one count and no other.
CountExact ==
    /\ persons = Cardinality(AcceptedPersons)
    /\ persons = count + Cardinality(Counting) + lost

\* What the check before Accept gives: each other Accept in flight, and each
\* lost count, can exceed the cap by one, no more.
PersonOvershoot ==
    MaxPersons # 0 =>
        persons + Cardinality(Applying) <= MaxPersons + (Cardinality(Workers) - 1) + lost

\* A change of a proposal is a step of a request at its transaction, whose
\* subject had the role the RPC asks for, and for a creation or a submission was
\* not banned, at some moment of that request.
AuthorizedChange ==
    \A p \in Pids : state'[p] # state[p] =>
        \E w \in Workers :
           /\ At(w, "apply")
           /\ job'[w] # job[w]
           /\ "role" \in seen[w]
           /\ requiresProposalSubmission(job[w].op) => "clear" \in seen[w]

\* A proposal changes only that way.  Once a ban or a revocation is in place,
\* the requests that come after it have no effect.
OnlyAuthorizedChange == [][AuthorizedChange]_MCvars
=============================================================================
