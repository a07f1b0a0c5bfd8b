------------------------------ MODULE Mappers ------------------------------
(***************************************************************************)
(* The enumeration tables of internal/service/mappers.go that decide what  *)
(* a request does or shows: proposal states, actions and entity kinds      *)
(* between the API (upper case) and Linea-core's model.  Either side's     *)
(* zero value, Unspecified, is what an unknown value becomes.              *)
(***************************************************************************)

Unspecified == "0"

ProposalState ==
    {Unspecified, "DRAFT", "SUBMITTED", "UNDER_REVIEW", "ACCEPTED", "REJECTED",
     "WITHDRAWN", "unknown"}
ProposalAction ==
    {Unspecified, "CREATE", "UPDATE", "RETRACT", "MERGE", "SAME_AS_LINK", "unknown"}
EntityKind == {Unspecified, "PERSON", "RELATIONSHIP", "SOURCE", "unknown"}

\* The rows of the switch statements: the API's value, then Linea-core's,
\* and for a state also the way back.
stateRows ==
    [DRAFT |-> "Draft", SUBMITTED |-> "Submitted", UNDER_REVIEW |-> "UnderReview",
     ACCEPTED |-> "Accepted", REJECTED |-> "Rejected", WITHDRAWN |-> "Withdrawn"]
stateRowsBack ==
    [Draft |-> "DRAFT", Submitted |-> "SUBMITTED", UnderReview |-> "UNDER_REVIEW",
     Accepted |-> "ACCEPTED", Rejected |-> "REJECTED", Withdrawn |-> "WITHDRAWN"]
actionRows ==
    [CREATE |-> "Create", UPDATE |-> "Update", RETRACT |-> "Retract", MERGE |-> "Merge",
     SAME_AS_LINK |-> "SameAsLink"]
entityRows ==
    [PERSON |-> "Person", RELATIONSHIP |-> "Relationship", SOURCE |-> "Source"]

Mapped(table, v) == IF v \in DOMAIN table THEN table[v] ELSE Unspecified

proposalStateToProto(s) == Mapped(stateRowsBack, s)

\* Mutant: a state is missing from the switch.
proposalStateFromProto_NoReview(s) ==
    IF s = "UNDER_REVIEW" THEN Unspecified ELSE Mapped(stateRows, s)

proposalStateFromProto(s) == Mapped(stateRows, s)

actionFromProto(a) == Mapped(actionRows, a)
entityKindFromProto(k) == Mapped(entityRows, k)
=============================================================================
