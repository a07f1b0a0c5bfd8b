-------------------------------- MODULE Api --------------------------------
(***************************************************************************)
(* The surface of the server: the REST routes of the grpc-gateway and the  *)
(* gRPC services behind them (gen/go/linea/v1).  Everything here is a pure *)
(* operator: which RPC an HTTP request names, which message it becomes,    *)
(* and which method of which service that message reaches.                 *)
(*                                                                         *)
(* A message is a function from the fields of its type to values; the      *)
(* value "" is proto3's default.  A full method name "/service/method" is  *)
(* the pair of its parts.  An HTTP request is a record: the method, the    *)
(* components of the path, the ":verb" at its end ("" when there is none)  *)
(* and the last component with that verb still on it (whole),              *)
(* the fields that the body and the query string set, and whether body or  *)
(* query fail to parse (HttpRequest below).                                *)
(***************************************************************************)
EXTENDS Naturals, Sequences, FiniteSets

-----------------------------------------------------------------------------
(* The request messages.  The field id of the per-genealogy services is a  *)
(* message with one field (id.value); it is one value here.                *)

GetPersonRequest == {"genealogy_id", "id"}
ListPersonsRequest == {"genealogy_id", "page_size", "page_token"}
GetRelationshipRequest == {"genealogy_id", "id"}
ListRelationshipsRequest == {"genealogy_id", "page_size", "page_token"}
GetSourceRequest == {"genealogy_id", "id"}
ListSourcesRequest == {"genealogy_id", "page_size", "page_token"}
CreateGenealogyRequest == {"name", "visibility"}
ListGenealogiesRequest == {"page_size", "page_token"}
GetGenealogyRequest == {"id"}
UpdateVisibilityRequest == {"id", "visibility"}
DeleteGenealogyRequest == {"id"}
UpsertMembershipRequest == {"genealogy_id", "subject", "role"}
RemoveMemberRequest == {"genealogy_id", "subject"}
LeaveGenealogyRequest == {"id"}
BanUserRequest == {"genealogy_id", "subject", "reason"}
UnbanUserRequest == {"genealogy_id", "subject"}
ListMembersRequest == {"genealogy_id", "page_size", "page_token"}
GetProposalRequest == {"genealogy_id", "id"}
ListProposalsRequest == {"genealogy_id", "page_size", "page_token", "state_filter"}
CreateProposalRequest == {"genealogy_id", "action", "entity_kind", "target_id",
                          "secondary_id", "payload", "reason", "sources"}
TransitionRequest == {"genealogy_id", "id", "reason"}
BulkRejectRequest == {"genealogy_id", "ids", "reason"}
FindPathsRequest == {"genealogy_id", "from", "to", "max_depth", "max_paths",
                     "include_affinal"}
NKCARequest == {"genealogy_id", "a", "b"}
VersionRequest == {}

\* The fields some request message has.
Fields == {"genealogy_id", "id", "subject", "role", "reason", "name", "visibility",
           "page_size", "page_token", "state_filter", "action", "entity_kind",
           "target_id", "secondary_id", "payload", "sources", "ids", "from", "to",
           "max_depth", "max_paths", "include_affinal", "a", "b"}

\* proto3's default, and the end of a path without a verb.
Unset == ""
NoVerb == ""
NoFields == [f \in Fields |-> Unset]

-----------------------------------------------------------------------------
(* Full method names, client stubs, server handlers and descriptors.  A    *)
(* stub invokes the method of its own name; a handler decodes the message, *)
(* tells the interceptors the full method and calls the service method it  *)
(* is named after.                                                         *)
Methods(service, names) == [n \in names |-> <<service, n>>]

Server_FullMethodNames == Methods("linea.v1.Server", {"Version"})
Persons_FullMethodNames == Methods("linea.v1.Persons", {"GetPerson",
    "ListPersons"})
Relationships_FullMethodNames == Methods("linea.v1.Relationships", {
    "GetRelationship", "ListRelationships"})
Sources_FullMethodNames == Methods("linea.v1.Sources", {"GetSource",
    "ListSources"})
Proposals_FullMethodNames == Methods("linea.v1.Proposals", {"GetProposal",
    "ListProposals", "CreateProposal", "Submit", "Claim", "Accept", "Reject",
    "Withdraw", "BulkReject"})
Queries_FullMethodNames == Methods("linea.v1.Queries", {"FindPaths", "NKCA"})
Genealogies_FullMethodNames == Methods("linea.v1.Genealogies", {
    "CreateGenealogy", "ListGenealogies", "GetGenealogy", "UpdateVisibility",
    "DeleteGenealogy", "UpsertMembership", "RemoveMember", "LeaveGenealogy",
    "BanUser", "UnbanUser", "ListMembers"})

serverClient == [n \in DOMAIN Server_FullMethodNames |-> Server_FullMethodNames[n]]
personsClient == [n \in DOMAIN Persons_FullMethodNames |-> Persons_FullMethodNames[n]]
relationshipsClient == [n \in DOMAIN Relationships_FullMethodNames |-> Relationships_FullMethodNames[n]]
sourcesClient == [n \in DOMAIN Sources_FullMethodNames |-> Sources_FullMethodNames[n]]
proposalsClient == [n \in DOMAIN Proposals_FullMethodNames |-> Proposals_FullMethodNames[n]]
queriesClient == [n \in DOMAIN Queries_FullMethodNames |-> Queries_FullMethodNames[n]]
genealogiesClient == [n \in DOMAIN Genealogies_FullMethodNames |-> Genealogies_FullMethodNames[n]]

Handlers(names, in) == [n \in DOMAIN names |-> [full |-> names[n], serves |-> n, in |-> in[n]]]
Server_Handler == Handlers(Server_FullMethodNames, [
    Version |-> VersionRequest])
Persons_Handler == Handlers(Persons_FullMethodNames, [
    GetPerson |-> GetPersonRequest, ListPersons |-> ListPersonsRequest])
Relationships_Handler == Handlers(Relationships_FullMethodNames, [
    GetRelationship |-> GetRelationshipRequest,
    ListRelationships |-> ListRelationshipsRequest])
Sources_Handler == Handlers(Sources_FullMethodNames, [
    GetSource |-> GetSourceRequest, ListSources |-> ListSourcesRequest])
Proposals_Handler == Handlers(Proposals_FullMethodNames, [
    GetProposal |-> GetProposalRequest, ListProposals |-> ListProposalsRequest,
    CreateProposal |-> CreateProposalRequest, Submit |-> TransitionRequest,
    Claim |-> TransitionRequest, Accept |-> TransitionRequest, Reject |-> TransitionRequest,
    Withdraw |-> TransitionRequest, BulkReject |-> BulkRejectRequest])
Queries_Handler == Handlers(Queries_FullMethodNames, [
    FindPaths |-> FindPathsRequest, NKCA |-> NKCARequest])
Genealogies_Handler == Handlers(Genealogies_FullMethodNames, [
    CreateGenealogy |-> CreateGenealogyRequest, ListGenealogies |-> ListGenealogiesRequest,
    GetGenealogy |-> GetGenealogyRequest, UpdateVisibility |-> UpdateVisibilityRequest,
    DeleteGenealogy |-> DeleteGenealogyRequest,
    UpsertMembership |-> UpsertMembershipRequest, RemoveMember |-> RemoveMemberRequest,
    LeaveGenealogy |-> LeaveGenealogyRequest, BanUser |-> BanUserRequest,
    UnbanUser |-> UnbanUserRequest, ListMembers |-> ListMembersRequest])

Server_ServiceDesc == [name |-> "linea.v1.Server", methods |-> Server_Handler]
Persons_ServiceDesc == [name |-> "linea.v1.Persons", methods |-> Persons_Handler]
Relationships_ServiceDesc == [name |-> "linea.v1.Relationships", methods |-> Relationships_Handler]
Sources_ServiceDesc == [name |-> "linea.v1.Sources", methods |-> Sources_Handler]
Proposals_ServiceDesc == [name |-> "linea.v1.Proposals", methods |-> Proposals_Handler]
Queries_ServiceDesc == [name |-> "linea.v1.Queries", methods |-> Queries_Handler]
Genealogies_ServiceDesc == [name |-> "linea.v1.Genealogies", methods |-> Genealogies_Handler]

\* server.registerServices: what grpc.Server knows after start.
registerServices ==
    {Server_ServiceDesc, Persons_ServiceDesc, Relationships_ServiceDesc,
     Sources_ServiceDesc, Proposals_ServiceDesc, Queries_ServiceDesc,
     Genealogies_ServiceDesc}

\* The handler grpc.Server finds for a full method name, as a set: empty when
\* the service or the method is not registered (Unimplemented).
Lookup(full) ==
    {d.methods[full[2]] : d \in {e \in registerServices :
        e.name = full[1] /\ full[2] \in DOMAIN e.methods}}

\* The type of message that handler decodes, as a set.
Decodes(full) == {d.in : d \in Lookup(full)}

\* Every registered full method.
Served == UNION {{<<d.name, n>> : n \in DOMAIN d.methods} : d \in registerServices}

-----------------------------------------------------------------------------
(* The gateway.  A request_* function builds the message and calls the     *)
(* stub: from the path alone, from the query string and the path, or from  *)
(* the body and the path.  The fields bound in the path are read from the  *)
(* path only: the query filter excludes them, and the body is decoded      *)
(* before they are set.                                                    *)
Lit(s) == [var |-> FALSE, name |-> s]
Var(f) == [var |-> TRUE, name |-> f]
Pattern(segs, verb) == [segs |-> segs, verb |-> verb]

\* Mutant: the body is decoded after the path parameters are set.
Message_BodyLast(type, bound, path, rest) ==
    [f \in type |-> IF f \in bound /\ rest[f] = Unset THEN path[f] ELSE rest[f]]

Message(type, bound, path, rest) ==
    [f \in type |-> IF f \in bound THEN path[f] ELSE rest[f]]
Invoke(full, bound, path, parses, msg) ==
    IF parses /\ bound \subseteq DOMAIN path
    THEN [full |-> full, code |-> "OK", msg |-> msg]
    ELSE [full |-> full, code |-> "InvalidArgument", msg |-> NoFields]

FromPath(full, type, bound, h, path) ==
    Invoke(full, bound, path, TRUE, Message(type, bound, path, NoFields))
FromQuery(full, type, bound, h, path) ==
    Invoke(full, bound, path, h.queryParses, Message(type, bound, path, h.query))
FromBody(full, type, bound, h, path) ==
    Invoke(full, bound, path, h.bodyParses, Message(type, bound, path, h.body))

request_Server_Version_0(h, path) ==
    FromPath(serverClient.Version, VersionRequest, {}, h, path)
request_Persons_GetPerson_0(h, path) ==
    FromQuery(personsClient.GetPerson, GetPersonRequest, {"genealogy_id", "id"}, h, path)
request_Persons_ListPersons_0(h, path) ==
    FromQuery(personsClient.ListPersons, ListPersonsRequest, {"genealogy_id"}, h, path)
request_Relationships_GetRelationship_0(h, path) ==
    FromQuery(relationshipsClient.GetRelationship, GetRelationshipRequest, {"genealogy_id", "id"}, h, path)
request_Relationships_ListRelationships_0(h, path) ==
    FromQuery(relationshipsClient.ListRelationships, ListRelationshipsRequest, {"genealogy_id"}, h, path)
request_Sources_GetSource_0(h, path) ==
    FromQuery(sourcesClient.GetSource, GetSourceRequest, {"genealogy_id", "id"}, h, path)
request_Sources_ListSources_0(h, path) ==
    FromQuery(sourcesClient.ListSources, ListSourcesRequest, {"genealogy_id"}, h, path)
request_Proposals_GetProposal_0(h, path) ==
    FromQuery(proposalsClient.GetProposal, GetProposalRequest, {"genealogy_id", "id"}, h, path)
request_Proposals_ListProposals_0(h, path) ==
    FromQuery(proposalsClient.ListProposals, ListProposalsRequest, {"genealogy_id"}, h, path)
request_Proposals_CreateProposal_0(h, path) ==
    FromBody(proposalsClient.CreateProposal, CreateProposalRequest, {"genealogy_id"}, h, path)
request_Proposals_Submit_0(h, path) ==
    FromBody(proposalsClient.Submit, TransitionRequest, {"genealogy_id", "id"}, h, path)
request_Proposals_Claim_0(h, path) ==
    FromBody(proposalsClient.Claim, TransitionRequest, {"genealogy_id", "id"}, h, path)
request_Proposals_Accept_0(h, path) ==
    FromBody(proposalsClient.Accept, TransitionRequest, {"genealogy_id", "id"}, h, path)
request_Proposals_Reject_0(h, path) ==
    FromBody(proposalsClient.Reject, TransitionRequest, {"genealogy_id", "id"}, h, path)
request_Proposals_Withdraw_0(h, path) ==
    FromBody(proposalsClient.Withdraw, TransitionRequest, {"genealogy_id", "id"}, h, path)
\* Mutant: the message of the transitions instead of BulkReject's own.
request_Proposals_BulkReject_0_Transition(h, path) ==
    FromBody(proposalsClient.BulkReject, TransitionRequest, {"genealogy_id"}, h, path)
request_Proposals_BulkReject_0(h, path) ==
    FromBody(proposalsClient.BulkReject, BulkRejectRequest, {"genealogy_id"}, h, path)
request_Queries_FindPaths_0(h, path) ==
    FromBody(queriesClient.FindPaths, FindPathsRequest, {"genealogy_id"}, h, path)
request_Queries_NKCA_0(h, path) ==
    FromBody(queriesClient.NKCA, NKCARequest, {"genealogy_id"}, h, path)
request_Genealogies_CreateGenealogy_0(h, path) ==
    FromBody(genealogiesClient.CreateGenealogy, CreateGenealogyRequest, {}, h, path)
request_Genealogies_ListGenealogies_0(h, path) ==
    FromQuery(genealogiesClient.ListGenealogies, ListGenealogiesRequest, {}, h, path)
request_Genealogies_GetGenealogy_0(h, path) ==
    FromPath(genealogiesClient.GetGenealogy, GetGenealogyRequest, {"id"}, h, path)
request_Genealogies_UpdateVisibility_0(h, path) ==
    FromBody(genealogiesClient.UpdateVisibility, UpdateVisibilityRequest, {"id"}, h, path)
request_Genealogies_DeleteGenealogy_0(h, path) ==
    FromPath(genealogiesClient.DeleteGenealogy, DeleteGenealogyRequest, {"id"}, h, path)
request_Genealogies_UpsertMembership_0(h, path) ==
    FromBody(genealogiesClient.UpsertMembership, UpsertMembershipRequest, {"genealogy_id", "subject"}, h, path)
request_Genealogies_RemoveMember_0(h, path) ==
    FromPath(genealogiesClient.RemoveMember, RemoveMemberRequest, {"genealogy_id", "subject"}, h, path)
request_Genealogies_LeaveGenealogy_0(h, path) ==
    FromBody(genealogiesClient.LeaveGenealogy, LeaveGenealogyRequest, {"id"}, h, path)
request_Genealogies_BanUser_0(h, path) ==
    FromBody(genealogiesClient.BanUser, BanUserRequest, {"genealogy_id", "subject"}, h, path)
request_Genealogies_UnbanUser_0(h, path) ==
    FromPath(genealogiesClient.UnbanUser, UnbanUserRequest, {"genealogy_id", "subject"}, h, path)
request_Genealogies_ListMembers_0(h, path) ==
    FromQuery(genealogiesClient.ListMembers, ListMembersRequest, {"genealogy_id"}, h, path)

\* The path of a collection inside a genealogy and of an item of it, then of
\* an aspect of a genealogy and of a user's place in one.
Inside(kind) == <<Lit("v1"), Lit("g"), Var("genealogy_id"), Lit(kind)>>
Item(kind) == <<Lit("v1"), Lit("g"), Var("genealogy_id"), Lit(kind), Var("id")>>
Of(field, kind) == <<Lit("v1"), Lit("genealogies"), Var(field), Lit(kind)>>
Place(kind) ==
    <<Lit("v1"), Lit("genealogies"), Var("genealogy_id"), Lit(kind), Var("subject")>>

pattern_Server == [
    Version |-> Pattern(<<Lit("v1"), Lit("version")>>, NoVerb)]
pattern_Persons == [
    GetPerson |-> Pattern(Item("persons"), NoVerb),
    ListPersons |-> Pattern(Inside("persons"), NoVerb)]
pattern_Relationships == [
    GetRelationship |-> Pattern(Item("relationships"), NoVerb),
    ListRelationships |-> Pattern(Inside("relationships"), NoVerb)]
pattern_Sources == [
    GetSource |-> Pattern(Item("sources"), NoVerb),
    ListSources |-> Pattern(Inside("sources"), NoVerb)]
pattern_Proposals == [
    GetProposal |-> Pattern(Item("proposals"), NoVerb),
    ListProposals |-> Pattern(Inside("proposals"), NoVerb),
    CreateProposal |-> Pattern(Inside("proposals"), NoVerb),
    Submit |-> Pattern(Item("proposals"), "submit"),
    Claim |-> Pattern(Item("proposals"), "claim"),
    Accept |-> Pattern(Item("proposals"), "accept"),
    Reject |-> Pattern(Item("proposals"), "reject"),
    Withdraw |-> Pattern(Item("proposals"), "withdraw"),
    BulkReject |-> Pattern(Inside("proposals"), "bulkReject")]
pattern_Queries == [
    FindPaths |-> Pattern(Inside("queries"), "findPaths"),
    NKCA |-> Pattern(Inside("queries"), "nkca")]
pattern_Genealogies == [
    CreateGenealogy |-> Pattern(<<Lit("v1"), Lit("genealogies")>>, NoVerb),
    ListGenealogies |-> Pattern(<<Lit("v1"), Lit("genealogies")>>, NoVerb),
    GetGenealogy |-> Pattern(<<Lit("v1"), Lit("genealogies"), Var("id")>>, NoVerb),
    UpdateVisibility |-> Pattern(Of("id", "visibility"), NoVerb),
    DeleteGenealogy |-> Pattern(<<Lit("v1"), Lit("genealogies"), Var("id")>>, NoVerb),
    UpsertMembership |-> Pattern(Place("members"), NoVerb),
    RemoveMember |-> Pattern(Place("members"), NoVerb),
    LeaveGenealogy |-> Pattern(Of("id", "leave"), NoVerb),
    BanUser |-> Pattern(Place("bans"), NoVerb),
    UnbanUser |-> Pattern(Place("bans"), NoVerb),
    ListMembers |-> Pattern(Of("genealogy_id", "members"), NoVerb)]

\* The fixed components of the routes.  A last component with its ":verb" on
\* it holds a colon and is none of them.
Literals == {"v1", "version", "g", "genealogies", "persons", "relationships", "sources",
             "proposals", "queries", "visibility", "members", "leave", "bans"}
HttpRequest ==
    {h \in [method : STRING, segs : Seq(STRING), verb : STRING, whole : STRING,
            body : [Fields -> STRING], query : [Fields -> STRING],
            bodyParses : BOOLEAN, queryParses : BOOLEAN] :
        h.segs # <<>> /\ (h.verb # NoVerb => h.whole \notin Literals)}

\* runtime.ServeMux.  A pattern with a verb needs that verb at the end of the
\* path; a pattern without one takes the whole last component.
Component(p, h, i) ==
    IF i = Len(h.segs) /\ h.verb # NoVerb /\ p.verb = NoVerb THEN h.whole ELSE h.segs[i]
Matches(p, h) ==
    /\ Len(p.segs) = Len(h.segs)
    /\ p.verb \in {NoVerb, h.verb}
    /\ \A i \in DOMAIN p.segs : p.segs[i].var \/ p.segs[i].name = Component(p, h, i)
PathParams(p, h) ==
    LET at == {i \in DOMAIN p.segs : p.segs[i].var}
    IN  [f \in {p.segs[i].name : i \in at} |->
            Component(p, h, CHOOSE i \in at : p.segs[i].name = f)]
Handle(h, method, p, request(_, _)) ==
    IF h.method = method /\ Matches(p, h) THEN {request(h, PathParams(p, h))} ELSE {}

\* The calls that the registered routes make of a request.

RegisterServerHandlerClient(h) ==
    Handle(h, "GET", pattern_Server.Version, request_Server_Version_0)
RegisterPersonsHandlerClient(h) ==
    UNION {Handle(h, "GET", pattern_Persons.GetPerson, request_Persons_GetPerson_0),
           Handle(h, "GET", pattern_Persons.ListPersons, request_Persons_ListPersons_0)}
RegisterRelationshipsHandlerClient(h) ==
    UNION {Handle(h, "GET", pattern_Relationships.GetRelationship, request_Relationships_GetRelationship_0),
           Handle(h, "GET", pattern_Relationships.ListRelationships, request_Relationships_ListRelationships_0)}
RegisterSourcesHandlerClient(h) ==
    UNION {Handle(h, "GET", pattern_Sources.GetSource, request_Sources_GetSource_0),
           Handle(h, "GET", pattern_Sources.ListSources, request_Sources_ListSources_0)}
RegisterProposalsHandlerClient(h) ==
    UNION {Handle(h, "GET", pattern_Proposals.GetProposal, request_Proposals_GetProposal_0),
           Handle(h, "GET", pattern_Proposals.ListProposals, request_Proposals_ListProposals_0),
           Handle(h, "POST", pattern_Proposals.CreateProposal, request_Proposals_CreateProposal_0),
           Handle(h, "POST", pattern_Proposals.Submit, request_Proposals_Submit_0),
           Handle(h, "POST", pattern_Proposals.Claim, request_Proposals_Claim_0),
           Handle(h, "POST", pattern_Proposals.Accept, request_Proposals_Accept_0),
           Handle(h, "POST", pattern_Proposals.Reject, request_Proposals_Reject_0),
           Handle(h, "POST", pattern_Proposals.Withdraw, request_Proposals_Withdraw_0),
           Handle(h, "POST", pattern_Proposals.BulkReject, request_Proposals_BulkReject_0)}
RegisterQueriesHandlerClient(h) ==
    UNION {Handle(h, "POST", pattern_Queries.FindPaths, request_Queries_FindPaths_0),
           Handle(h, "POST", pattern_Queries.NKCA, request_Queries_NKCA_0)}
RegisterGenealogiesHandlerClient(h) ==
    UNION {Handle(h, "POST", pattern_Genealogies.CreateGenealogy, request_Genealogies_CreateGenealogy_0),
           Handle(h, "GET", pattern_Genealogies.ListGenealogies, request_Genealogies_ListGenealogies_0),
           Handle(h, "GET", pattern_Genealogies.GetGenealogy, request_Genealogies_GetGenealogy_0),
           Handle(h, "PATCH", pattern_Genealogies.UpdateVisibility, request_Genealogies_UpdateVisibility_0),
           Handle(h, "DELETE", pattern_Genealogies.DeleteGenealogy, request_Genealogies_DeleteGenealogy_0),
           Handle(h, "PUT", pattern_Genealogies.UpsertMembership, request_Genealogies_UpsertMembership_0),
           Handle(h, "DELETE", pattern_Genealogies.RemoveMember, request_Genealogies_RemoveMember_0),
           Handle(h, "POST", pattern_Genealogies.LeaveGenealogy, request_Genealogies_LeaveGenealogy_0),
           Handle(h, "PUT", pattern_Genealogies.BanUser, request_Genealogies_BanUser_0),
           Handle(h, "DELETE", pattern_Genealogies.UnbanUser, request_Genealogies_UnbanUser_0),
           Handle(h, "GET", pattern_Genealogies.ListMembers, request_Genealogies_ListMembers_0)}

\* server.registerHandlers
registerHandlers(h) ==
    UNION {RegisterServerHandlerClient(h), RegisterPersonsHandlerClient(h),
           RegisterRelationshipsHandlerClient(h), RegisterSourcesHandlerClient(h),
           RegisterProposalsHandlerClient(h), RegisterQueriesHandlerClient(h),
           RegisterGenealogiesHandlerClient(h)}
=============================================================================
