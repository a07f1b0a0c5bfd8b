---------------------------- MODULE RequestPath ----------------------------
(***************************************************************************)
(* The path of one request through the server: the gateway turns it into a *)
(* gRPC call (or it is a gRPC call already), the interceptors Auth,        *)
(* RateLimit and Role pass it on or refuse it in that order, the service   *)
(* method checks the caller's role in the genealogy it looks up, and the   *)
(* Error interceptor gives the method's error a status code.               *)
(*                                                                         *)
(* Requests share nothing on this path but the limiter (RateLimit) and the *)
(* platform store (Genealogies): here the limiter's answer and the         *)
(* caller's standing in the genealogy are free, and requests come one      *)
(* after another.                                                          *)
(***************************************************************************)
EXTENDS Api, Auth

CONSTANTS Envs,          \* environments the process may be started in
          HttpRequests,  \* requests that clients send to the REST port
          GrpcCalls,     \* calls that clients send to the gRPC port
          Tokens         \* bearer tokens, NoToken among them

\* The lists of the configuration are lists of strings; net/http and grpc-go
\* hand over well-formed requests and pairs of a service and a method, with a
\* message that the method's handler can decode; a request may come without a
\* token.
ASSUME EnvsAssumption ==
    \A e \in Envs : e.issuers \in Seq(STRING) /\ e.audiences \in Seq(STRING)
ASSUME RequestsAssumption ==
    /\ HttpRequests \subseteq HttpRequest
    /\ \A c \in GrpcCalls :
          c.full \in STRING \X STRING /\ (c.full \in Served => Decodes(c.full) = {DOMAIN c.msg})
ASSUME TokensAssumption == NoToken \in Tokens

VARIABLES env, stage, rpc
vars == <<env, stage, rpc>>

\* What the server remembers of a request: the URL it came by (segs <<>> on
\* the gRPC port) and the number of routes that claim it, then the call.
NoStanding == [vis |-> "none", role |-> RoleNone, banned |-> FALSE]
NoMessage == [f \in {} |-> Unset]
Idle == [segs |-> <<>>, whole |-> Unset, routes |-> 0, token |-> NoToken, full |-> <<>>,
         msg |-> NoMessage,
         ident |-> NoIdentity, key |-> <<>>, gid |-> Unset, standing |-> NoStanding,
         reached |-> FALSE, err |-> "ok", code |-> "none"]

-----------------------------------------------------------------------------
(* Roles in a genealogy (internal/platform, internal/authz) *)

RoleOwner == 4

\* The caller's standing in the genealogy that the handler looks up.
Standing ==
    {[vis |-> "absent", role |-> RoleNone, banned |-> FALSE]} \cup
    [vis : {"private", "unlisted", "public"}, role : RoleNone..RoleOwner,
     banned : BOOLEAN]

implicitRole(vis, authenticated) ==
    CASE vis = "public" -> IF authenticated THEN RoleContributor ELSE RoleViewer
      [] vis = "unlisted" -> IF authenticated THEN RoleContributor ELSE RoleNone
      [] OTHER -> RoleNone

\* authz.Resolver.Resolve; RoleNone stands for ErrNotAllowed.
Resolve(subject, gid, s) ==
    IF gid = Unset \/ s.vis = "absent" THEN RoleNone
    ELSE IF subject # <<>> /\ s.role # RoleNone THEN s.role
    ELSE implicitRole(s.vis, subject # <<>>)

-----------------------------------------------------------------------------
(* The service methods, as the gate each one passes first and the errors   *)
(* it may return after it: Linea-core codes, or "plain" for any other      *)
(* error (a store that cannot be opened or read).                          *)

mapAuthzError == "CodePersonNotFound"

\* Mutant: the role that the method asks for is not compared.
resolveStore_AnyRole(m, subject, gid, s) ==
    IF gid = Unset THEN "CodeInvalidArgument"
    ELSE IF Resolve(subject, gid, s) = RoleNone THEN "CodePersonNotFound"
    ELSE IF m.ban /\ subject # <<>> /\ s.banned THEN "CodeInvalidArgument"
    ELSE "ok"

resolveStore(m, subject, gid, s) ==
    IF gid = Unset THEN "CodeInvalidArgument"
    ELSE IF Resolve(subject, gid, s) = RoleNone THEN "CodePersonNotFound"
    ELSE IF Resolve(subject, gid, s) < m.min THEN "CodeInvalidArgument"
    ELSE IF m.ban /\ subject # <<>> /\ s.banned THEN "CodeInvalidArgument"
    ELSE "ok"

\* Mutant: "insufficient role" is the answer to a caller with no role at all.
requireRole_Leaks(m, subject, gid, s) ==
    IF gid = Unset \/ s.vis = "absent" THEN "CodePersonNotFound"
    ELSE IF Resolve(subject, gid, s) <= m.min THEN "CodeInvalidArgument"
    ELSE "ok"

requireRole(m, subject, gid, s) ==
    IF Resolve(subject, gid, s) = RoleNone THEN mapAuthzError
    ELSE IF Resolve(subject, gid, s) < m.min THEN "CodeInvalidArgument"
    ELSE "ok"

\* "authentication required" of CreateGenealogy and LeaveGenealogy.
requireSubject(subject) == IF subject = <<>> THEN "CodeInvalidArgument" ELSE "ok"

Store(min, ban, errs) ==
    [gate |-> "resolveStore", field |-> "genealogy_id", min |-> min, ban |-> ban,
     errs |-> errs \cup {"plain"}]
Role(field, min, errs) ==
    [gate |-> "requireRole", field |-> field, min |-> min, ban |-> FALSE,
     errs |-> errs \cup {"plain"}]
Open(gate, field, errs) ==
    [gate |-> gate, field |-> field, min |-> RoleNone, ban |-> FALSE, errs |-> errs]

idErrs == {"CodeInvalidArgument"}
acceptErrs == idErrs \cup {"CodeProposalNotFound", "CodeInvalidTransition",
    "CodeImmutableTerminalProposal", "CodeCycleDetected",
    "CodeForbiddenRelationship", "CodeFabricationAttempt"}
transitionErrs == idErrs \cup {"CodeProposalNotFound", "CodeInvalidTransition",
    "CodeImmutableTerminalProposal"}

ServerService == [Version |-> Open("none", Unset, {})]
PersonsService ==
    [GetPerson |-> Store(RoleViewer, FALSE, idErrs \cup {"CodePersonNotFound"}),
     ListPersons |-> Store(RoleViewer, FALSE, {})]
RelationshipsService ==
    [GetRelationship |-> Store(RoleViewer, FALSE, idErrs \cup {"CodeRelationshipNotFound"}),
     ListRelationships |-> Store(RoleViewer, FALSE, {})]
SourcesService ==
    [GetSource |-> Store(RoleViewer, FALSE, idErrs \cup {"CodeSourceNotFound"}),
     ListSources |-> Store(RoleViewer, FALSE, {})]
QueriesService ==
    [FindPaths |-> Store(RoleViewer, FALSE,
                         idErrs \cup {"CodePersonNotFound", "CodeNoKnownConnection"}),
     NKCA |-> Store(RoleViewer, FALSE,
                    idErrs \cup {"CodePersonNotFound", "CodeNoKnownConnection"})]
ProposalsService ==
    [GetProposal |-> Store(RoleViewer, FALSE, idErrs \cup {"CodeProposalNotFound"}),
     ListProposals |-> Store(RoleViewer, FALSE, {}),
     CreateProposal |-> Store(RoleContributor, TRUE, idErrs),
     Submit |-> Store(RoleContributor, TRUE, transitionErrs),
     Withdraw |-> Store(RoleContributor, FALSE, transitionErrs),
     Claim |-> Store(RoleCurator, FALSE, transitionErrs),
     Accept |-> Store(RoleCurator, FALSE, acceptErrs),
     Reject |-> Store(RoleCurator, FALSE, transitionErrs),
     BulkReject |-> Store(RoleCurator, FALSE, {})]
GenealogiesService ==
    [CreateGenealogy |-> Open("requireSubject", Unset, {"CodeInvalidArgument", "plain"}),
     ListGenealogies |-> Open("none", Unset, {"plain"}),
     GetGenealogy |-> Role("id", RoleNone, {}),
     UpdateVisibility |-> Role("id", RoleOwner, {"CodeInvalidArgument"}),
     DeleteGenealogy |-> Role("id", RoleOwner, {}),
     UpsertMembership |-> Role("genealogy_id", RoleCurator, {"CodeInvalidArgument"}),
     RemoveMember |-> Role("genealogy_id", RoleCurator, {"CodeInvalidArgument"}),
     LeaveGenealogy |-> Open("leave", "id", {"CodeInvalidArgument", "plain"}),
     BanUser |-> Role("genealogy_id", RoleCurator, {}),
     UnbanUser |-> Role("genealogy_id", RoleCurator, {}),
     ListMembers |-> Role("genealogy_id", RoleViewer, {})]

\* The implementation that registerServices binds to each descriptor.
Implementation(service) ==
    CASE service = "linea.v1.Server" -> ServerService
      [] service = "linea.v1.Persons" -> PersonsService
      [] service = "linea.v1.Relationships" -> RelationshipsService
      [] service = "linea.v1.Sources" -> SourcesService
      [] service = "linea.v1.Queries" -> QueriesService
      [] service = "linea.v1.Proposals" -> ProposalsService
      [] service = "linea.v1.Genealogies" -> GenealogiesService
Method(full) == Implementation(full[1])[full[2]]

Gate(m, subject, gid, s) ==
    CASE m.gate = "resolveStore" -> resolveStore(m, subject, gid, s)
      [] m.gate = "requireRole" -> requireRole(m, subject, gid, s)
      [] m.gate \in {"requireSubject", "leave"} -> requireSubject(subject)
      [] OTHER -> "ok"

\* How a method may end once its gate has answered.  A platform error in a
\* gate is plain; leaving a genealogy one is no member of does nothing.
Ends(m, gate, s) ==
    LET broken == IF m.gate \in {"resolveStore", "requireRole"} THEN {"plain"} ELSE {}
    IN  IF gate # "ok" THEN {gate} \cup broken
        ELSE IF m.gate = "leave" /\ s.role = RoleNone THEN {"ok", "plain"}
        ELSE {"ok"} \cup m.errs

-----------------------------------------------------------------------------
(* server.New's tables *)

noAuth == {<<"linea.v1.Server", "Version">>}

Named(service, names) == {<<service, n>> : n \in names}

buildLegacyRoleMap ==
    LET viewer == UNION {
            Named("linea.v1.Persons", {"GetPerson", "ListPersons"}),
            Named("linea.v1.Relationships", {"GetRelationship", "ListRelationships"}),
            Named("linea.v1.Sources", {"GetSource", "ListSources"}),
            Named("linea.v1.Queries", {"FindPaths", "NKCA"}),
            Named("linea.v1.Proposals", {"GetProposal", "ListProposals"}),
            Named("linea.v1.Genealogies", {"ListGenealogies", "GetGenealogy", "ListMembers",
                "CreateGenealogy", "LeaveGenealogy", "UpdateVisibility", "DeleteGenealogy",
                "UpsertMembership", "RemoveMember", "BanUser", "UnbanUser"})}
        contributor == Named("linea.v1.Proposals",
            {"CreateProposal", "Submit", "Withdraw", "Claim", "Accept", "Reject"})
    IN  [f \in viewer \cup contributor |->
            IF f \in viewer THEN RoleViewer ELSE RoleContributor]

\* interceptors.codeFor; an error that is not Linea-core's has no code.
codeFor(c) ==
    CASE c = "CodeNoKnownConnection" -> "NotFound"
      [] c \in {"CodePersonNotFound", "CodeRelationshipNotFound", "CodeSourceNotFound",
                "CodeProposalNotFound", "CodeVersionNotFound"} -> "NotFound"
      [] c \in {"CodeInvalidArgument", "CodeForbiddenRelationship"} -> "InvalidArgument"
      [] c \in {"CodeInvalidTransition", "CodeImmutableTerminalProposal",
                "CodeCycleDetected", "CodeFabricationAttempt"} -> "FailedPrecondition"
      [] OTHER -> "Unknown"

-----------------------------------------------------------------------------
Init == env \in Envs /\ stage = "boot" /\ rpc = Idle

\* main.run: the process serves, or it ends with an error.
Boot ==
    /\ stage = "boot"
    /\ stage' = IF Starts(env) THEN "idle" ELSE "exited"
    /\ UNCHANGED <<env, rpc>>

Answer(code) == stage' = "done" /\ rpc' = [rpc EXCEPT !.code = code]
Refuse(r, code) == stage' = "done" /\ rpc' = [r EXCEPT !.code = code]

\* grpc.Server runs the interceptors only for a registered method.
Dispatch(r, call, token) ==
    IF Lookup(call.full) = {} THEN Refuse(r, "Unimplemented")
    ELSE /\ stage' = "auth"
         /\ rpc' = [r EXCEPT !.token = token, !.full = call.full, !.msg = call.msg]

\* The REST port.  Every call of the gateway reaches the gRPC port from the
\* gateway's own connection, with the client's authorization header.
RestRequest(h) ==
    /\ stage = "idle"
    /\ LET calls == registerHandlers(h)
           r == [Idle EXCEPT !.segs = h.segs, !.whole = h.whole,
                             !.routes = Cardinality(calls)]
       IN  \/ calls = {} /\ Refuse(r, "NoRoute")
           \/ \E call \in calls :
                IF call.code # "OK" THEN Refuse(r, call.code)
                ELSE \E t \in Tokens : Dispatch(r, call, t)
    /\ UNCHANGED env

\* The gRPC port.
GrpcRequest(call, token) ==
    /\ stage = "idle"
    /\ Dispatch(Idle, call, token)
    /\ UNCHANGED env

AuthInterceptor ==
    /\ stage = "auth"
    /\ IF rpc.full \in noAuth THEN stage' = "limit" /\ UNCHANGED rpc
       ELSE IF AuthDisabled(FromEnv(env))
       THEN stage' = "limit" /\ rpc' = [rpc EXCEPT !.ident = Anonymous]
       ELSE IF rpc.token = NoToken THEN Answer("Unauthenticated")
       ELSE LET ids == VerifyToken(NewVerifier(FromEnv(env)), rpc.token)
            IN  IF ids = {} THEN Answer("Unauthenticated")
                ELSE \E id \in ids :
                       IF id.role = RoleNone THEN Answer("PermissionDenied")
                       ELSE stage' = "limit" /\ rpc' = [rpc EXCEPT !.ident = id]
    /\ UNCHANGED env

\* The bucket of a call: its subject, else the address of its connection.
SubjectOrPeerKey(r) ==
    IF r.ident.subject # <<>> THEN <<"u:", r.ident.subject>>
    ELSE <<"ip:", IF r.segs = <<>> THEN "client" ELSE "gateway">>

RateLimitInterceptor ==
    /\ stage = "limit"
    /\ LET r == [rpc EXCEPT !.key = SubjectOrPeerKey(rpc)]
       IN  \/ stage' = "role" /\ rpc' = r
           \/ Refuse(r, "ResourceExhausted")
    /\ UNCHANGED env

RoleInterceptor ==
    /\ stage = "role"
    /\ IF rpc.full \in DOMAIN buildLegacyRoleMap
          /\ rpc.ident.role < buildLegacyRoleMap[rpc.full]
       THEN Answer("PermissionDenied")
       ELSE stage' = "handler" /\ UNCHANGED rpc
    /\ UNCHANGED env

\* The handler of the method: its gate, then its own outcome.
Handler ==
    /\ stage = "handler"
    /\ \E d \in Lookup(rpc.full) :
         LET m == Implementation(rpc.full[1])[d.serves]
             gid == IF m.field = Unset THEN Unset ELSE rpc.msg[m.field]
         IN  \E s \in IF gid = Unset THEN {NoStanding} ELSE Standing :
               LET gate == Gate(m, rpc.ident.subject, gid, s)
               IN  \E e \in Ends(m, gate, s) :
                     rpc' = [rpc EXCEPT !.gid = gid, !.standing = s,
                                        !.reached = (gate = "ok"), !.err = e]
    /\ stage' = "error"
    /\ UNCHANGED env

ErrorInterceptor ==
    /\ stage = "error"
    /\ Answer(IF rpc.err = "ok" THEN "OK" ELSE codeFor(rpc.err))
    /\ UNCHANGED env

\* The response is written; the request leaves nothing behind on this path.
Respond ==
    /\ stage = "done"
    /\ stage' = "idle" /\ rpc' = Idle
    /\ UNCHANGED env

Next ==
    \/ Boot
    \/ \E h \in HttpRequests : RestRequest(h)
    \/ \E c \in GrpcCalls, t \in Tokens : GrpcRequest(c, t)
    \/ AuthInterceptor \/ RateLimitInterceptor \/ RoleInterceptor
    \/ Handler \/ ErrorInterceptor \/ Respond

Spec == Init /\ [][Next]_vars

-----------------------------------------------------------------------------
(* Properties *)

Stages == {"boot", "exited", "idle", "auth", "limit", "role", "handler", "error", "done"}
Codes == {"none", "OK", "NoRoute", "Unimplemented", "InvalidArgument", "NotFound",
          "FailedPrecondition", "Unknown", "Unauthenticated", "PermissionDenied",
          "ResourceExhausted"}

\* Every variable has its type, and a request that is being handled names a
\* registered method and carries the message which that method's handler decodes,
\* whichever port it came by.
TypeOK ==
    /\ env \in Envs /\ stage \in Stages
    /\ rpc.token \in Tokens /\ rpc.routes \in Nat
    /\ stage \in {"auth", "limit", "role", "handler", "error"} =>
          rpc.full \in Served /\ Decodes(rpc.full) = {DOMAIN rpc.msg}
    /\ rpc.ident.role \in RoleNone..RoleCurator
    /\ rpc.standing \in Standing \cup {NoStanding} /\ rpc.reached \in BOOLEAN
    /\ rpc.code \in Codes

\* Whatever body and query string say, the genealogy whose members decide, and
\* the entity or the user inside it, are the ones in the URL; and no URL is
\* served by two routes or by one without a method behind it (gateway request_*
\* functions and route patterns, registerServices).
Written(i) == {rpc.segs[i]} \cup IF i = Len(rpc.segs) THEN {rpc.whole} ELSE {}
TargetFromURL ==
    rpc.segs # <<>> =>
        /\ rpc.routes <= 1 /\ rpc.code # "Unimplemented"
        /\ rpc.gid # Unset => rpc.gid \in Written(3)
        /\ stage = "auth" /\ Len(rpc.segs) = 5 =>
            rpc.msg[IF "subject" \in DOMAIN rpc.msg THEN "subject" ELSE "id"] \in Written(5)

Listed(list, x) == {i \in DOMAIN list : list[i] = x}
NoBlanks(list) == splitCSV(list) = list

\* A handler that runs acts for the caller: for the subject of a good token
\* whose issuer and audience the operator listed (at one position, when no
\* list has a blank part), or for the one anonymous curator of a process that
\* is not in production; only Version runs for nobody.  The rate limiter
\* charged that same subject (AuthInterceptor, SubjectOrPeerKey, NewVerifier,
\* main.run's refusal).
ActsAsCaller ==
    stage \in {"handler", "error"} =>
        \/ rpc.full = <<"linea.v1.Server", "Version">> /\ rpc.ident = NoIdentity
        \/ /\ rpc.ident = Anonymous /\ env.mode = "disabled" /\ ~env.production
        \/ /\ env.mode = "oidc" /\ rpc.token # NoToken
           /\ rpc.token.signed /\ rpc.token.sub # Blank
           /\ rpc.ident.subject = <<rpc.token.iss, rpc.token.sub>>
           /\ rpc.key = <<"u:", rpc.ident.subject>>
           /\ LET i == Listed(env.issuers, rpc.token.iss)
                  a == Listed(env.audiences, rpc.token.aud)
              IN  /\ i # {} /\ a # {}
                  /\ NoBlanks(env.issuers) /\ NoBlanks(env.audiences) => i \cap a # {}

Decisions == Named("linea.v1.Proposals", {"Claim", "Accept", "Reject", "BulkReject"})
Authoring == Named("linea.v1.Proposals", {"CreateProposal", "Submit", "Withdraw"})

Managing == Named("linea.v1.Genealogies", {"UpsertMembership", "RemoveMember", "BanUser",
                                           "UnbanUser"})
Owning == Named("linea.v1.Genealogies", {"UpdateVisibility", "DeleteGenealogy"})

\* What guards a write inside a genealogy is the caller's role in that genealogy:
\* Owner to change its visibility or delete it, Curator to manage members and to
\* decide on proposals, Contributor to author them, with no ban to create or
\* submit one (resolveStore, requireRole).  The role of the token is far coarser:
\* at least Contributor for the proposal methods in the role map, which leaves
\* out BulkReject; for everything else Viewer will do (buildLegacyRoleMap,
\* AuthInterceptor).  That is less than the table in auth.go, which keeps Claim,
\* Accept and Reject for Curators.
WritersHaveRole ==
    rpc.reached =>
        LET role == Resolve(rpc.ident.subject, rpc.gid, rpc.standing)
        IN  /\ rpc.full \in Owning => role >= RoleOwner
            /\ rpc.full \in Decisions \cup Managing => role >= RoleCurator
            /\ rpc.full \in Authoring => role >= RoleContributor
            /\ rpc.full[2] \in {"CreateProposal", "Submit"} => ~rpc.standing.banned
            /\ rpc.full \in Owning \cup Managing \cup Decisions => rpc.ident.role >= RoleViewer
            /\ rpc.full \in Decisions \cup Authoring /\ rpc.full[2] # "BulkReject" =>
                  rpc.ident.role >= RoleContributor

\* A caller with no role in a genealogy cannot tell whether it exists: the
\* answer is NotFound (or, to LeaveGenealogy, OK), or the failure of the
\* platform store, whether it is hidden or absent (authz.ErrNotAllowed).
DenialHidesExistence ==
    /\ stage = "done" /\ rpc.gid # Unset
    /\ Resolve(rpc.ident.subject, rpc.gid, rpc.standing) = RoleNone
    => rpc.code \in {IF rpc.full[2] = "LeaveGenealogy" THEN "OK" ELSE "NotFound", "Unknown"}
=============================================================================
