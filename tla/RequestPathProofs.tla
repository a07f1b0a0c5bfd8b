-------------------------- MODULE RequestPathProofs -------------------------
(***************************************************************************)
(* Proofs about RequestPath, for any environment, any requests and any     *)
(* tokens.                                                                 *)
(*                                                                         *)
(* The properties speak of a request that is being handled or answered;    *)
(* what makes them inductive is the history of the request up to its       *)
(* stage: nothing is known of the caller before AuthInterceptor            *)
(* (NobodyYet), who the caller is after it (Known), the bucket that the    *)
(* limiter charged (Charged), the coarse role (Granted), that no genealogy *)
(* was looked up before the handler (Untouched), which error a denied      *)
(* caller gets (Denied), and that the message still holds what the URL     *)
(* says (Bound).                                                           *)
(***************************************************************************)
EXTENDS RequestPath, ApiProofs, SequenceTheorems

-----------------------------------------------------------------------------
(* Induction.  The library's induction theorems take the predicate as an   *)
(* operator, which the provers do not instantiate; these take a set.       *)

\* A set of naturals that is not empty has a least element.
LEMMA Least ==
    ASSUME NEW T, T \subseteq Nat, T # {}
    PROVE  \E m \in T : \A k \in T : m <= k
<1>1. PICK n \in T : TRUE
    OBVIOUS
<1> DEFINE below == {k \in T : k <= n}
           R == StrictSubsetOrdering(1..n)
           U == {1..k : k \in below}
<1>2. IsWellFoundedOn(R, SUBSET (1..n))
  <2>1. n \in Nat /\ IsFiniteSet(1..n)
    BY FS_Interval
  <2> QED  BY <2>1, FS_StrictSubsetOrderingWellFounded, FS_FiniteSubsetsOfFinite
<1>3. U \subseteq SUBSET (1..n) /\ 1..n \in U
    OBVIOUS
<1>4. PICK x \in U : \A y \in U : <<y, x>> \notin R
  <2> HIDE DEF U, R
  <2> QED  BY <1>2, <1>3, WFMin
<1>5. PICK m \in below : x = 1..m
    OBVIOUS
<1>6. ASSUME NEW k \in T  PROVE m <= k
  <2>1. SUFFICES ASSUME k < m  PROVE FALSE
    OBVIOUS
  <2>2. k \in below /\ 1..k \in U
    BY <2>1
  <2>3. 1..k \subseteq 1..m /\ m \in 1..m /\ m \notin 1..k
    BY <2>1
  <2>4. <<1..k, 1..m>> \in R
    BY <2>3, <2>2, <1>3, <1>5 DEF StrictSubsetOrdering
  <2> QED  BY <2>4, <2>2, <1>4, <1>5
<1> QED  BY <1>6

\* A set with 0 that is closed under successor holds every natural.
LEMMA SetInduction ==
    ASSUME NEW G, 0 \in G, \A n \in Nat : n \in G => n + 1 \in G
    PROVE  Nat \subseteq G
<1> DEFINE T == Nat \ G
<1>1. SUFFICES ASSUME T # {}  PROVE FALSE
    OBVIOUS
<1>2. T \subseteq Nat
    OBVIOUS
<1>3. PICK m \in T : \A k \in T : m <= k
  <2> HIDE DEF T
  <2> QED  BY <1>1, <1>2, Least
<1>4. m # 0 /\ m - 1 \in Nat /\ m - 1 \in G
    BY <1>3
<1> QED  BY <1>4, (m - 1) + 1 = m

-----------------------------------------------------------------------------
(* Configuration and identity. *)

\* What config.splitCSV keeps was in the list.
LEMMA SplitKeeps ==
    ASSUME NEW parts \in Seq(STRING)
    PROVE  /\ splitCSV(parts) \in Seq(STRING)
           /\ \A i \in DOMAIN splitCSV(parts) :
                \E j \in DOMAIN parts : parts[j] = splitCSV(parts)[i]
<1> DEFINE N == Len(parts)
           K == {parts[j] : j \in 1..N}
           Kept(f, n) == IF n = 0 THEN <<>>
                         ELSE IF parts[n] = Blank THEN f[n - 1] ELSE Append(f[n - 1], parts[n])
           Fits(f, m) == f = [n \in 0..m |-> Kept(f, n)]
           keep == CHOOSE f : Fits(f, N)
<1>1. N \in Nat /\ DOMAIN parts = 1..N
    BY LenProperties
<1>2. splitCSV(parts) = keep[N]
    BY DEF splitCSV
<1>3. \A m \in Nat : \E f : Fits(f, m)
  <2> DEFINE G == {m \in Nat : \E f : Fits(f, m)}
  <2>1. 0 \in G
    <3>1. Fits([n \in 0..0 |-> <<>>], 0)
      OBVIOUS
    <3> QED  BY <3>1
  <2>2. ASSUME NEW m \in Nat, m \in G  PROVE m + 1 \in G
    <3>1. PICK f : Fits(f, m)
      BY <2>2
    <3> DEFINE g == [n \in 0..(m + 1) |-> IF n = m + 1 THEN Kept(f, m + 1) ELSE f[n]]
    <3>2. \A n \in 0..m : f[n] = Kept(f, n)
      BY <3>1
    <3>3. \A n \in 0..m : g[n] = f[n]
      OBVIOUS
    <3>4. ASSUME NEW n \in 0..(m + 1)  PROVE Kept(g, n) = Kept(f, n)
      <4>1. CASE n = 0
        BY <4>1
      <4>2. CASE n # 0
        <5>1. g[n - 1] = f[n - 1]
          BY <3>3, <4>2
        <5> HIDE DEF g
        <5> QED  BY <5>1
      <4> QED  BY <4>1, <4>2
    <3>5. \A n \in 0..(m + 1) : g[n] = Kept(g, n)
      <4> HIDE DEF Kept, Fits
      <4> QED  BY <3>2, <3>3, <3>4
    <3>6. Fits(g, m + 1)
      <4>1. g = [n \in 0..(m + 1) |-> g[n]]
        OBVIOUS
      <4> HIDE DEF Kept, g
      <4> QED  BY <3>5, <4>1
    <3> HIDE DEF Fits, g
    <3> QED  BY <3>6
  <2>3. Nat \subseteq G
    <3> HIDE DEF G
    <3> QED  BY <2>1, <2>2, SetInduction
  <2> HIDE DEF Fits
  <2> QED  BY <2>3
<1>4. Fits(keep, N)
    BY <1>1, <1>3
<1> HIDE DEF keep
<1>5. \A n \in 0..N : keep[n] = Kept(keep, n)
    BY <1>4
<1>6. keep[N] \in Seq(K)
  <2> DEFINE G == {m \in Nat : m <= N => keep[m] \in Seq(K)}
  <2>1. 0 \in G
    <3>1. keep[0] = <<>> /\ <<>> \in Seq(K)
      BY <1>5, <1>1, EmptySeq
    <3> QED  BY <3>1
  <2>2. ASSUME NEW m \in Nat, m \in G  PROVE m + 1 \in G
    <3>1. SUFFICES ASSUME m + 1 <= N  PROVE keep[m + 1] \in Seq(K)
      OBVIOUS
    <3>2. keep[m] \in Seq(K) /\ m + 1 \in 1..N /\ parts[m + 1] \in K
      BY <2>2, <3>1, <1>1
    <3>3. keep[m + 1] =
            IF parts[m + 1] = Blank THEN keep[m] ELSE Append(keep[m], parts[m + 1])
      BY <1>5, <3>2
    <3> HIDE DEF K
    <3>4. Append(keep[m], parts[m + 1]) \in Seq(K)
      BY <3>2, AppendProperties
    <3> QED  BY <3>2, <3>3, <3>4
  <2>3. Nat \subseteq G
    <3> HIDE DEF G
    <3> QED  BY <2>1, <2>2, SetInduction
  <2> HIDE DEF K, Kept
  <2> QED  BY <1>1, <2>3
<1>7. splitCSV(parts) \in Seq(K)
    BY <1>2, <1>6
<1>8. K \subseteq STRING
    BY <1>1, ElementOfSeq
<1> HIDE DEF K
<1>9. splitCSV(parts) \in Seq(STRING)
    BY <1>7, <1>8, SeqMonotonic
<1>10. \A i \in DOMAIN splitCSV(parts) : splitCSV(parts)[i] \in K
    BY <1>7, ElementOfSeq, LenProperties
<1> QED  BY <1>1, <1>9, <1>10 DEF K

\* The identity of a token that a verifier accepts.
LEMMA Verified ==
    ASSUME NEW e \in Envs, Starts(e), ~AuthDisabled(FromEnv(e)), NEW t,
           NEW id \in VerifyToken(NewVerifier(FromEnv(e)), t)
    PROVE  /\ e.mode = "oidc" /\ t.signed /\ t.sub # Blank
           /\ id.subject = <<t.iss, t.sub>> /\ id.role \in RoleViewer..RoleCurator
           /\ LET i == Listed(e.issuers, t.iss)
                  a == Listed(e.audiences, t.aud)
              IN  /\ i # {} /\ a # {}
                  /\ NoBlanks(e.issuers) /\ NoBlanks(e.audiences) => i \cap a # {}
<1> DEFINE cfg == FromEnv(e)
           iss == splitCSV(e.issuers)
           aud == splitCSV(e.audiences)
<1>1. e.issuers \in Seq(STRING) /\ e.audiences \in Seq(STRING)
    BY EnvsAssumption
<1>2. cfg.mode = e.mode /\ cfg.issuers = iss /\ cfg.audiences = aud
    BY DEF FromEnv
<1>3. e.mode = "oidc" /\ Len(iss) = Len(aud)
    BY DEF Starts, FromEnv, AuthDisabled
<1>4. PICK n \in DOMAIN iss : t.signed /\ t.iss = iss[n] /\ t.aud = aud[n]
    BY <1>2 DEF VerifyToken, NewVerifier, Verify
<1>5. t.sub # Blank /\ id = [subject |-> <<t.iss, t.sub>>, role |-> resolveRole(t.groups)]
    BY DEF VerifyToken
<1>6. n \in DOMAIN aud
  <2>1. iss \in Seq(STRING) /\ aud \in Seq(STRING)
    BY <1>1, SplitKeeps
  <2> HIDE DEF iss, aud
  <2> QED  BY <1>3, <1>4, <2>1, LenProperties
<1>7. Listed(e.issuers, t.iss) # {} /\ Listed(e.audiences, t.aud) # {}
    BY <1>1, <1>4, <1>6, SplitKeeps DEF Listed
<1>8. NoBlanks(e.issuers) /\ NoBlanks(e.audiences) =>
        Listed(e.issuers, t.iss) \cap Listed(e.audiences, t.aud) # {}
    BY <1>4, <1>6 DEF Listed, NoBlanks
<1>9. resolveRole(t.groups) \in RoleViewer..RoleCurator
  <2> DEFINE S == {RoleViewer} \cup {defaultRoleMap[g] : g \in t.groups \cap DOMAIN defaultRoleMap}
  <2>1. S \subseteq 1..3 /\ 1 \in S
    <3>1. \A g \in DOMAIN defaultRoleMap : defaultRoleMap[g] \in 1..3
      BY DEF defaultRoleMap, RoleViewer, RoleContributor, RoleCurator
    <3> QED  BY <3>1 DEF RoleViewer
  <2> HIDE DEF S
  <2>2. \E x \in S : \A y \in S : x >= y
    BY <2>1
  <2>3. Max(S) \in S
    BY <2>2 DEF Max
  <2> QED  BY <2>1, <2>3 DEF S, resolveRole, RoleViewer, RoleCurator
<1> QED  BY <1>3, <1>4, <1>5, <1>7, <1>8, <1>9
\* Every registered method serves the handler of its own name.
LEMMA Serves ==
    ASSUME NEW e \in registerServices, NEW n \in DOMAIN e.methods
    PROVE  e.methods[n].serves = n
    BY DEF registerServices, Server_ServiceDesc, Server_Handler, Handlers,
           Persons_ServiceDesc, Persons_Handler,
           Relationships_ServiceDesc, Relationships_Handler,
           Sources_ServiceDesc, Sources_Handler,
           Proposals_ServiceDesc, Proposals_Handler,
           Queries_ServiceDesc, Queries_Handler,
           Genealogies_ServiceDesc, Genealogies_Handler

\* grpc.Server finds a handler for the registered methods only, and it is the
\* one of that name.
LEMMA Found ==
    ASSUME NEW full
    PROVE  /\ full = <<full[1], full[2]>> /\ Lookup(full) # {} => full \in Served
           /\ full \in Served => Lookup(full) # {} /\ full = <<full[1], full[2]>>
           /\ \A d \in Lookup(full) : d.serves = full[2]
<1>1. \A d \in Lookup(full) : \E e \in registerServices :
            e.name = full[1] /\ full[2] \in DOMAIN e.methods /\ d = e.methods[full[2]]
    BY DEF Lookup
<1>2. full = <<full[1], full[2]>> /\ Lookup(full) # {} => full \in Served
    BY <1>1 DEF Served
<1>3. ASSUME full \in Served  PROVE Lookup(full) # {} /\ full = <<full[1], full[2]>>
  <2>1. PICK e \in registerServices : \E n \in DOMAIN e.methods : full = <<e.name, n>>
    BY <1>3 DEF Served
  <2> QED  BY <2>1 DEF Lookup
<1> QED  BY <1>1, <1>2, <1>3, Serves

\* The methods that registerServices knows.
LEMMA ServedCases ==
    ASSUME NEW full \in Served
    PROVE  \/ full[1] = "linea.v1.Server" /\ full[2] \in {"Version"}
           \/ full[1] = "linea.v1.Persons" /\ full[2] \in {"GetPerson", "ListPersons"}
           \/ full[1] = "linea.v1.Relationships"
                /\ full[2] \in {"GetRelationship", "ListRelationships"}
           \/ full[1] = "linea.v1.Sources" /\ full[2] \in {"GetSource", "ListSources"}
           \/ full[1] = "linea.v1.Proposals"
                /\ full[2] \in {"GetProposal", "ListProposals", "CreateProposal", "Submit",
                                "Claim", "Accept", "Reject", "Withdraw", "BulkReject"}
           \/ full[1] = "linea.v1.Queries" /\ full[2] \in {"FindPaths", "NKCA"}
           \/ full[1] = "linea.v1.Genealogies"
                /\ full[2] \in {"CreateGenealogy", "ListGenealogies", "GetGenealogy",
                                "UpdateVisibility", "DeleteGenealogy", "UpsertMembership",
                                "RemoveMember", "LeaveGenealogy", "BanUser", "UnbanUser",
                                "ListMembers"}
<1>1. PICK e \in registerServices : \E n \in DOMAIN e.methods : full = <<e.name, n>>
    BY DEF Served
<1> QED
    BY <1>1 DEF registerServices, Methods, 
           Server_ServiceDesc, Server_Handler, Handlers, Server_FullMethodNames,
           Persons_ServiceDesc, Persons_Handler, Persons_FullMethodNames,
           Relationships_ServiceDesc, Relationships_Handler, Relationships_FullMethodNames,
           Sources_ServiceDesc, Sources_Handler, Sources_FullMethodNames,
           Proposals_ServiceDesc, Proposals_Handler, Proposals_FullMethodNames,
           Queries_ServiceDesc, Queries_Handler, Queries_FullMethodNames,
           Genealogies_ServiceDesc, Genealogies_Handler, Genealogies_FullMethodNames

\* What the handlers' gates are made of: the field that names the genealogy,
\* and the gates of the methods that the properties speak of.
LEMMA MethodTable ==
    ASSUME NEW full \in Served, NEW m, m = Implementation(full[1])[full[2]]
    PROVE  /\ m.field = GenealogyField(full)
           /\ m.field # Unset => \/ /\ m.gate \in {"resolveStore", "requireRole"}
                                    /\ full[2] # "LeaveGenealogy"
                                 \/ m.gate = "leave" /\ full[2] = "LeaveGenealogy"
           /\ full \in Decisions => m.gate = "resolveStore" /\ m.min = RoleCurator
           /\ full \in Authoring => m.gate = "resolveStore" /\ m.min = RoleContributor
           /\ full \in Managing => m.gate = "requireRole" /\ m.min = RoleCurator
           /\ full \in Owning => m.gate = "requireRole" /\ m.min = RoleOwner
           /\ full[2] \in {"CreateProposal", "Submit"} => m.ban
<1>1. full = <<full[1], full[2]>>
    BY Found
<1>2. /\ full \in Decisions => full[1] = "linea.v1.Proposals"
                                /\ full[2] \in {"Claim", "Accept", "Reject", "BulkReject"}
      /\ full \in Authoring => full[1] = "linea.v1.Proposals"
                                /\ full[2] \in {"CreateProposal", "Submit", "Withdraw"}
      /\ full \in Managing =>
            /\ full[1] = "linea.v1.Genealogies"
            /\ full[2] \in {"UpsertMembership", "RemoveMember", "BanUser", "UnbanUser"}
      /\ full \in Owning => /\ full[1] = "linea.v1.Genealogies"
                            /\ full[2] \in {"UpdateVisibility", "DeleteGenealogy"}
    BY DEF Decisions, Authoring, Managing, Owning, Named
<1>3. GenealogyField(full) =
        IF full[1] = "linea.v1.Server" THEN Unset
        ELSE IF full[1] # "linea.v1.Genealogies" THEN "genealogy_id"
        ELSE IF full[2] \in {"CreateGenealogy", "ListGenealogies"} THEN Unset
        ELSE IF full[2] \in {"GetGenealogy", "UpdateVisibility", "DeleteGenealogy",
                             "LeaveGenealogy"} THEN "id"
        ELSE "genealogy_id"
  <2>1. \A service, n : full = <<service, n>> <=> full[1] = service /\ full[2] = n
    BY <1>1
  <2>2. full[1] = "linea.v1.Server" => full[2] = "Version"
    BY ServedCases
  <2> QED  BY <2>1, <2>2 DEF GenealogyField
<1>4. CASE full[1] = "linea.v1.Server"
  <2>1. m = ServerService.Version
    BY <1>4, ServedCases DEF Implementation
  <2>2. m.field = Unset /\ full[2] = "Version"
    BY <1>4, <2>1, ServedCases DEF ServerService, Open
  <2> QED  BY <1>2, <1>3, <1>4, <2>2
<1>5. CASE full[1] = "linea.v1.Persons"
  <2>1. m = PersonsService[full[2]] /\ full[2] \in {"GetPerson", "ListPersons"}
    BY <1>5, ServedCases DEF Implementation
  <2>2. m.field = "genealogy_id" /\ m.gate = "resolveStore"
    BY <2>1 DEF PersonsService, Store
  <2> QED  BY <1>2, <1>3, <1>5, <2>1, <2>2
<1>6. CASE full[1] = "linea.v1.Relationships"
  <2>1. /\ m = RelationshipsService[full[2]]
        /\ full[2] \in {"GetRelationship", "ListRelationships"}
    BY <1>6, ServedCases DEF Implementation
  <2>2. m.field = "genealogy_id" /\ m.gate = "resolveStore"
    BY <2>1 DEF RelationshipsService, Store
  <2> QED  BY <1>2, <1>3, <1>6, <2>1, <2>2
<1>7. CASE full[1] = "linea.v1.Sources"
  <2>1. m = SourcesService[full[2]] /\ full[2] \in {"GetSource", "ListSources"}
    BY <1>7, ServedCases DEF Implementation
  <2>2. m.field = "genealogy_id" /\ m.gate = "resolveStore"
    BY <2>1 DEF SourcesService, Store
  <2> QED  BY <1>2, <1>3, <1>7, <2>1, <2>2
<1>8. CASE full[1] = "linea.v1.Queries"
  <2>1. m = QueriesService[full[2]] /\ full[2] \in {"FindPaths", "NKCA"}
    BY <1>8, ServedCases DEF Implementation
  <2>2. m.field = "genealogy_id" /\ m.gate = "resolveStore"
    BY <2>1 DEF QueriesService, Store
  <2> QED  BY <1>2, <1>3, <1>8, <2>1, <2>2
<1>9. CASE full[1] = "linea.v1.Proposals"
  <2>1. /\ m = ProposalsService[full[2]]
        /\ full[2] \in {"GetProposal", "ListProposals", "CreateProposal", "Submit",
                        "Claim", "Accept", "Reject", "Withdraw", "BulkReject"}
    BY <1>9, ServedCases DEF Implementation
  <2>2. /\ m.field = "genealogy_id" /\ m.gate = "resolveStore"
        /\ full[2] \in {"Claim", "Accept", "Reject", "BulkReject"} => m.min = RoleCurator
        /\ full[2] \in {"CreateProposal", "Submit", "Withdraw"} => m.min = RoleContributor
        /\ full[2] \in {"CreateProposal", "Submit"} => m.ban
    BY <2>1 DEF ProposalsService, Store
  <2> QED  BY <1>2, <1>3, <1>9, <2>1, <2>2
<1>10. CASE full[1] = "linea.v1.Genealogies"
  <2>1. /\ m = GenealogiesService[full[2]]
        /\ full[2] \in {"CreateGenealogy", "ListGenealogies", "GetGenealogy",
                        "UpdateVisibility", "DeleteGenealogy", "UpsertMembership",
                        "RemoveMember", "LeaveGenealogy", "BanUser", "UnbanUser",
                        "ListMembers"}
    BY <1>10, ServedCases DEF Implementation
  <2>2. /\ full[2] \in {"CreateGenealogy", "ListGenealogies"} => m.field = Unset
        /\ full[2] = "LeaveGenealogy" => m.field = "id" /\ m.gate = "leave"
        /\ full[2] \in {"GetGenealogy", "UpdateVisibility", "DeleteGenealogy"} =>
                m.field = "id" /\ m.gate = "requireRole"
        /\ full[2] \in {"UpsertMembership", "RemoveMember", "BanUser", "UnbanUser",
                        "ListMembers"} =>
                m.field = "genealogy_id" /\ m.gate = "requireRole"
        /\ full[2] \in {"UpsertMembership", "RemoveMember", "BanUser", "UnbanUser"} =>
                m.min = RoleCurator
        /\ full[2] \in {"UpdateVisibility", "DeleteGenealogy"} => m.min = RoleOwner
    BY <2>1 DEF GenealogiesService, Open, Role
  <2> QED  BY <1>2, <1>3, <1>10, <2>1, <2>2
<1> QED
    BY <1>4, <1>5, <1>6, <1>7, <1>8, <1>9, <1>10, ServedCases

-----------------------------------------------------------------------------
(* The inductive invariant *)

Before == {"boot", "exited", "idle"}
Called == {"auth", "limit", "role", "handler"}

\* rpc is a record of these fields.
IsRpc(r) ==
    r = [segs |-> r.segs, whole |-> r.whole, routes |-> r.routes, token |-> r.token,
         full |-> r.full, msg |-> r.msg, ident |-> r.ident, key |-> r.key, gid |-> r.gid,
         standing |-> r.standing, reached |-> r.reached, err |-> r.err, code |-> r.code]

\* A request that has arrived by a URL (segs <<>> on the gRPC port).
Arrived(sg, w, n) ==
    [segs |-> sg, whole |-> w, routes |-> n, token |-> NoToken, full |-> <<>>,
     msg |-> NoMessage, ident |-> NoIdentity, key |-> <<>>, gid |-> Unset,
     standing |-> NoStanding, reached |-> FALSE, err |-> "ok", code |-> "none"]

\* Who the caller is: ActsAsCaller without the bucket.
IsCaller(r) ==
    \/ r.full = <<"linea.v1.Server", "Version">> /\ r.ident = NoIdentity
    \/ r.ident = Anonymous /\ env.mode = "disabled" /\ ~env.production
    \/ /\ env.mode = "oidc" /\ r.token # NoToken
       /\ r.token.signed /\ r.token.sub # Blank
       /\ r.ident.subject = <<r.token.iss, r.token.sub>> /\ r.ident.role >= RoleViewer
       /\ LET i == Listed(env.issuers, r.token.iss)
              a == Listed(env.audiences, r.token.aud)
          IN  /\ i # {} /\ a # {}
              /\ NoBlanks(env.issuers) /\ NoBlanks(env.audiences) => i \cap a # {}

Fresh == stage \in Before => rpc = Idle
Started == stage \notin {"boot", "exited"} => Starts(env)
Untouched ==
    stage \in Called => /\ rpc.gid = Unset /\ rpc.standing = NoStanding
                        /\ rpc.reached = FALSE /\ rpc.err = "ok" /\ rpc.code = "none"
NobodyYet == stage = "auth" => rpc.ident = NoIdentity
Known == stage \in {"limit", "role", "handler", "error"} => IsCaller(rpc)
Charged == stage \in {"role", "handler", "error"} => rpc.key = SubjectOrPeerKey(rpc)
Granted ==
    stage \in {"handler", "error"} /\ rpc.full \in DOMAIN buildLegacyRoleMap =>
        rpc.ident.role >= buildLegacyRoleMap[rpc.full]
Denied ==
    /\ stage = "error" /\ rpc.gid # Unset
    /\ Resolve(rpc.ident.subject, rpc.gid, rpc.standing) = RoleNone
    => rpc.err \in {IF rpc.full[2] = "LeaveGenealogy" THEN "ok" ELSE "CodePersonNotFound",
                    "plain"}
Bound ==
    rpc.segs # <<>> /\ stage \in Called /\ GenealogyField(rpc.full) # Unset =>
        rpc.msg[GenealogyField(rpc.full)] \in Written(3)

IInv ==
    /\ IsRpc(rpc) /\ TypeOK /\ Fresh /\ Started /\ Untouched /\ NobodyYet /\ Known
    /\ Charged /\ Granted /\ Denied /\ Bound
    /\ TargetFromURL /\ WritersHaveRole /\ DenialHidesExistence

-----------------------------------------------------------------------------
(* The steps *)

\* A proposal's methods but BulkReject are in the table of coarse roles.
LEMMA CoarseGate ==
    ASSUME NEW full \in Decisions \cup Authoring, full[2] # "BulkReject"
    PROVE  full \in DOMAIN buildLegacyRoleMap /\ buildLegacyRoleMap[full] = RoleContributor
<1>1. PICK n \in {"Claim", "Accept", "Reject", "CreateProposal", "Submit", "Withdraw"} :
            full = <<"linea.v1.Proposals", n>>
    BY DEF Decisions, Authoring, Named
<1> DEFINE viewer == UNION {
            Named("linea.v1.Persons", {"GetPerson", "ListPersons"}),
            Named("linea.v1.Relationships", {"GetRelationship", "ListRelationships"}),
            Named("linea.v1.Sources", {"GetSource", "ListSources"}),
            Named("linea.v1.Queries", {"FindPaths", "NKCA"}),
            Named("linea.v1.Proposals", {"GetProposal", "ListProposals"}),
            Named("linea.v1.Genealogies", {"ListGenealogies", "GetGenealogy", "ListMembers",
                "CreateGenealogy", "LeaveGenealogy", "UpdateVisibility", "DeleteGenealogy",
                "UpsertMembership", "RemoveMember", "BanUser", "UnbanUser"})}
           contributor == Named("linea.v1.Proposals",
                {"CreateProposal", "Submit", "Withdraw", "Claim", "Accept", "Reject"})
<1>2. full \notin viewer /\ full \in contributor
    BY <1>1 DEF Named
<1>3. buildLegacyRoleMap = [f \in viewer \cup contributor |->
            IF f \in viewer THEN RoleViewer ELSE RoleContributor]
    BY DEF buildLegacyRoleMap
<1> HIDE DEF viewer, contributor
<1> QED  BY <1>2, <1>3

\* A request that is answered before a call is made of it.
LEMMA Refused ==
    ASSUME IInv, stage = "idle", UNCHANGED env, NEW sg, NEW w, NEW n \in 0..1,
           NEW c \in Codes, sg # <<>> => c # "Unimplemented",
           Refuse(Arrived(sg, w, n), c)
    PROVE  IInv'
<1>1. /\ stage' = "done" /\ env' = env
      /\ rpc' = [segs |-> sg, whole |-> w, routes |-> n, token |-> NoToken, full |-> <<>>,
                 msg |-> NoMessage, ident |-> NoIdentity, key |-> <<>>, gid |-> Unset,
                 standing |-> NoStanding, reached |-> FALSE, err |-> "ok", code |-> c]
    BY DEF Refuse, Arrived
<1>2. IsRpc(rpc)'
    BY <1>1 DEF IsRpc
<1>3. TypeOK'
    BY <1>1, TokensAssumption DEF IInv, TypeOK, Stages, NoIdentity, RoleNone, RoleCurator
<1>4. /\ Fresh' /\ Started' /\ Untouched' /\ NobodyYet' /\ Known' /\ Charged' /\ Granted'
      /\ Denied' /\ Bound'
    BY <1>1 DEF IInv, Fresh, Started, Untouched, NobodyYet, Known, Charged, Granted, Denied,
                Bound, Before, Called
<1>5. TargetFromURL' /\ WritersHaveRole' /\ DenialHidesExistence'
    BY <1>1 DEF TargetFromURL, WritersHaveRole, DenialHidesExistence
<1> QED  BY <1>2, <1>3, <1>4, <1>5 DEF IInv

\* A request that becomes a call: what the URL says goes with it.
LEMMA Dispatched ==
    ASSUME IInv, stage = "idle", UNCHANGED env, NEW sg, NEW w, NEW n \in 0..1,
           NEW call, NEW t \in Tokens, call.full = <<call.full[1], call.full[2]>>,
           call.full \in Served => Decodes(call.full) = {DOMAIN call.msg},
           NEW h, h.segs = sg, h.whole = w, sg # <<>> => FromURL(h, call) /\ call.code = "OK",
           Dispatch(Arrived(sg, w, n), call, t)
    PROVE  IInv'
<1>1. CASE Lookup(call.full) = {}
  <2>1. sg = <<>>
    BY <1>1, Found DEF FromURL
  <2>2. Refuse(Arrived(sg, w, n), "Unimplemented")
    BY <1>1 DEF Dispatch
  <2> QED  BY <2>1, <2>2, Refused DEF Codes
<1>2. CASE Lookup(call.full) # {}
  <2>1. /\ stage' = "auth" /\ env' = env
        /\ rpc' = [segs |-> sg, whole |-> w, routes |-> n, token |-> t, full |-> call.full,
                   msg |-> call.msg, ident |-> NoIdentity, key |-> <<>>, gid |-> Unset,
                   standing |-> NoStanding, reached |-> FALSE, err |-> "ok",
                   code |-> "none"]
    BY <1>2 DEF Dispatch, Arrived
  <2>2. call.full \in Served
    BY <1>2, Found
  <2>3. IsRpc(rpc)'
    BY <2>1 DEF IsRpc
  <2>4. TypeOK'
    BY <2>1, <2>2 DEF IInv, TypeOK, Stages, Codes, NoIdentity, RoleNone, RoleCurator
  <2>5. /\ Fresh' /\ Started' /\ Untouched' /\ NobodyYet' /\ Known' /\ Charged' /\ Granted'
        /\ Denied'
    BY <2>1 DEF IInv, Fresh, Started, Untouched, NobodyYet, Known, Charged, Granted, Denied,
                Before, Called
  <2>6. /\ rpc'.segs = sg /\ rpc'.whole = w /\ rpc'.msg = call.msg /\ rpc'.full = call.full
        /\ rpc'.gid = Unset /\ rpc'.code = "none" /\ rpc'.routes = n
    BY <2>1
  <2>7. \A i : Written(i)' = WrittenIn(h, i)
    BY <2>6 DEF Written, WrittenIn
  <2>8. Bound'
    BY <2>6, <2>7 DEF Bound, FromURL
  <2>9. TargetFromURL'
    BY <2>6, <2>7 DEF TargetFromURL, FromURL
  <2>10. WritersHaveRole' /\ DenialHidesExistence'
    BY <2>1 DEF WritersHaveRole, DenialHidesExistence
  <2> QED  BY <2>3, <2>4, <2>5, <2>8, <2>9, <2>10 DEF IInv
<1> QED  BY <1>1, <1>2

\* What is remembered of a request that has just arrived.
LEMMA ArrivedIs ==
    ASSUME NEW sg, NEW w, NEW n,
           NEW r, r = [Idle EXCEPT !.segs = sg, !.whole = w, !.routes = n]
    PROVE  r = Arrived(sg, w, n)
    BY DEF Idle, Arrived

\* The REST port.
LEMMA RestStep ==
    ASSUME IInv, NEW h \in HttpRequests, RestRequest(h)
    PROVE  IInv'
<1> DEFINE calls == registerHandlers(h)
           r == Arrived(h.segs, h.whole, Cardinality(calls))
<1>1. h \in HttpRequest /\ h.segs # <<>>
    BY RequestsAssumption DEF HttpRequest
<1>2. Cardinality(calls) \in 0..1 /\ \A c \in calls : FromURL(h, c)
    BY <1>1, OneRoute
<1>3. stage = "idle" /\ UNCHANGED env
    BY DEF RestRequest
<1>4. CASE Refuse(r, "NoRoute")
    BY <1>2, <1>3, <1>4, Refused DEF Codes
<1>5. ASSUME NEW call \in calls, call.code # "OK", Refuse(r, call.code)  PROVE IInv'
  <2>1. call.code = "InvalidArgument"
    BY <1>2, <1>5 DEF FromURL
  <2>2. call.code \in Codes /\ call.code # "Unimplemented"
    BY <2>1 DEF Codes
  <2> QED  BY <1>2, <1>3, <1>5, <2>2, Refused
<1>6. ASSUME NEW call \in calls, call.code = "OK", NEW t \in Tokens, Dispatch(r, call, t)
      PROVE  IInv'
  <2>1. /\ FromURL(h, call) /\ call.full = <<call.full[1], call.full[2]>>
        /\ Decodes(call.full) = {DOMAIN call.msg}
    BY <1>2, <1>6, Found DEF FromURL
  <2> QED  BY <1>2, <1>3, <1>6, <2>1, Dispatched
<1>7. \/ Refuse(r, "NoRoute")
      \/ \E call \in calls : IF call.code # "OK" THEN Refuse(r, call.code)
                             ELSE \E t \in Tokens : Dispatch(r, call, t)
  <2>1. [Idle EXCEPT !.segs = h.segs, !.whole = h.whole, !.routes = Cardinality(calls)] = r
    BY ArrivedIs
  <2> QED  BY <2>1 DEF RestRequest
<1> QED  BY <1>4, <1>5, <1>6, <1>7

\* The gRPC port.
LEMMA GrpcStep ==
    ASSUME IInv, NEW c \in GrpcCalls, NEW t \in Tokens, GrpcRequest(c, t)
    PROVE  IInv'
<1>1. /\ c.full = <<c.full[1], c.full[2]>>
      /\ c.full \in Served => Decodes(c.full) = {DOMAIN c.msg}
    BY RequestsAssumption
<1>2. Arrived(<<>>, Unset, 0) = Idle
    BY DEF Idle, Arrived
<1>3. /\ stage = "idle" /\ UNCHANGED env
      /\ Dispatch(Arrived(<<>>, Unset, 0), c, t)
    BY <1>2 DEF GrpcRequest
<1> DEFINE h == [segs |-> <<>>, whole |-> Unset]
<1>4. h.segs = <<>> /\ h.whole = Unset
    OBVIOUS
<1> HIDE DEF h
<1> QED  BY <1>1, <1>3, <1>4, Dispatched

\* A call that an interceptor refuses; the limiter has charged its bucket.
LEMMA Stopped ==
    ASSUME IInv, stage \in Called, UNCHANGED env, stage' = "done", NEW k,
           NEW c \in Codes \ {"Unimplemented"},
           rpc' = [segs |-> rpc.segs, whole |-> rpc.whole, routes |-> rpc.routes,
                   token |-> rpc.token, full |-> rpc.full, msg |-> rpc.msg,
                   ident |-> rpc.ident, key |-> k, gid |-> rpc.gid,
                   standing |-> rpc.standing, reached |-> rpc.reached, err |-> rpc.err,
                   code |-> c]
    PROVE  IInv'
<1>1. IsRpc(rpc)'
    BY DEF IsRpc
<1>2. TypeOK'
    BY DEF IInv, TypeOK, Stages
<1>3. /\ Fresh' /\ Started' /\ Untouched' /\ NobodyYet' /\ Known' /\ Charged' /\ Granted'
      /\ Denied' /\ Bound'
    BY DEF IInv, Fresh, Started, Untouched, NobodyYet, Known, Charged, Granted, Denied,
           Bound, Before, Called
<1>4. /\ rpc.gid = Unset /\ rpc.reached = FALSE /\ rpc'.gid = Unset /\ rpc'.reached = FALSE
      /\ rpc'.routes = rpc.routes /\ rpc'.segs = rpc.segs /\ rpc'.code = c
    BY DEF IInv, Untouched
<1>5. TargetFromURL'
    BY <1>4 DEF IInv, TargetFromURL
<1>6. WritersHaveRole' /\ DenialHidesExistence'
    BY <1>4 DEF WritersHaveRole, DenialHidesExistence
<1> QED  BY <1>1, <1>2, <1>3, <1>5, <1>6 DEF IInv

\* A call that goes on to the next stage with the identity, the bucket and the
\* role it has there.
LEMMA Passed ==
    ASSUME IInv, UNCHANGED env, NEW id, NEW k, id.role \in RoleNone..RoleCurator,
           stage \in {"auth", "limit", "role"},
           stage' \in {"limit", "role", "handler"},
           rpc' = [segs |-> rpc.segs, whole |-> rpc.whole, routes |-> rpc.routes,
                   token |-> rpc.token, full |-> rpc.full, msg |-> rpc.msg,
                   ident |-> id, key |-> k, gid |-> rpc.gid,
                   standing |-> rpc.standing, reached |-> rpc.reached, err |-> rpc.err,
                   code |-> rpc.code],
           IsCaller(rpc)', Charged', Granted'
    PROVE  IInv'
<1>1. IsRpc(rpc)'
    BY DEF IsRpc
<1>2. TypeOK'
    BY DEF IInv, TypeOK, Stages
<1>3. Fresh' /\ Started' /\ Untouched' /\ NobodyYet' /\ Known' /\ Denied'
    BY DEF IInv, Fresh, Started, Untouched, NobodyYet, Known, Denied, Before, Called
<1>4. /\ rpc.gid = Unset /\ rpc.reached = FALSE /\ rpc'.gid = Unset /\ rpc'.reached = FALSE
      /\ rpc'.routes = rpc.routes /\ rpc'.segs = rpc.segs /\ rpc'.whole = rpc.whole
      /\ rpc'.msg = rpc.msg /\ rpc'.full = rpc.full /\ rpc'.code = rpc.code
    BY DEF IInv, Untouched, Called
<1>5. \A i : Written(i)' = Written(i)
    BY <1>4 DEF Written
<1>6. Bound'
    BY <1>4, <1>5 DEF IInv, Bound, Called
<1>7. TargetFromURL'
    BY <1>4 DEF IInv, TargetFromURL
<1>8. WritersHaveRole' /\ DenialHidesExistence'
    BY <1>4 DEF WritersHaveRole, DenialHidesExistence
<1> QED  BY <1>1, <1>2, <1>3, <1>6, <1>7, <1>8 DEF IInv

-----------------------------------------------------------------------------
(* The interceptors and the handler *)

\* main.run.
LEMMA BootStep ==
    ASSUME IInv, Boot
    PROVE  IInv'
<1>1. /\ stage = "boot" /\ env' = env /\ rpc' = rpc /\ rpc = Idle
      /\ stage' = IF Starts(env) THEN "idle" ELSE "exited"
    BY DEF Boot, IInv, Fresh, Before
<1>2. stage' \in {"idle", "exited"} /\ (stage' = "idle" => Starts(env))
    BY <1>1
<1>3. rpc.gid = Unset /\ rpc.reached = FALSE /\ rpc.segs = <<>>
    BY <1>1 DEF Idle
<1>4. IsRpc(rpc)' /\ TypeOK'
    BY <1>1, <1>2 DEF IInv, IsRpc, TypeOK, Stages
<1>5. /\ Fresh' /\ Started' /\ Untouched' /\ NobodyYet' /\ Known' /\ Charged' /\ Granted'
      /\ Denied' /\ Bound'
    BY <1>1, <1>2 DEF Fresh, Started, Untouched, NobodyYet, Known, Charged, Granted, Denied,
                      Bound, Before, Called
<1>6. TargetFromURL' /\ WritersHaveRole' /\ DenialHidesExistence'
    BY <1>1, <1>3 DEF TargetFromURL, WritersHaveRole, DenialHidesExistence
<1> QED  BY <1>4, <1>5, <1>6 DEF IInv

\* A request that is answered.
LEMMA Coded ==
    ASSUME IsRpc(rpc), NEW x, rpc' = [rpc EXCEPT !.code = x]
    PROVE  rpc' = [segs |-> rpc.segs, whole |-> rpc.whole, routes |-> rpc.routes,
                   token |-> rpc.token, full |-> rpc.full, msg |-> rpc.msg,
                   ident |-> rpc.ident, key |-> rpc.key, gid |-> rpc.gid,
                   standing |-> rpc.standing, reached |-> rpc.reached,
                   err |-> rpc.err, code |-> x]
    BY DEF IsRpc

\* A request whose caller is known.
LEMMA Identified ==
    ASSUME IsRpc(rpc), NEW x, rpc' = [rpc EXCEPT !.ident = x]
    PROVE  rpc' = [segs |-> rpc.segs, whole |-> rpc.whole, routes |-> rpc.routes,
                   token |-> rpc.token, full |-> rpc.full, msg |-> rpc.msg,
                   ident |-> x, key |-> rpc.key, gid |-> rpc.gid,
                   standing |-> rpc.standing, reached |-> rpc.reached,
                   err |-> rpc.err, code |-> rpc.code]
    BY DEF IsRpc

\* A request whose bucket is known.
LEMMA Keyed ==
    ASSUME IsRpc(rpc), NEW x, rpc' = [rpc EXCEPT !.key = x]
    PROVE  rpc' = [segs |-> rpc.segs, whole |-> rpc.whole, routes |-> rpc.routes,
                   token |-> rpc.token, full |-> rpc.full, msg |-> rpc.msg,
                   ident |-> rpc.ident, key |-> x, gid |-> rpc.gid,
                   standing |-> rpc.standing, reached |-> rpc.reached,
                   err |-> rpc.err, code |-> rpc.code]
    BY DEF IsRpc

\* A request whose bucket is empty.
LEMMA KeyedCoded ==
    ASSUME IsRpc(rpc), NEW x, NEW y, rpc' = [[rpc EXCEPT !.key = x] EXCEPT !.code = y]
    PROVE  rpc' = [segs |-> rpc.segs, whole |-> rpc.whole, routes |-> rpc.routes,
                   token |-> rpc.token, full |-> rpc.full, msg |-> rpc.msg,
                   ident |-> rpc.ident, key |-> x, gid |-> rpc.gid,
                   standing |-> rpc.standing, reached |-> rpc.reached,
                   err |-> rpc.err, code |-> y]
    BY DEF IsRpc

\* AuthInterceptor: nobody for Version, the anonymous curator when
\* authentication is off, the token's subject otherwise.
LEMMA AuthStep ==
    ASSUME IInv, AuthInterceptor
    PROVE  IInv'
<1>1. stage = "auth" /\ env' = env /\ env \in Envs /\ Starts(env) /\ IsRpc(rpc)
    BY DEF AuthInterceptor, IInv, TypeOK, Started
<1>2. rpc.ident = NoIdentity /\ rpc.token \in Tokens
    BY <1>1 DEF IInv, NobodyYet, TypeOK
<1>3. ASSUME NEW c \in {"Unauthenticated", "PermissionDenied"}, Answer(c)  PROVE IInv'
  <2>1. c \in Codes \ {"Unimplemented"} /\ stage \in Called /\ stage' = "done"
    BY <1>1, <1>3 DEF Codes, Called, Answer
  <2> QED  BY <1>1, <1>3, <2>1, Stopped, Coded DEF Answer
<1>4. ASSUME NEW id, id.role \in RoleNone..RoleCurator, stage' = "limit",
             rpc' = [rpc EXCEPT !.ident = id], IsCaller(rpc)'
      PROVE  IInv'
  <2>1. Charged' /\ Granted'
    BY <1>4 DEF Charged, Granted
  <2>2. stage \in {"auth", "limit", "role"} /\ stage' \in {"limit", "role", "handler"}
    BY <1>1, <1>4
  <2> QED  BY <1>1, <1>4, <2>1, <2>2, Passed, Identified
<1>5. CASE rpc.full \in noAuth
  <2>1. stage' = "limit" /\ rpc' = rpc
    BY <1>5 DEF AuthInterceptor
  <2>2. rpc' = [rpc EXCEPT !.ident = NoIdentity]
    BY <1>1, <1>2, <2>1 DEF IsRpc
  <2>3. IsCaller(rpc)'
    BY <1>2, <1>5, <2>1 DEF IsCaller, noAuth
  <2>4. NoIdentity.role \in RoleNone..RoleCurator
    BY DEF NoIdentity, RoleNone, RoleCurator
  <2> QED  BY <1>4, <2>1, <2>2, <2>3, <2>4
<1>6. CASE rpc.full \notin noAuth /\ AuthDisabled(FromEnv(env))
  <2>1. stage' = "limit" /\ rpc' = [rpc EXCEPT !.ident = Anonymous]
    BY <1>6 DEF AuthInterceptor
  <2>2. rpc'.ident = Anonymous
    BY <1>1, <2>1, Identified
  <2>3. env.mode = "disabled" /\ ~env.production
    BY <1>1, <1>6 DEF Starts, AuthDisabled, FromEnv
  <2>4. IsCaller(rpc)'
    BY <1>1, <2>2, <2>3 DEF IsCaller
  <2>5. Anonymous.role \in RoleNone..RoleCurator
    BY DEF Anonymous, RoleNone, RoleCurator
  <2> QED  BY <1>4, <2>1, <2>4, <2>5
<1>7. CASE rpc.full \notin noAuth /\ ~AuthDisabled(FromEnv(env))
  <2> DEFINE ids == VerifyToken(NewVerifier(FromEnv(env)), rpc.token)
  <2>1. CASE rpc.token = NoToken \/ ids = {}
    BY <1>3, <1>7, <2>1 DEF AuthInterceptor
  <2>2. CASE rpc.token # NoToken /\ ids # {}
    <3>1. PICK id \in ids : IF id.role = RoleNone THEN Answer("PermissionDenied")
                            ELSE stage' = "limit" /\ rpc' = [rpc EXCEPT !.ident = id]
      BY <1>7, <2>2 DEF AuthInterceptor
    <3>2. CASE Answer("PermissionDenied")
      BY <1>3, <3>2
    <3>3. CASE stage' = "limit" /\ rpc' = [rpc EXCEPT !.ident = id]
      <4> DEFINE t == rpc.token
      <4>1. /\ env.mode = "oidc" /\ t.signed /\ t.sub # Blank
            /\ id.subject = <<t.iss, t.sub>> /\ id.role \in RoleViewer..RoleCurator
            /\ LET i == Listed(env.issuers, t.iss)
                   a == Listed(env.audiences, t.aud)
               IN  /\ i # {} /\ a # {}
                   /\ NoBlanks(env.issuers) /\ NoBlanks(env.audiences) => i \cap a # {}
        BY <1>1, <1>7, Verified
      <4>2. rpc'.ident = id /\ rpc'.token = rpc.token /\ rpc'.full = rpc.full
        BY <1>1, <3>3, Identified
      <4>3. IsCaller(rpc)'
        <5>1. id.role >= RoleViewer
          BY <4>1 DEF RoleViewer, RoleCurator
        <5> QED  BY <1>1, <2>2, <4>1, <4>2, <5>1 DEF IsCaller
      <4>4. id.role \in RoleNone..RoleCurator
        BY <4>1 DEF RoleNone, RoleViewer, RoleCurator
      <4> QED  BY <1>4, <3>3, <4>3, <4>4
    <3> QED  BY <3>1, <3>2, <3>3
  <2> QED  BY <2>1, <2>2
<1> QED  BY <1>5, <1>6, <1>7

\* RateLimitInterceptor charges the bucket of the identity it finds.
LEMMA LimitStep ==
    ASSUME IInv, RateLimitInterceptor
    PROVE  IInv'
<1> DEFINE k == SubjectOrPeerKey(rpc)
<1>1. /\ stage = "limit" /\ env' = env /\ IsRpc(rpc) /\ IsCaller(rpc)
      /\ rpc.ident.role \in RoleNone..RoleCurator
    BY DEF RateLimitInterceptor, IInv, Known, TypeOK
<1>2. \/ stage' = "role" /\ rpc' = [rpc EXCEPT !.key = k]
      \/ Refuse([rpc EXCEPT !.key = k], "ResourceExhausted")
    BY DEF RateLimitInterceptor
<1>3. CASE stage' = "role" /\ rpc' = [rpc EXCEPT !.key = k]
  <2> HIDE DEF k
  <2>1. /\ rpc' = [segs |-> rpc.segs, whole |-> rpc.whole, routes |-> rpc.routes,
                   token |-> rpc.token, full |-> rpc.full, msg |-> rpc.msg,
                   ident |-> rpc.ident, key |-> k, gid |-> rpc.gid,
                   standing |-> rpc.standing, reached |-> rpc.reached, err |-> rpc.err,
                   code |-> rpc.code]
    BY <1>1, <1>3, Keyed
  <2>2. /\ rpc'.ident = rpc.ident /\ rpc'.segs = rpc.segs /\ rpc'.key = k
        /\ rpc'.full = rpc.full /\ rpc'.token = rpc.token
    BY <2>1
  <2>3. IsCaller(rpc)'
    BY <1>1, <2>2 DEF IsCaller
  <2>4. Charged' /\ Granted'
    BY <1>3, <2>2 DEF k, Charged, Granted, SubjectOrPeerKey
  <2>5. stage \in {"auth", "limit", "role"} /\ stage' \in {"limit", "role", "handler"}
    BY <1>1, <1>3
  <2> QED  BY <1>1, <2>1, <2>3, <2>4, <2>5, Passed
<1>4. CASE Refuse([rpc EXCEPT !.key = k], "ResourceExhausted")
  <2> HIDE DEF k
  <2>1. /\ rpc' = [segs |-> rpc.segs, whole |-> rpc.whole, routes |-> rpc.routes,
                   token |-> rpc.token, full |-> rpc.full, msg |-> rpc.msg,
                   ident |-> rpc.ident, key |-> k, gid |-> rpc.gid,
                   standing |-> rpc.standing, reached |-> rpc.reached, err |-> rpc.err,
                   code |-> "ResourceExhausted"]
        /\ stage' = "done"
    BY <1>1, <1>4, KeyedCoded DEF Refuse
  <2>2. "ResourceExhausted" \in Codes \ {"Unimplemented"} /\ stage \in Called
    BY <1>1 DEF Codes, Called
  <2> QED  BY <1>1, <2>1, <2>2, Stopped
<1> QED  BY <1>2, <1>3, <1>4

\* RoleInterceptor lets through who has the coarse role of the table.
LEMMA RoleStep ==
    ASSUME IInv, RoleInterceptor
    PROVE  IInv'
<1> DEFINE short == /\ rpc.full \in DOMAIN buildLegacyRoleMap
                    /\ rpc.ident.role < buildLegacyRoleMap[rpc.full]
<1>1. /\ stage = "role" /\ env' = env /\ IsRpc(rpc) /\ IsCaller(rpc) /\ Charged
      /\ rpc.ident.role \in RoleNone..RoleCurator
    BY DEF RoleInterceptor, IInv, Known, TypeOK
<1>2. CASE short
  <2>1. Answer("PermissionDenied")
    BY <1>2 DEF RoleInterceptor
  <2>2. /\ "PermissionDenied" \in Codes \ {"Unimplemented"} /\ stage \in Called
        /\ stage' = "done"
    BY <1>1, <2>1 DEF Codes, Called, Answer
  <2> QED  BY <1>1, <2>1, <2>2, Stopped, Coded DEF Answer
<1>3. CASE ~short
  <2>1. stage' = "handler" /\ rpc' = rpc
    BY <1>3 DEF RoleInterceptor
  <2>2. rpc.full \in DOMAIN buildLegacyRoleMap => buildLegacyRoleMap[rpc.full] \in 1..2
    BY DEF buildLegacyRoleMap, RoleViewer, RoleContributor
  <2>3. Granted'
    BY <1>1, <1>3, <2>1, <2>2 DEF Granted, RoleNone, RoleCurator
  <2>4. IsCaller(rpc)' /\ Charged'
    BY <1>1, <2>1 DEF IsCaller, Charged, SubjectOrPeerKey
  <2>5. stage \in {"auth", "limit", "role"} /\ stage' \in {"limit", "role", "handler"}
    BY <1>1, <2>1
  <2> QED  BY <1>1, <2>1, <2>3, <2>4, <2>5, Passed DEF IsRpc
<1> QED  BY <1>2, <1>3

\* A caller past the interceptors has a subject and a role, but for Version.
LEMMA HasSubject ==
    ASSUME IsCaller(rpc), rpc.full # <<"linea.v1.Server", "Version">>
    PROVE  rpc.ident.subject # <<>> /\ rpc.ident.role >= RoleViewer
<1>1. Anonymous.subject # <<>> /\ Anonymous.role >= RoleViewer
    BY DEF Anonymous, RoleViewer, RoleCurator
<1>2. \A x, y : <<x, y>> # <<>>
    OBVIOUS
<1>3. CASE rpc.ident = Anonymous
    BY <1>1, <1>3
<1>4. CASE /\ rpc.ident.subject = <<rpc.token.iss, rpc.token.sub>>
           /\ rpc.ident.role >= RoleViewer
    BY <1>2, <1>4
<1> QED  BY <1>3, <1>4 DEF IsCaller

\* A role in a genealogy is a number.
LEMMA ResolveType ==
    ASSUME NEW subject, NEW gid, NEW s \in Standing \cup {NoStanding}
    PROVE  /\ Resolve(subject, gid, s) \in RoleNone..RoleOwner
           /\ gid # Unset /\ subject # <<>> /\ Resolve(subject, gid, s) = RoleNone =>
                s.role = RoleNone
<1>1. s.role \in RoleNone..RoleOwner /\ (s.vis = "absent" => s.role = RoleNone)
    BY DEF Standing, NoStanding, RoleNone, RoleOwner
<1>2. \A v, a : implicitRole(v, a) \in RoleNone..RoleOwner
    BY DEF implicitRole, RoleNone, RoleViewer, RoleContributor, RoleOwner
<1> QED  BY <1>1, <1>2 DEF Resolve, RoleNone, RoleOwner

\* What resolveStore's answer says of the caller.
LEMMA StoreGate ==
    ASSUME NEW m, NEW subject, NEW gid, NEW s \in Standing \cup {NoStanding},
           m.min \in RoleNone..RoleOwner, resolveStore(m, subject, gid, s) = "ok"
    PROVE  /\ Resolve(subject, gid, s) >= m.min
           /\ m.ban /\ subject # <<>> => ~s.banned
<1> DEFINE r == Resolve(subject, gid, s)
<1>1. r \in RoleNone..RoleOwner
    BY ResolveType
<1>2. ~(r < m.min) /\ ~(m.ban /\ subject # <<>> /\ s.banned)
    BY DEF resolveStore
<1> HIDE DEF r
<1>3. r >= m.min
    BY <1>1, <1>2 DEF RoleNone, RoleOwner
<1> QED  BY <1>2, <1>3 DEF r

\* What requireRole's answer says of the caller.
LEMMA RoleGate ==
    ASSUME NEW m, NEW subject, NEW gid, NEW s \in Standing \cup {NoStanding},
           m.min \in RoleNone..RoleOwner, requireRole(m, subject, gid, s) = "ok"
    PROVE  Resolve(subject, gid, s) >= m.min
<1> DEFINE r == Resolve(subject, gid, s)
<1>1. r \in RoleNone..RoleOwner
    BY ResolveType
<1>2. ~(r < m.min)
    BY DEF requireRole, mapAuthzError
<1> HIDE DEF r
<1>3. r >= m.min
    BY <1>1, <1>2 DEF RoleNone, RoleOwner
<1> QED  BY <1>3 DEF r

\* The errors of a method whose caller has no role in the genealogy.
LEMMA DeniedEnds ==
    ASSUME NEW m, NEW subject, NEW gid, NEW s \in Standing \cup {NoStanding}, gid # Unset,
           Resolve(subject, gid, s) = RoleNone, subject # <<>>,
           NEW e \in Ends(m, Gate(m, subject, gid, s), s)
    PROVE  /\ m.gate \in {"resolveStore", "requireRole"} => e \in {"CodePersonNotFound", "plain"}
           /\ m.gate = "leave" => e \in {"ok", "plain"}
<1>1. ASSUME m.gate \in {"resolveStore", "requireRole"}
      PROVE  e \in {"CodePersonNotFound", "plain"}
  <2>1. Gate(m, subject, gid, s) = "CodePersonNotFound"
    BY <1>1 DEF Gate, resolveStore, requireRole, mapAuthzError
  <2> QED  BY <1>1, <2>1 DEF Ends
<1>2. ASSUME m.gate = "leave"  PROVE e \in {"ok", "plain"}
  <2>1. Gate(m, subject, gid, s) = "ok"
    BY <1>2 DEF Gate, requireSubject
  <2>2. s.role = RoleNone
    BY ResolveType
  <2> QED  BY <1>2, <2>1, <2>2 DEF Ends
<1> QED  BY <1>1, <1>2

\* The handler: its genealogy is the one of the message, its gate lets through
\* who has the role, and its error hides a genealogy from who has none.
LEMMA HandlerStep ==
    ASSUME IInv, Handler
    PROVE  IInv'
<1> DEFINE full == rpc.full
           subject == rpc.ident.subject
<1>1. /\ stage = "handler" /\ stage' = "error" /\ env' = env /\ IsRpc(rpc) /\ full \in Served
      /\ rpc.ident.role \in RoleNone..RoleCurator /\ IsCaller(rpc)
      /\ rpc.key = SubjectOrPeerKey(rpc) /\ rpc.code = "none"
    BY DEF Handler, IInv, TypeOK, Known, Charged, Untouched, Called
<1> DEFINE M(n) == Implementation(full[1])[n]
           G(n) == IF M(n).field = Unset THEN Unset ELSE rpc.msg[M(n).field]
           Runs(n) ==
             \E x \in IF G(n) = Unset THEN {NoStanding} ELSE Standing :
               \E e \in Ends(M(n), Gate(M(n), subject, G(n), x), x) :
                 rpc' = [rpc EXCEPT !.gid = G(n), !.standing = x,
                           !.reached = (Gate(M(n), subject, G(n), x) = "ok"), !.err = e]
<1>2. PICK d \in Lookup(full) : Runs(d.serves)
    BY DEF Handler
<1>3. Runs(full[2])
  <2>1. d.serves = full[2]
    BY <1>2, Found
  <2> HIDE DEF Runs
  <2> QED  BY <1>2, <2>1
<1> DEFINE m == M(full[2])
           gid == G(full[2])
<1>4. PICK s \in IF gid = Unset THEN {NoStanding} ELSE Standing :
            \E e \in Ends(m, Gate(m, subject, gid, s), s) :
                rpc' = [rpc EXCEPT !.gid = gid, !.standing = s,
                                   !.reached = (Gate(m, subject, gid, s) = "ok"), !.err = e]
    BY <1>3
<1> DEFINE gate == Gate(m, subject, gid, s)
<1>5. PICK e \in Ends(m, gate, s), b \in BOOLEAN :
            /\ rpc' = [rpc EXCEPT !.gid = gid, !.standing = s, !.reached = b, !.err = e]
            /\ b => gate = "ok"
    BY <1>4
<1>6. s \in Standing \cup {NoStanding} /\ b \in BOOLEAN
    BY <1>4
<1>7. /\ m.field = GenealogyField(full)
      /\ m.field # Unset => \/ /\ m.gate \in {"resolveStore", "requireRole"}
                               /\ full[2] # "LeaveGenealogy"
                            \/ m.gate = "leave" /\ full[2] = "LeaveGenealogy"
      /\ full \in Decisions => m.gate = "resolveStore" /\ m.min = RoleCurator
      /\ full \in Authoring => m.gate = "resolveStore" /\ m.min = RoleContributor
      /\ full \in Managing => m.gate = "requireRole" /\ m.min = RoleCurator
      /\ full \in Owning => m.gate = "requireRole" /\ m.min = RoleOwner
      /\ full[2] \in {"CreateProposal", "Submit"} => m.ban
    BY <1>1, MethodTable
<1>8. gid # Unset => m.field # Unset /\ gid = rpc.msg[m.field]
    OBVIOUS
<1>9. full = <<"linea.v1.Server", "Version">> => m.field = Unset
    BY <1>7 DEF GenealogyField
<1>10. /\ m.gate = "resolveStore" => gate = resolveStore(m, subject, gid, s)
       /\ m.gate = "requireRole" => gate = requireRole(m, subject, gid, s)
    BY DEF Gate
<1> HIDE DEF m, gid, gate
<1>11. rpc' = [segs |-> rpc.segs, whole |-> rpc.whole, routes |-> rpc.routes,
               token |-> rpc.token, full |-> rpc.full, msg |-> rpc.msg,
               ident |-> rpc.ident, key |-> rpc.key, gid |-> gid,
               standing |-> s, reached |-> b, err |-> e, code |-> rpc.code]
  <2>1. rpc' = [rpc EXCEPT !.gid = gid, !.standing = s, !.reached = b, !.err = e]
    BY <1>5
  <2> QED  BY <1>1, <2>1 DEF IsRpc
<1>12. /\ rpc'.segs = rpc.segs /\ rpc'.whole = rpc.whole /\ rpc'.routes = rpc.routes
       /\ rpc'.token = rpc.token /\ rpc'.full = rpc.full /\ rpc'.msg = rpc.msg
       /\ rpc'.ident = rpc.ident /\ rpc'.key = rpc.key /\ rpc'.gid = gid
       /\ rpc'.standing = s /\ rpc'.reached = b /\ rpc'.err = e /\ rpc'.code = rpc.code
    BY <1>11
<1>13. IsRpc(rpc)'
    BY <1>11 DEF IsRpc
<1>14. TypeOK'
    BY <1>1, <1>6, <1>12 DEF IInv, TypeOK, Stages
<1>15. /\ Fresh' /\ Started' /\ Untouched' /\ NobodyYet' /\ Bound'
    BY <1>1 DEF IInv, Fresh, Started, Untouched, NobodyYet, Bound, Before, Called
<1>16. Known' /\ Charged' /\ Granted'
    BY <1>1, <1>12 DEF IInv, Known, Charged, Granted, IsCaller, SubjectOrPeerKey
<1>17. Denied'
  <2> SUFFICES ASSUME gid # Unset, Resolve(subject, gid, s) = RoleNone
               PROVE  e \in {IF full[2] = "LeaveGenealogy" THEN "ok"
                             ELSE "CodePersonNotFound", "plain"}
    BY <1>12 DEF Denied
  <2>1. subject # <<>>
    BY <1>1, <1>8, <1>9, HasSubject
  <2>2. /\ m.gate \in {"resolveStore", "requireRole"} => e \in {"CodePersonNotFound", "plain"}
        /\ m.gate = "leave" => e \in {"ok", "plain"}
    BY <1>5, <1>6, <2>1, DeniedEnds DEF gate
  <2> QED  BY <1>7, <1>8, <2>2
<1>18. TargetFromURL'
  <2>1. Written(3)' = Written(3)
    BY <1>12 DEF Written
  <2>2. gid # Unset /\ rpc.segs # <<>> => gid \in Written(3)
    BY <1>1, <1>7, <1>8 DEF IInv, Bound, Called
  <2> QED  BY <1>1, <1>12, <2>1, <2>2 DEF IInv, TargetFromURL
<1>19. WritersHaveRole'
  <2> DEFINE role == Resolve(subject, gid, s)
             writes == Owning \cup Managing \cup Decisions \cup Authoring
  <2>1. full[2] \in {"CreateProposal", "Submit"} => full \in Authoring
    <3>1. full = <<full[1], full[2]>>
      BY <1>1, Found
    <3> QED  BY <1>1, <3>1, ServedCases DEF Authoring, Named
  <2>2. ASSUME b, full \in writes
        PROVE  /\ role >= m.min /\ rpc.ident.role >= RoleViewer
               /\ full \in Authoring /\ m.ban => ~s.banned
    <3>1. m.min \in RoleNone..RoleOwner
      BY <1>7, <2>2 DEF RoleNone, RoleOwner, RoleCurator, RoleContributor
    <3>2. subject # <<>> /\ rpc.ident.role >= RoleViewer
      <4>1. full # <<"linea.v1.Server", "Version">>
        BY <2>2 DEF Decisions, Authoring, Managing, Owning, Named
      <4> QED  BY <1>1, <4>1, HasSubject
    <3>3. CASE full \in Decisions \cup Authoring
      <4>1. resolveStore(m, subject, gid, s) = "ok"
        BY <1>5, <1>7, <1>10, <2>2, <3>3
      <4> QED  BY <1>6, <3>1, <3>2, <4>1, StoreGate
    <3>4. CASE full \in Managing \cup Owning
      <4>1. requireRole(m, subject, gid, s) = "ok"
        BY <1>5, <1>7, <1>10, <2>2, <3>4
      <4>2. full \notin Authoring
        BY <3>4 DEF Managing, Owning, Authoring, Named
      <4> QED  BY <1>6, <3>1, <3>2, <4>1, <4>2, RoleGate
    <3> QED  BY <2>2, <3>3, <3>4
  <2>3. full \in Decisions \cup Authoring /\ full[2] # "BulkReject" =>
            rpc.ident.role >= RoleContributor
    BY <1>1, CoarseGate DEF IInv, Granted
  <2> HIDE DEF role
  <2>4. b => /\ full \in Owning => role >= RoleOwner
             /\ full \in Decisions \cup Managing => role >= RoleCurator
             /\ full \in Authoring => role >= RoleContributor
             /\ full[2] \in {"CreateProposal", "Submit"} => ~s.banned
             /\ full \in Owning \cup Managing \cup Decisions => rpc.ident.role >= RoleViewer
    BY <1>7, <2>1, <2>2
  <2> QED  BY <1>12, <2>3, <2>4 DEF WritersHaveRole, role
<1>20. DenialHidesExistence'
    BY <1>1 DEF DenialHidesExistence
<1> QED  BY <1>13, <1>14, <1>15, <1>16, <1>17, <1>18, <1>19, <1>20 DEF IInv

\* ErrorInterceptor gives the handler's error its status.
LEMMA ErrorStep ==
    ASSUME IInv, ErrorInterceptor
    PROVE  IInv'
<1> DEFINE c == IF rpc.err = "ok" THEN "OK" ELSE codeFor(rpc.err)
<1>1. /\ stage = "error" /\ stage' = "done" /\ env' = env /\ IsRpc(rpc)
      /\ rpc' = [rpc EXCEPT !.code = c]
    BY DEF ErrorInterceptor, Answer, IInv
<1>2. c \in Codes \ {"Unimplemented"}
    BY DEF codeFor, Codes
<1>3. rpc.err \in {"ok", "CodePersonNotFound", "plain"} =>
        c = CASE rpc.err = "ok" -> "OK" [] rpc.err = "CodePersonNotFound" -> "NotFound"
              [] rpc.err = "plain" -> "Unknown"
    BY DEF codeFor
<1> HIDE DEF c
<1>4. rpc' = [segs |-> rpc.segs, whole |-> rpc.whole, routes |-> rpc.routes,
              token |-> rpc.token, full |-> rpc.full, msg |-> rpc.msg,
              ident |-> rpc.ident, key |-> rpc.key, gid |-> rpc.gid,
              standing |-> rpc.standing, reached |-> rpc.reached,
              err |-> rpc.err, code |-> c]
    BY <1>1, Coded
<1>5. /\ rpc'.segs = rpc.segs /\ rpc'.whole = rpc.whole /\ rpc'.routes = rpc.routes
      /\ rpc'.token = rpc.token /\ rpc'.full = rpc.full /\ rpc'.ident = rpc.ident
      /\ rpc'.gid = rpc.gid /\ rpc'.standing = rpc.standing /\ rpc'.reached = rpc.reached
      /\ rpc'.code = c
    BY <1>4
<1>6. IsRpc(rpc)'
    BY <1>4 DEF IsRpc
<1>7. TypeOK'
    BY <1>1, <1>2, <1>5 DEF IInv, TypeOK, Stages
<1>8. /\ Fresh' /\ Started' /\ Untouched' /\ NobodyYet' /\ Known' /\ Charged' /\ Granted'
      /\ Denied' /\ Bound'
    BY <1>1 DEF IInv, Fresh, Started, Untouched, NobodyYet, Known, Charged, Granted, Denied,
                Bound, Before, Called
<1>9. TargetFromURL'
  <2>1. Written(3)' = Written(3)
    BY <1>5 DEF Written
  <2> QED  BY <1>1, <1>2, <1>5, <2>1 DEF IInv, TargetFromURL
<1>10. WritersHaveRole'
    BY <1>5 DEF IInv, WritersHaveRole
<1>11. DenialHidesExistence'
    BY <1>1, <1>3, <1>5 DEF IInv, Denied, DenialHidesExistence
<1> QED  BY <1>6, <1>7, <1>8, <1>9, <1>10, <1>11 DEF IInv

\* Nothing is left of a request once it is answered.
LEMMA RespondStep ==
    ASSUME IInv, Respond
    PROVE  IInv'
<1>1. /\ stage = "done" /\ stage' = "idle" /\ env' = env /\ rpc' = Idle
    BY DEF Respond
<1>2. /\ Idle.gid = Unset /\ Idle.reached = FALSE /\ Idle.segs = <<>> /\ Idle.token = NoToken
      /\ Idle.routes = 0 /\ Idle.ident = NoIdentity /\ Idle.standing = NoStanding
      /\ Idle.code = "none"
    BY DEF Idle
<1>3. IsRpc(rpc)'
    BY <1>1 DEF IsRpc, Idle
<1>4. TypeOK'
  <2>1. NoIdentity.role \in RoleNone..RoleCurator /\ "none" \in Codes
    BY DEF NoIdentity, RoleNone, RoleCurator, Codes
  <2>2. Idle.reached \in BOOLEAN
    BY DEF Idle
  <2> QED  BY <1>1, <1>2, <2>1, <2>2, TokensAssumption DEF IInv, TypeOK, Stages
<1>5. /\ Fresh' /\ Started' /\ Untouched' /\ NobodyYet' /\ Known' /\ Charged' /\ Granted'
      /\ Denied' /\ Bound'
    BY <1>1 DEF IInv, Fresh, Started, Untouched, NobodyYet, Known, Charged, Granted, Denied,
                Bound, Before, Called
<1>6. TargetFromURL' /\ WritersHaveRole' /\ DenialHidesExistence'
    BY <1>1, <1>2 DEF TargetFromURL, WritersHaveRole, DenialHidesExistence
<1> QED  BY <1>3, <1>4, <1>5, <1>6 DEF IInv

-----------------------------------------------------------------------------
(* Theorems *)

\* The inductive invariant holds before the process has started.
LEMMA InitIInv ==
    ASSUME Init
    PROVE  IInv
<1>1. env \in Envs /\ stage = "boot" /\ rpc = Idle
    BY DEF Init
<1>2. /\ Idle.gid = Unset /\ Idle.reached = FALSE /\ Idle.segs = <<>> /\ Idle.token = NoToken
      /\ Idle.routes = 0 /\ Idle.ident = NoIdentity /\ Idle.standing = NoStanding
      /\ Idle.code = "none"
    BY DEF Idle
<1>3. IsRpc(rpc)
    BY <1>1 DEF IsRpc, Idle
<1>4. TypeOK
  <2>1. NoIdentity.role \in RoleNone..RoleCurator /\ "none" \in Codes
    BY DEF NoIdentity, RoleNone, RoleCurator, Codes
  <2>2. Idle.reached \in BOOLEAN
    BY DEF Idle
  <2> QED  BY <1>1, <1>2, <2>1, <2>2, TokensAssumption DEF TypeOK, Stages
<1>5. /\ Fresh /\ Started /\ Untouched /\ NobodyYet /\ Known /\ Charged /\ Granted
      /\ Denied /\ Bound
    BY <1>1 DEF Fresh, Started, Untouched, NobodyYet, Known, Charged, Granted, Denied,
                Bound, Before, Called
<1>6. TargetFromURL /\ WritersHaveRole /\ DenialHidesExistence
    BY <1>1, <1>2 DEF TargetFromURL, WritersHaveRole, DenialHidesExistence
<1> QED  BY <1>3, <1>4, <1>5, <1>6 DEF IInv

\* Every step of the server keeps the inductive invariant.
LEMMA NextIInv ==
    ASSUME IInv, [Next]_vars
    PROVE  IInv'
<1>1. CASE Next
    BY <1>1, BootStep, RestStep, GrpcStep, AuthStep, LimitStep, RoleStep, HandlerStep,
       ErrorStep, RespondStep DEF Next
<1>2. CASE UNCHANGED vars
  <2>1. env' = env /\ stage' = stage /\ rpc' = rpc
    BY <1>2 DEF vars
  <2>2. IsRpc(rpc)' /\ TypeOK'
    BY <2>1 DEF IInv, IsRpc, TypeOK
  <2>3. /\ Fresh' /\ Started' /\ Untouched' /\ NobodyYet' /\ Known' /\ Charged' /\ Granted'
        /\ Denied' /\ Bound'
    BY <2>1 DEF IInv, Fresh, Started, Untouched, NobodyYet, Known, Charged, Granted, Denied,
                Bound, IsCaller, SubjectOrPeerKey, Written
  <2>4. TargetFromURL' /\ WritersHaveRole' /\ DenialHidesExistence'
    BY <2>1 DEF IInv, TargetFromURL, WritersHaveRole, DenialHidesExistence, Written
  <2> QED  BY <2>2, <2>3, <2>4 DEF IInv
<1> QED  BY <1>1, <1>2

\* The inductive invariant holds of every behaviour of the request path.
THEOREM Inductive == Spec => []IInv
    BY InitIInv, NextIInv, PTL DEF Spec

\* Every variable has its type, and what the interceptors and the handler work
\* on is a registered method with the message that its handler decodes.
THEOREM TypeCorrect == Spec => []TypeOK
<1>1. IInv => TypeOK
    BY DEF IInv
<1> QED  BY <1>1, Inductive, PTL

\* Whatever body and query string a client sends, what the request is about is
\* what its URL says, and one route serves it (the gateway's request_* functions).
THEOREM TargetIsFromURL == Spec => []TargetFromURL
<1>1. IInv => TargetFromURL
    BY DEF IInv
<1> QED  BY <1>1, Inductive, PTL

\* Whatever the environment and the tokens, a handler runs for the subject of a
\* verified token or, outside production, for the anonymous curator, and the
\* limiter has charged that subject (AuthInterceptor, SubjectOrPeerKey).
THEOREM CallersActAsThemselves == Spec => []ActsAsCaller
<1>1. IInv => ActsAsCaller
  <2> SUFFICES ASSUME IInv, stage \in {"handler", "error"}  PROVE ActsAsCaller
    BY DEF ActsAsCaller
  <2>1. IsCaller(rpc) /\ rpc.key = SubjectOrPeerKey(rpc)
    BY DEF IInv, Known, Charged
  <2>2. \A x, y : rpc.ident.subject = <<x, y>> => rpc.key = <<"u:", rpc.ident.subject>>
    BY <2>1 DEF SubjectOrPeerKey
  <2> QED  BY <2>1, <2>2 DEF IsCaller, ActsAsCaller
<1> QED  BY <1>1, Inductive, PTL

\* Whatever the tokens and the requests, a handler that changes a genealogy, its
\* members or its proposals runs for a caller with the role in that genealogy
\* (resolveStore, requireRole); the token's role is bounded only as the role map
\* has it, not at all beyond Viewer for BulkReject (RoleInterceptor).
THEOREM WritersAreEntitled == Spec => []WritersHaveRole
<1>1. IInv => WritersHaveRole
    BY DEF IInv
<1> QED  BY <1>1, Inductive, PTL

\* No answer tells a caller without a role whether the genealogy exists
\* (authz.ErrNotAllowed, ErrorInterceptor).
THEOREM DenialsHideExistence == Spec => []DenialHidesExistence
<1>1. IInv => DenialHidesExistence
    BY DEF IInv
<1> QED  BY <1>1, Inductive, PTL
=============================================================================
