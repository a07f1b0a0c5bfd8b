-------------------------------- MODULE Auth --------------------------------
(***************************************************************************)
(* Configuration and identity: config.FromEnv, the refusal in main.go, and *)
(* the OIDC verifier of internal/auth.  Everything here is a pure operator.*)
(*                                                                         *)
(* env is the environment of the process: mode (LINEA_AUTH_MODE),          *)
(* production (LINEA_ENV=production), and issuers and audiences, the       *)
(* comma-separated parts of the two OIDC variables after trimming, where   *)
(* "" is a blank part.  A token is a record: signed (the signature, dates  *)
(* and algorithm are good), iss, aud, sub, and groups, the set of role     *)
(* names in the role claim (empty when the claim is absent or of another   *)
(* type).                                                                  *)
(***************************************************************************)
EXTENDS Naturals, Sequences, FiniteSetsExt

RoleNone == 0
RoleViewer == 1
RoleContributor == 2
RoleCurator == 3

-----------------------------------------------------------------------------
(* internal/config and cmd/lineasrv *)

Blank == ""

\* The parts of a list that are not blank, in order: what is kept of the first
\* n parts.
splitCSV(parts) ==
    LET keep[n \in 0..Len(parts)] ==
            IF n = 0 THEN <<>>
            ELSE IF parts[n] = Blank THEN keep[n - 1] ELSE Append(keep[n - 1], parts[n])
    IN  keep[Len(parts)]

FromEnv(env) ==
    LET issuers == splitCSV(env.issuers)
        audiences == splitCSV(env.audiences)
    IN  [mode |-> env.mode, issuers |-> issuers, audiences |-> audiences,
         err |-> \/ env.mode \notin {"oidc", "disabled"}
                 \/ /\ env.mode = "oidc"
                    /\ \/ issuers = <<>> \/ audiences = <<>>
                       \/ Len(issuers) # Len(audiences)]

AuthDisabled(cfg) == cfg.mode = "disabled"

\* main.run goes on to server.New.
Starts(env) ==
    LET cfg == FromEnv(env)
    IN  ~cfg.err /\ ~(AuthDisabled(cfg) /\ env.production)

-----------------------------------------------------------------------------
(* internal/auth *)

\* One verifier per issuer, each with the audience of the same index.
NewVerifier(cfg) ==
    [i \in DOMAIN cfg.issuers |-> [iss |-> cfg.issuers[i], aud |-> cfg.audiences[i]]]

\* go-oidc's IDTokenVerifier.Verify.
Verify(v, token) == token.signed /\ token.iss = v.iss /\ token.aud = v.aud

defaultRoleMap ==
    [g \in {"linea-viewer", "linea-contributor", "linea-curator"} |->
        CASE g = "linea-viewer" -> RoleViewer
          [] g = "linea-contributor" -> RoleContributor
          [] g = "linea-curator" -> RoleCurator]

\* The highest role in the claim; a signed-in user is a Viewer at least.
resolveRole(groups) ==
    Max({RoleViewer} \cup {defaultRoleMap[g] : g \in groups \cap DOMAIN defaultRoleMap})

\* No authorization header with the prefix "Bearer ".
NoToken == [signed |-> FALSE, iss |-> Blank, aud |-> Blank, sub |-> Blank, groups |-> {}]

NoIdentity == [subject |-> <<>>, role |-> RoleNone]
Anonymous == [subject |-> <<"anonymous">>, role |-> RoleCurator]

\* Mutant: any issuer goes with any audience.
VerifyToken_Unpaired(verifiers, token) ==
    IF /\ \E i, j \in DOMAIN verifiers :
            Verify([iss |-> verifiers[i].iss, aud |-> verifiers[j].aud], token)
       /\ token.sub # Blank
    THEN {[subject |-> <<token.iss, token.sub>>, role |-> resolveRole(token.groups)]}
    ELSE {}

\* The identities of a token, as a set: empty when it is refused.  A token
\* that one verifier accepts but that has no subject is refused at once.
VerifyToken(verifiers, token) ==
    IF (\E i \in DOMAIN verifiers : Verify(verifiers[i], token)) /\ token.sub # Blank
    THEN {[subject |-> <<token.iss, token.sub>>, role |-> resolveRole(token.groups)]}
    ELSE {}
=============================================================================
