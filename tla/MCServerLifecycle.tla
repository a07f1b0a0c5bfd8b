------------------------- MODULE MCServerLifecycle -------------------------
(***************************************************************************)
(* ServerLifecycle for TLC: two services with a connection each, a REST    *)
(* call on each of them and a call on the gRPC port, in a process that may *)
(* be configured for OIDC, without authentication, or wrongly.             *)
(***************************************************************************)
EXTENDS ServerLifecycle

CONSTANTS s1, s2, r1, r2

MCConn == [c \in {r1, r2} |-> IF c = r1 THEN s1 ELSE s2]

MCEnvs ==
    [mode : {"oidc"}, production : {TRUE}, issuers : {<<"a">>},
     audiences : {<<"x">>, <<"">>}]
    \cup [mode : {"disabled"}, production : BOOLEAN, issuers : {<<"">>}, audiences : {<<"">>}]
=============================================================================
