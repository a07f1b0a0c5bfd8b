--------------------------- MODULE MCRequestPath ---------------------------
(***************************************************************************)
(* RequestPath for TLC.  Every route's URL is sent with every HTTP method  *)
(* and with several verbs; body and query either set nothing or set every  *)
(* field to another genealogy; one URL in each family carries a subject    *)
(* with a slash, which reaches the gateway as two path components.         *)
(***************************************************************************)
EXTENDS RequestPath

Patterns ==
    UNION {{p[n] : n \in DOMAIN p} : p \in {pattern_Server, pattern_Persons,
        pattern_Relationships, pattern_Sources, pattern_Proposals, pattern_Queries,
        pattern_Genealogies}}

\* The values a client writes into a URL: the genealogy is always g1.
Value(p, i) == IF ~p.segs[i].var THEN p.segs[i].name ELSE IF i = 3 THEN "g1" ELSE "x1"
Url(p) == [i \in DOMAIN p.segs |-> Value(p, i)]
Slashed(p) == Append(Url(p), "rest-of-subject")

Filled == [f \in Fields |-> "g2"]
Payloads == {NoFields, Filled}

Http(m, segs, v, payload, ok) ==
    [method |-> m, segs |-> segs, verb |-> v, whole |-> IF v = "" THEN "" ELSE "last:verb",
     body |-> payload, query |-> payload, bodyParses |-> ok, queryParses |-> ok]

MCHttpRequests ==
    {Http(m, Url(p), v, b, TRUE) :
        m \in {"GET", "POST", "PUT", "PATCH", "DELETE"}, p \in Patterns,
        v \in {"", "submit", "bulkReject", "findPaths"}, b \in Payloads}
    \cup {Http(m, Url(p), p.verb, NoFields, FALSE) :
              m \in {"GET", "POST", "PUT", "PATCH"}, p \in Patterns}
    \cup {Http("PUT", Slashed(p), "", NoFields, TRUE) :
              p \in {q \in Patterns : Len(q.segs) = 5}}

\* Direct calls: a message of the method that says g1 throughout, one that sets
\* nothing, and a method that is not registered.
MCGrpcCalls ==
    UNION {{[full |-> f, msg |-> [x \in type |-> v]] : type \in Decodes(f), v \in {"", "g1"}} :
           f \in Served}
    \cup {[full |-> <<"linea.v1.Persons", "DeletePerson">>, msg |-> NoMessage]}

Token(signed, iss, aud, sub, groups) ==
    [signed |-> signed, iss |-> iss, aud |-> aud, sub |-> sub, groups |-> groups]
MCTokens ==
    {NoToken,
     Token(FALSE, "a", "x", "s", {"linea-curator"}),
     Token(TRUE, "a", "x", "s", {"other"}),
     Token(TRUE, "a", "x", "s", {"linea-viewer", "linea-contributor"}),
     Token(TRUE, "b", "y", "s", {"linea-curator"}),
     Token(TRUE, "a", "y", "s", {"linea-curator"}),
     Token(TRUE, "a", "x", "", {"linea-curator"})}

MCEnvs ==
    [mode : {"oidc"}, production : {TRUE},
     issuers : {<<"a", "b">>}, audiences : {<<"x", "y">>, <<"x">>}]
    \cup [mode : {"oidc"}, production : {FALSE},
          issuers : {<<"a", "", "b">>}, audiences : {<<"x", "y", "">>}]
    \cup [mode : {"disabled", "none"}, production : BOOLEAN,
          issuers : {<<"">>}, audiences : {<<"">>}]
=============================================================================
