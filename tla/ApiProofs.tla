----------------------------- MODULE ApiProofs -----------------------------
(***************************************************************************)
(* What the gateway's route tables promise for every HTTP request: at most *)
(* one route takes it, that route names a registered method, and the       *)
(* message's genealogy and its item or user are read from the URL,         *)
(* whatever the body and the query string say.                             *)
(***************************************************************************)
EXTENDS Api, FiniteSetTheorems, TLAPS

\* What a client wrote into the i-th component of the URL of a request.
WrittenIn(h, i) == {h.segs[i]} \cup IF i = Len(h.segs) THEN {h.whole} ELSE {}

\* The field of a method's message that names the genealogy.
GenealogyField(full) ==
    IF full \in {<<"linea.v1.Server", "Version">>,
                 <<"linea.v1.Genealogies", "CreateGenealogy">>,
                 <<"linea.v1.Genealogies", "ListGenealogies">>} THEN Unset
    ELSE IF full \in {<<"linea.v1.Genealogies", "GetGenealogy">>,
                      <<"linea.v1.Genealogies", "UpdateVisibility">>,
                      <<"linea.v1.Genealogies", "DeleteGenealogy">>,
                      <<"linea.v1.Genealogies", "LeaveGenealogy">>} THEN "id"
    ELSE "genealogy_id"

\* A call of the gateway is well formed, names a registered method and carries the
\* message that the method's handler decodes, and what it targets is in the URL.
FromURL(h, c) ==
    /\ c.full \in Served
    /\ c = [full |-> c.full, code |-> c.code, msg |-> c.msg]
    /\ c.code \in {"OK", "InvalidArgument"}
    /\ c.code = "OK" =>
        /\ Decodes(c.full) = {DOMAIN c.msg}
        /\ GenealogyField(c.full) # Unset => c.msg[GenealogyField(c.full)] \in WrittenIn(h, 3)
        /\ Len(h.segs) = 5 =>
            c.msg[IF "subject" \in DOMAIN c.msg THEN "subject" ELSE "id"] \in WrittenIn(h, 5)

-----------------------------------------------------------------------------
(* Which requests the routes of a service claim, by the HTTP method, the   *)
(* length of the path, its literals and the verb.                          *)

In(h, method, kind, n) ==
    h.method = method /\ Len(h.segs) = n /\ h.segs[2] = "g" /\ h.segs[4] = kind
On(h, method, n) == h.method = method /\ Len(h.segs) = n /\ h.segs[2] = "genealogies"

ServerClaims(name, h) ==
    name = "Version" /\ h.method = "GET" /\ Len(h.segs) = 2 /\ h.segs[2] = "version"
PersonsClaims(name, h) ==
    \/ name = "GetPerson" /\ In(h, "GET", "persons", 5)
    \/ name = "ListPersons" /\ In(h, "GET", "persons", 4)
RelationshipsClaims(name, h) ==
    \/ name = "GetRelationship" /\ In(h, "GET", "relationships", 5)
    \/ name = "ListRelationships" /\ In(h, "GET", "relationships", 4)
SourcesClaims(name, h) ==
    \/ name = "GetSource" /\ In(h, "GET", "sources", 5)
    \/ name = "ListSources" /\ In(h, "GET", "sources", 4)
ProposalsClaims(name, h) ==
    \/ name = "GetProposal" /\ In(h, "GET", "proposals", 5)
    \/ name = "ListProposals" /\ In(h, "GET", "proposals", 4)
    \/ name = "CreateProposal" /\ In(h, "POST", "proposals", 4) /\ h.verb = NoVerb
    \/ name = "Submit" /\ In(h, "POST", "proposals", 5) /\ h.verb = "submit"
    \/ name = "Claim" /\ In(h, "POST", "proposals", 5) /\ h.verb = "claim"
    \/ name = "Accept" /\ In(h, "POST", "proposals", 5) /\ h.verb = "accept"
    \/ name = "Reject" /\ In(h, "POST", "proposals", 5) /\ h.verb = "reject"
    \/ name = "Withdraw" /\ In(h, "POST", "proposals", 5) /\ h.verb = "withdraw"
    \/ name = "BulkReject" /\ In(h, "POST", "proposals", 4) /\ h.verb = "bulkReject"
QueriesClaims(name, h) ==
    \/ name = "FindPaths" /\ In(h, "POST", "queries", 4) /\ h.verb = "findPaths"
    \/ name = "NKCA" /\ In(h, "POST", "queries", 4) /\ h.verb = "nkca"
GenealogiesClaims(name, h) ==
    \/ name = "CreateGenealogy" /\ On(h, "POST", 2)
    \/ name = "ListGenealogies" /\ On(h, "GET", 2)
    \/ name = "GetGenealogy" /\ On(h, "GET", 3)
    \/ name = "DeleteGenealogy" /\ On(h, "DELETE", 3)
    \/ name = "UpdateVisibility" /\ On(h, "PATCH", 4)
    \/ name = "LeaveGenealogy" /\ On(h, "POST", 4)
    \/ name = "ListMembers" /\ On(h, "GET", 4)
    \/ name = "UpsertMembership" /\ On(h, "PUT", 5) /\ h.segs[4] = "members"
    \/ name = "RemoveMember" /\ On(h, "DELETE", 5) /\ h.segs[4] = "members"
    \/ name = "BanUser" /\ On(h, "PUT", 5) /\ h.segs[4] = "bans"
    \/ name = "UnbanUser" /\ On(h, "DELETE", 5) /\ h.segs[4] = "bans"

Claims(full, h) ==
    \/ full[1] = "linea.v1.Server" /\ ServerClaims(full[2], h)
    \/ full[1] = "linea.v1.Persons" /\ PersonsClaims(full[2], h)
    \/ full[1] = "linea.v1.Relationships" /\ RelationshipsClaims(full[2], h)
    \/ full[1] = "linea.v1.Sources" /\ SourcesClaims(full[2], h)
    \/ full[1] = "linea.v1.Proposals" /\ ProposalsClaims(full[2], h)
    \/ full[1] = "linea.v1.Queries" /\ QueriesClaims(full[2], h)
    \/ full[1] = "linea.v1.Genealogies" /\ GenealogiesClaims(full[2], h)

\* A path without a verb has none of the routes' verbs.
LEMMA NoVerbIsNone ==
    /\ NoVerb # "submit" /\ NoVerb # "claim" /\ NoVerb # "accept" /\ NoVerb # "reject"
    /\ NoVerb # "withdraw" /\ NoVerb # "bulkReject" /\ NoVerb # "findPaths"
    /\ NoVerb # "nkca"
    BY Zenon DEF NoVerb

\* No request is claimed for two methods.
LEMMA ClaimedOnce ==
    ASSUME NEW h, NEW f, NEW g, Claims(f, h), Claims(g, h)
    PROVE  f[1] = g[1] /\ f[2] = g[2]
<1>1. /\ f[1] = "linea.v1.Server" => ServerClaims(f[2], h)
      /\ f[1] = "linea.v1.Persons" => PersonsClaims(f[2], h)
      /\ f[1] = "linea.v1.Relationships" => RelationshipsClaims(f[2], h)
      /\ f[1] = "linea.v1.Sources" => SourcesClaims(f[2], h)
      /\ f[1] = "linea.v1.Proposals" => ProposalsClaims(f[2], h)
      /\ f[1] = "linea.v1.Queries" => QueriesClaims(f[2], h)
      /\ f[1] = "linea.v1.Genealogies" => GenealogiesClaims(f[2], h)
    BY DEF Claims
<1>2. /\ g[1] = "linea.v1.Server" => ServerClaims(g[2], h)
      /\ g[1] = "linea.v1.Persons" => PersonsClaims(g[2], h)
      /\ g[1] = "linea.v1.Relationships" => RelationshipsClaims(g[2], h)
      /\ g[1] = "linea.v1.Sources" => SourcesClaims(g[2], h)
      /\ g[1] = "linea.v1.Proposals" => ProposalsClaims(g[2], h)
      /\ g[1] = "linea.v1.Queries" => QueriesClaims(g[2], h)
      /\ g[1] = "linea.v1.Genealogies" => GenealogiesClaims(g[2], h)
    BY DEF Claims
<1>3. ASSUME NEW n  PROVE
      /\ ServerClaims(n, h) => h.segs[2] = "version"
      /\ GenealogiesClaims(n, h) => h.segs[2] = "genealogies"
      /\ PersonsClaims(n, h) => h.segs[2] = "g" /\ h.segs[4] = "persons"
      /\ RelationshipsClaims(n, h) => h.segs[2] = "g" /\ h.segs[4] = "relationships"
      /\ SourcesClaims(n, h) => h.segs[2] = "g" /\ h.segs[4] = "sources"
      /\ ProposalsClaims(n, h) => h.segs[2] = "g" /\ h.segs[4] = "proposals"
      /\ QueriesClaims(n, h) => h.segs[2] = "g" /\ h.segs[4] = "queries"
    BY DEF ServerClaims, GenealogiesClaims, PersonsClaims, RelationshipsClaims,
           SourcesClaims, ProposalsClaims, QueriesClaims, In, On
<1>4. f[1] = g[1]
    BY <1>3 DEF Claims
<1>5. ASSUME NEW m, NEW n  PROVE
      /\ ServerClaims(m, h) /\ ServerClaims(n, h) => m = n
      /\ PersonsClaims(m, h) /\ PersonsClaims(n, h) => m = n
      /\ RelationshipsClaims(m, h) /\ RelationshipsClaims(n, h) => m = n
      /\ SourcesClaims(m, h) /\ SourcesClaims(n, h) => m = n
      /\ QueriesClaims(m, h) /\ QueriesClaims(n, h) => m = n
    BY DEF ServerClaims, PersonsClaims, RelationshipsClaims, SourcesClaims, QueriesClaims, In
<1>6. ASSUME NEW m, NEW n, ProposalsClaims(m, h), ProposalsClaims(n, h)  PROVE m = n
    BY <1>6, NoVerbIsNone DEF ProposalsClaims, In
<1>7. ASSUME NEW m, NEW n, GenealogiesClaims(m, h), GenealogiesClaims(n, h)  PROVE m = n
    BY <1>7 DEF GenealogiesClaims, On
<1>8. f[2] = g[2]
    BY <1>1, <1>2, <1>4, <1>5, <1>6, <1>7 DEF Claims
<1> QED  BY <1>4, <1>8

-----------------------------------------------------------------------------
(* The patterns, by the length of the path. *)

\* A path of five: both variables are read from the URL.
LEMMA Path5 ==
    ASSUME NEW h \in HttpRequest, NEW b, NEW d, NEW f, NEW g, f # g, NEW v,
           NEW p, p = Pattern(<<Lit("v1"), Lit(b), Var(f), Lit(d), Var(g)>>, v), Matches(p, h)
    PROVE  /\ Len(h.segs) = 5 /\ h.segs[2] = b /\ h.segs[4] = d
           /\ v # NoVerb => h.verb = v
           /\ PathParams(p, h)[f] \in WrittenIn(h, 3)
           /\ PathParams(p, h)[g] \in WrittenIn(h, 5)
<1>1. /\ p.verb = v /\ Len(p.segs) = 5 /\ DOMAIN p.segs = 1..5
      /\ p.segs[1] = Lit("v1") /\ p.segs[2] = Lit(b) /\ p.segs[3] = Var(f)
      /\ p.segs[4] = Lit(d) /\ p.segs[5] = Var(g)
    BY DEF Pattern
<1>2. /\ ~p.segs[1].var /\ ~p.segs[2].var /\ p.segs[3].var /\ ~p.segs[4].var /\ p.segs[5].var
      /\ p.segs[2].name = b /\ p.segs[3].name = f /\ p.segs[4].name = d /\ p.segs[5].name = g
    BY <1>1 DEF Lit, Var
<1>3. Len(h.segs) = 5 /\ p.verb \in {NoVerb, h.verb}
    BY <1>1 DEF Matches
<1>4. \A i \in 1..5 : p.segs[i].var \/ p.segs[i].name = Component(p, h, i)
    BY <1>1 DEF Matches
<1>5. 2 # 5 /\ 3 # 5 /\ 4 # 5
    OBVIOUS
<1>6. /\ Component(p, h, 2) = h.segs[2] /\ Component(p, h, 4) = h.segs[4]
      /\ Component(p, h, 3) = h.segs[3]
    BY <1>3, <1>5, Zenon DEF Component
<1>7. h.segs[2] = b /\ h.segs[4] = d
    BY <1>2, <1>4, <1>6
<1> DEFINE at == {i \in DOMAIN p.segs : p.segs[i].var}
           place(x) == CHOOSE i \in at : p.segs[i].name = x
<1>8. at = {3, 5}
    BY <1>1, <1>2
<1>9. {p.segs[i].name : i \in at} = {f, g}
    BY <1>2, <1>8
<1>10. place(f) = 3 /\ place(g) = 5
    BY <1>2, <1>8
<1>11. PathParams(p, h) = [x \in {f, g} |-> Component(p, h, place(x))]
    BY <1>9 DEF PathParams
<1> HIDE DEF place
<1>12. PathParams(p, h)[f] = Component(p, h, 3) /\ PathParams(p, h)[g] = Component(p, h, 5)
    BY <1>10, <1>11
<1>13. Component(p, h, 5) \in {h.segs[5], h.whole}
    BY DEF Component
<1> QED  BY <1>1, <1>3, <1>6, <1>7, <1>12, <1>13 DEF WrittenIn

\* A path of four ends with a literal, so the verb of the request is the one of
\* the pattern.
LEMMA Path4 ==
    ASSUME NEW h \in HttpRequest, NEW b, NEW d \in Literals, NEW f, NEW v,
           NEW p, p = Pattern(<<Lit("v1"), Lit(b), Var(f), Lit(d)>>, v), Matches(p, h)
    PROVE  /\ Len(h.segs) = 4 /\ h.segs[2] = b /\ h.segs[4] = d /\ h.verb = v
           /\ PathParams(p, h)[f] \in WrittenIn(h, 3)
<1>1. /\ p.verb = v /\ Len(p.segs) = 4 /\ DOMAIN p.segs = 1..4
      /\ p.segs[1] = Lit("v1") /\ p.segs[2] = Lit(b) /\ p.segs[3] = Var(f)
      /\ p.segs[4] = Lit(d)
    BY DEF Pattern
<1>2. /\ ~p.segs[1].var /\ ~p.segs[2].var /\ p.segs[3].var /\ ~p.segs[4].var
      /\ p.segs[2].name = b /\ p.segs[3].name = f /\ p.segs[4].name = d
    BY <1>1 DEF Lit, Var
<1>3. Len(h.segs) = 4 /\ p.verb \in {NoVerb, h.verb}
    BY <1>1 DEF Matches
<1>4. \A i \in 1..4 : p.segs[i].var \/ p.segs[i].name = Component(p, h, i)
    BY <1>1 DEF Matches
<1>5. 2 # 4 /\ 3 # 4
    OBVIOUS
<1>6. Component(p, h, 2) = h.segs[2] /\ Component(p, h, 3) = h.segs[3]
    BY <1>3, <1>5, Zenon DEF Component
<1>7. h.segs[2] = b /\ Component(p, h, 4) = d
    BY <1>2, <1>4, <1>6
<1>8. h.verb = v /\ h.segs[4] = d
  <2>1. h.verb # NoVerb => h.whole # d
    BY DEF HttpRequest
  <2>2. ~(h.verb # NoVerb /\ p.verb = NoVerb)
    BY <1>3, <1>7, <2>1, Zenon DEF Component
  <2>3. p.verb = h.verb
    BY <1>3, <2>2
  <2>4. h.segs[4] = d
    BY <1>7, <2>2, Zenon DEF Component
  <2> QED  BY <1>1, <2>3, <2>4
<1> DEFINE at == {i \in DOMAIN p.segs : p.segs[i].var}
           place(x) == CHOOSE i \in at : p.segs[i].name = x
<1>9. at = {3}
    BY <1>1, <1>2
<1>10. {p.segs[i].name : i \in at} = {f} /\ place(f) = 3
    BY <1>2, <1>9
<1>11. PathParams(p, h) = [x \in {f} |-> Component(p, h, place(x))]
    BY <1>10 DEF PathParams
<1> HIDE DEF place
<1>12. PathParams(p, h)[f] = Component(p, h, 3)
    BY <1>10, <1>11
<1> QED  BY <1>3, <1>6, <1>7, <1>8, <1>12 DEF WrittenIn

\* A path of three ends with its variable, a verb that no pattern asked for
\* included.
LEMMA Path3 ==
    ASSUME NEW h \in HttpRequest, NEW b, NEW f,
           NEW p, p = Pattern(<<Lit("v1"), Lit(b), Var(f)>>, NoVerb), Matches(p, h)
    PROVE  /\ Len(h.segs) = 3 /\ h.segs[2] = b
           /\ PathParams(p, h)[f] \in WrittenIn(h, 3)
<1>1. /\ p.verb = NoVerb /\ Len(p.segs) = 3 /\ DOMAIN p.segs = 1..3
      /\ p.segs[1] = Lit("v1") /\ p.segs[2] = Lit(b) /\ p.segs[3] = Var(f)
    BY DEF Pattern
<1>2. /\ ~p.segs[1].var /\ ~p.segs[2].var /\ p.segs[3].var
      /\ p.segs[2].name = b /\ p.segs[3].name = f
    BY <1>1 DEF Lit, Var
<1>3. Len(h.segs) = 3
    BY <1>1 DEF Matches
<1>4. \A i \in 1..3 : p.segs[i].var \/ p.segs[i].name = Component(p, h, i)
    BY <1>1 DEF Matches
<1>5. 2 # 3
    OBVIOUS
<1>6. Component(p, h, 2) = h.segs[2] /\ Component(p, h, 3) \in {h.segs[3], h.whole}
    BY <1>3, <1>5, Zenon DEF Component
<1>7. h.segs[2] = b
    BY <1>2, <1>4, <1>6
<1> DEFINE at == {i \in DOMAIN p.segs : p.segs[i].var}
           place(x) == CHOOSE i \in at : p.segs[i].name = x
<1>9. at = {3}
    BY <1>1, <1>2
<1>10. {p.segs[i].name : i \in at} = {f} /\ place(f) = 3
    BY <1>2, <1>9
<1>11. PathParams(p, h) = [x \in {f} |-> Component(p, h, place(x))]
    BY <1>10 DEF PathParams
<1> HIDE DEF place
<1>12. PathParams(p, h)[f] = Component(p, h, 3)
    BY <1>10, <1>11
<1> QED  BY <1>3, <1>6, <1>7, <1>12 DEF WrittenIn

\* A path of two has no variable.
LEMMA Path2 ==
    ASSUME NEW h \in HttpRequest, NEW b \in Literals,
           NEW p, p = Pattern(<<Lit("v1"), Lit(b)>>, NoVerb), Matches(p, h)
    PROVE  Len(h.segs) = 2 /\ h.segs[2] = b
<1>1. /\ p.verb = NoVerb /\ Len(p.segs) = 2 /\ DOMAIN p.segs = 1..2
      /\ p.segs[2] = Lit(b)
    BY DEF Pattern
<1>2. ~p.segs[2].var /\ p.segs[2].name = b
    BY <1>1 DEF Lit
<1>3. Len(h.segs) = 2 /\ Component(p, h, 2) = b
    BY <1>1, <1>2 DEF Matches
<1>4. h.verb # NoVerb => h.whole # b
    BY DEF HttpRequest
<1>5. h.segs[2] = b
    BY <1>1, <1>3, <1>4, Zenon DEF Component
<1> QED  BY <1>3, <1>5

-----------------------------------------------------------------------------
(* The calls of the routes. *)

\* What Handle makes of a route, with the message that its request_* function
\* builds: the fields of the path over those of the body or the query.
Calls(h, method, p, full, type, bound, parses, rest) ==
    IF h.method = method /\ Matches(p, h)
    THEN {Invoke(full, bound, PathParams(p, h), parses,
                 Message(type, bound, PathParams(p, h), rest))}
    ELSE {}

\* Nothing is called, or one call is made: of the named method, with its
\* targets from the URL, for a request that the method claims.
Exact(calls, full, h) ==
    \A c \in calls :
        /\ FromURL(h, c) /\ c.full = full /\ Claims(full, h)
        /\ \A d \in calls : d = c

\* A route to an item of a genealogy or to a user's place in one.
LEMMA Call5 ==
    ASSUME NEW h \in HttpRequest, NEW b, NEW kind, NEW g, NEW v, NEW p,
           p = Pattern(<<Lit("v1"), Lit(b), Var("genealogy_id"), Lit(kind), Var(g)>>, v),
           Matches(p, h), NEW full \in Served, GenealogyField(full) = "genealogy_id",
           NEW type, Decodes(full) = {type}, "genealogy_id" \in type, g \in type,
           g = IF "subject" \in type THEN "subject" ELSE "id",
           NEW parses, NEW rest, NEW c,
           c = Invoke(full, {"genealogy_id", g}, PathParams(p, h), parses,
                      Message(type, {"genealogy_id", g}, PathParams(p, h), rest))
    PROVE  /\ FromURL(h, c) /\ c.full = full
           /\ Len(h.segs) = 5 /\ h.segs[2] = b /\ h.segs[4] = kind
           /\ v # NoVerb => h.verb = v
<1> DEFINE path == PathParams(p, h)
           bound == {"genealogy_id", g}
<1>1. g # "genealogy_id"
    OBVIOUS
<1>2. /\ Len(h.segs) = 5 /\ h.segs[2] = b /\ h.segs[4] = kind
      /\ v # NoVerb => h.verb = v
      /\ path["genealogy_id"] \in WrittenIn(h, 3) /\ path[g] \in WrittenIn(h, 5)
    BY <1>1, Path5
<1>3. c = Invoke(full, bound, path, parses, Message(type, bound, path, rest))
    OBVIOUS
<1>4. bound \subseteq type /\ "genealogy_id" \in bound /\ g \in bound
    OBVIOUS
<1> HIDE DEF path, bound
<1>5. /\ c = [full |-> full, code |-> c.code, msg |-> c.msg] /\ c.full = full
      /\ c.code \in {"OK", "InvalidArgument"}
      /\ c.code = "OK" => DOMAIN c.msg = type /\ \A x \in bound : c.msg[x] = path[x]
  <2> DEFINE msg == Message(type, bound, path, rest)
  <2>1. \/ c = [full |-> full, code |-> "OK", msg |-> msg]
        \/ c = [full |-> full, code |-> "InvalidArgument", msg |-> NoFields]
    BY <1>3 DEF Invoke
  <2>2. DOMAIN msg = type /\ \A x \in bound : msg[x] = path[x]
    BY <1>4 DEF Message
  <2> HIDE DEF msg
  <2>3. CASE c = [full |-> full, code |-> "OK", msg |-> msg]
    BY <2>2, <2>3
  <2>4. CASE c = [full |-> full, code |-> "InvalidArgument", msg |-> NoFields]
    BY <2>4
  <2> QED  BY <2>1, <2>3, <2>4
<1> QED  BY <1>2, <1>4, <1>5 DEF FromURL

\* A route to a collection inside a genealogy or to an aspect of one.
LEMMA Call4 ==
    ASSUME NEW h \in HttpRequest, NEW b, NEW kind \in Literals, NEW f, NEW v, NEW p,
           p = Pattern(<<Lit("v1"), Lit(b), Var(f), Lit(kind)>>, v),
           Matches(p, h), NEW full \in Served, GenealogyField(full) = f,
           NEW type, Decodes(full) = {type}, f \in type, NEW parses, NEW rest, NEW c,
           c = Invoke(full, {f}, PathParams(p, h), parses,
                      Message(type, {f}, PathParams(p, h), rest))
    PROVE  /\ FromURL(h, c) /\ c.full = full
           /\ Len(h.segs) = 4 /\ h.segs[2] = b /\ h.segs[4] = kind /\ h.verb = v
<1> DEFINE path == PathParams(p, h)
<1>1. /\ Len(h.segs) = 4 /\ h.segs[2] = b /\ h.segs[4] = kind /\ h.verb = v
      /\ path[f] \in WrittenIn(h, 3)
    BY Path4
<1>2. c = Invoke(full, {f}, path, parses, Message(type, {f}, path, rest))
    OBVIOUS
<1> HIDE DEF path
<1>3. /\ c = [full |-> full, code |-> c.code, msg |-> c.msg] /\ c.full = full
      /\ c.code \in {"OK", "InvalidArgument"}
      /\ c.code = "OK" => DOMAIN c.msg = type /\ c.msg[f] = path[f]
    BY <1>2 DEF Invoke, Message
<1> QED  BY <1>1, <1>3 DEF FromURL

\* A route to a genealogy.
LEMMA Call3 ==
    ASSUME NEW h \in HttpRequest, NEW b, NEW f, NEW p,
           p = Pattern(<<Lit("v1"), Lit(b), Var(f)>>, NoVerb),
           Matches(p, h), NEW full \in Served, GenealogyField(full) = f,
           NEW type, Decodes(full) = {type}, f \in type, NEW parses, NEW rest, NEW c,
           c = Invoke(full, {f}, PathParams(p, h), parses,
                      Message(type, {f}, PathParams(p, h), rest))
    PROVE  FromURL(h, c) /\ c.full = full /\ Len(h.segs) = 3 /\ h.segs[2] = b
<1> DEFINE path == PathParams(p, h)
<1>1. Len(h.segs) = 3 /\ h.segs[2] = b /\ path[f] \in WrittenIn(h, 3)
    BY Path3
<1>2. c = Invoke(full, {f}, path, parses, Message(type, {f}, path, rest))
    OBVIOUS
<1> HIDE DEF path
<1>3. /\ c = [full |-> full, code |-> c.code, msg |-> c.msg] /\ c.full = full
      /\ c.code \in {"OK", "InvalidArgument"}
      /\ c.code = "OK" => DOMAIN c.msg = type /\ c.msg[f] = path[f]
    BY <1>2 DEF Invoke, Message
<1> QED  BY <1>1, <1>3 DEF FromURL

\* A route without a variable.
LEMMA Call2 ==
    ASSUME NEW h \in HttpRequest, NEW b \in Literals, NEW p,
           p = Pattern(<<Lit("v1"), Lit(b)>>, NoVerb),
           Matches(p, h), NEW full \in Served, GenealogyField(full) = Unset,
           NEW type, Decodes(full) = {type}, NEW parses, NEW rest, NEW c,
           c = Invoke(full, {}, PathParams(p, h), parses,
                      Message(type, {}, PathParams(p, h), rest))
    PROVE  FromURL(h, c) /\ c.full = full /\ Len(h.segs) = 2 /\ h.segs[2] = b
<1> DEFINE path == PathParams(p, h)
<1>1. Len(h.segs) = 2 /\ h.segs[2] = b
    BY Path2
<1>2. c = Invoke(full, {}, path, parses, Message(type, {}, path, rest))
    OBVIOUS
<1> HIDE DEF path
<1>3. /\ c = [full |-> full, code |-> c.code, msg |-> c.msg] /\ c.full = full
      /\ c.code \in {"OK", "InvalidArgument"}
      /\ c.code = "OK" => DOMAIN c.msg = type
    BY <1>2 DEF Invoke, Message
<1> QED  BY <1>1, <1>3 DEF FromURL


\* A route to an item of a genealogy is exact, when its method claims the
\* requests that the route matches.
LEMMA ItemRoute ==
    ASSUME NEW h \in HttpRequest, NEW method, NEW kind, NEW v,
           NEW full \in Served, GenealogyField(full) = "genealogy_id",
           NEW type, Decodes(full) = {type}, {"genealogy_id", "id"} \subseteq type,
           "subject" \notin type, NEW parses, NEW rest,
           In(h, method, kind, 5) /\ (v # NoVerb => h.verb = v) => Claims(full, h)
    PROVE  Exact(Calls(h, method, Pattern(Item(kind), v), full, type, {"genealogy_id", "id"},
                       parses, rest), full, h)
<1> DEFINE p == Pattern(Item(kind), v)
           bound == {"genealogy_id", "id"}
           calls == Calls(h, method, p, full, type, bound, parses, rest)
<1>1. ASSUME NEW c \in calls
      PROVE  FromURL(h, c) /\ c.full = full /\ Claims(full, h) /\ calls = {c}
  <2>1. /\ h.method = method /\ Matches(p, h) /\ calls = {c}
        /\ c = Invoke(full, bound, PathParams(p, h), parses,
                      Message(type, bound, PathParams(p, h), rest))
    BY <1>1 DEF Calls
  <2>2. p = Pattern(<<Lit("v1"), Lit("g"), Var("genealogy_id"), Lit(kind), Var("id")>>, v)
    BY DEF Item
  <2>3. "id" = IF "subject" \in type THEN "subject" ELSE "id"
    OBVIOUS
  <2> HIDE DEF p, calls
  <2>4. /\ FromURL(h, c) /\ c.full = full
        /\ Len(h.segs) = 5 /\ h.segs[2] = "g" /\ h.segs[4] = kind
        /\ v # NoVerb => h.verb = v
    BY <2>1, <2>2, <2>3, Call5
  <2> QED  BY <2>1, <2>4 DEF In
<1> QED  BY <1>1 DEF Exact


\* A route to a user's place in a genealogy is exact.
LEMMA PlaceRoute ==
    ASSUME NEW h \in HttpRequest, NEW method, NEW kind,
           NEW full \in Served, GenealogyField(full) = "genealogy_id",
           NEW type, Decodes(full) = {type}, {"genealogy_id", "subject"} \subseteq type,
           NEW parses, NEW rest,
           On(h, method, 5) /\ h.segs[4] = kind => Claims(full, h)
    PROVE  Exact(Calls(h, method, Pattern(Place(kind), NoVerb), full, type, {"genealogy_id", "subject"}, parses, rest), full, h)
<1> DEFINE p == Pattern(Place(kind), NoVerb)
           bound == {"genealogy_id", "subject"}
           calls == Calls(h, method, p, full, type, bound, parses, rest)
<1>1. ASSUME NEW c \in calls
      PROVE  FromURL(h, c) /\ c.full = full /\ Claims(full, h) /\ calls = {c}
  <2>1. /\ h.method = method /\ Matches(p, h) /\ calls = {c}
        /\ c = Invoke(full, bound, PathParams(p, h), parses,
                      Message(type, bound, PathParams(p, h), rest))
    BY <1>1 DEF Calls
  <2>2. p = Pattern(<<Lit("v1"), Lit("genealogies"), Var("genealogy_id"), Lit(kind), Var("subject")>>,
                    NoVerb)
    BY DEF Place
  <2>3. "subject" = IF "subject" \in type THEN "subject" ELSE "id"
    OBVIOUS
  <2> HIDE DEF p, calls
  <2>4. FromURL(h, c) /\ c.full = full /\ Len(h.segs) = 5 /\ h.segs[2] = "genealogies" /\ h.segs[4] = kind
    BY <2>1, <2>2, <2>3, Call5
  <2> QED  BY <2>1, <2>4 DEF In, On
<1> QED  BY <1>1 DEF Exact

\* A route to a collection inside a genealogy is exact.
LEMMA InsideRoute ==
    ASSUME NEW h \in HttpRequest, NEW method, NEW kind \in Literals, NEW v,
           NEW full \in Served, GenealogyField(full) = "genealogy_id",
           NEW type, Decodes(full) = {type}, "genealogy_id" \in type, NEW parses, NEW rest,
           In(h, method, kind, 4) /\ h.verb = v => Claims(full, h)
    PROVE  Exact(Calls(h, method, Pattern(Inside(kind), v), full, type, {"genealogy_id"}, parses, rest), full, h)
<1> DEFINE p == Pattern(Inside(kind), v)
           bound == {"genealogy_id"}
           calls == Calls(h, method, p, full, type, bound, parses, rest)
<1>1. ASSUME NEW c \in calls
      PROVE  FromURL(h, c) /\ c.full = full /\ Claims(full, h) /\ calls = {c}
  <2>1. /\ h.method = method /\ Matches(p, h) /\ calls = {c}
        /\ c = Invoke(full, bound, PathParams(p, h), parses,
                      Message(type, bound, PathParams(p, h), rest))
    BY <1>1 DEF Calls
  <2>2. p = Pattern(<<Lit("v1"), Lit("g"), Var("genealogy_id"), Lit(kind)>>, v)
    BY DEF Inside
  <2> HIDE DEF p, calls
  <2>4. FromURL(h, c) /\ c.full = full /\ Len(h.segs) = 4 /\ h.segs[2] = "g" /\ h.segs[4] = kind /\ h.verb = v
    BY <2>1, <2>2, Call4
  <2> QED  BY <2>1, <2>4 DEF In, On
<1> QED  BY <1>1 DEF Exact

\* A route to an aspect of a genealogy is exact.
LEMMA OfRoute ==
    ASSUME NEW h \in HttpRequest, NEW method, NEW kind \in Literals, NEW f,
           NEW full \in Served, GenealogyField(full) = f,
           NEW type, Decodes(full) = {type}, f \in type, NEW parses, NEW rest,
           On(h, method, 4) /\ h.segs[4] = kind => Claims(full, h)
    PROVE  Exact(Calls(h, method, Pattern(Of(f, kind), NoVerb), full, type, {f}, parses, rest), full, h)
<1> DEFINE p == Pattern(Of(f, kind), NoVerb)
           bound == {f}
           calls == Calls(h, method, p, full, type, bound, parses, rest)
<1>1. ASSUME NEW c \in calls
      PROVE  FromURL(h, c) /\ c.full = full /\ Claims(full, h) /\ calls = {c}
  <2>1. /\ h.method = method /\ Matches(p, h) /\ calls = {c}
        /\ c = Invoke(full, bound, PathParams(p, h), parses,
                      Message(type, bound, PathParams(p, h), rest))
    BY <1>1 DEF Calls
  <2>2. p = Pattern(<<Lit("v1"), Lit("genealogies"), Var(f), Lit(kind)>>, NoVerb)
    BY DEF Of
  <2> HIDE DEF p, calls
  <2>4. FromURL(h, c) /\ c.full = full /\ Len(h.segs) = 4 /\ h.segs[2] = "genealogies" /\ h.segs[4] = kind
    BY <2>1, <2>2, Call4
  <2> QED  BY <2>1, <2>4 DEF In, On
<1> QED  BY <1>1 DEF Exact

\* A route to a genealogy is exact.
LEMMA GenealogyRoute ==
    ASSUME NEW h \in HttpRequest, NEW method, NEW f,
           NEW full \in Served, GenealogyField(full) = f,
           NEW type, Decodes(full) = {type}, f \in type, NEW parses, NEW rest,
           On(h, method, 3) => Claims(full, h)
    PROVE  Exact(Calls(h, method, Pattern(<<Lit("v1"), Lit("genealogies"), Var(f)>>, NoVerb), full, type, {f}, parses, rest), full, h)
<1> DEFINE p == Pattern(<<Lit("v1"), Lit("genealogies"), Var(f)>>, NoVerb)
           bound == {f}
           calls == Calls(h, method, p, full, type, bound, parses, rest)
<1>1. ASSUME NEW c \in calls
      PROVE  FromURL(h, c) /\ c.full = full /\ Claims(full, h) /\ calls = {c}
  <2>1. /\ h.method = method /\ Matches(p, h) /\ calls = {c}
        /\ c = Invoke(full, bound, PathParams(p, h), parses,
                      Message(type, bound, PathParams(p, h), rest))
    BY <1>1 DEF Calls
  <2>2. p = Pattern(<<Lit("v1"), Lit("genealogies"), Var(f)>>, NoVerb)
    OBVIOUS
  <2> HIDE DEF p, calls
  <2>4. FromURL(h, c) /\ c.full = full /\ Len(h.segs) = 3 /\ h.segs[2] = "genealogies"
    BY <2>1, <2>2, Call3
  <2> QED  BY <2>1, <2>4 DEF In, On
<1> QED  BY <1>1 DEF Exact

\* A route without a variable is exact.
LEMMA TopRoute ==
    ASSUME NEW h \in HttpRequest, NEW method, NEW b \in Literals,
           NEW full \in Served, GenealogyField(full) = Unset,
           NEW type, Decodes(full) = {type}, NEW parses, NEW rest,
           h.method = method /\ Len(h.segs) = 2 /\ h.segs[2] = b => Claims(full, h)
    PROVE  Exact(Calls(h, method, Pattern(<<Lit("v1"), Lit(b)>>, NoVerb), full, type, {}, parses, rest), full, h)
<1> DEFINE p == Pattern(<<Lit("v1"), Lit(b)>>, NoVerb)
           bound == {}
           calls == Calls(h, method, p, full, type, bound, parses, rest)
<1>1. ASSUME NEW c \in calls
      PROVE  FromURL(h, c) /\ c.full = full /\ Claims(full, h) /\ calls = {c}
  <2>1. /\ h.method = method /\ Matches(p, h) /\ calls = {c}
        /\ c = Invoke(full, bound, PathParams(p, h), parses,
                      Message(type, bound, PathParams(p, h), rest))
    BY <1>1 DEF Calls
  <2>2. p = Pattern(<<Lit("v1"), Lit(b)>>, NoVerb)
    OBVIOUS
  <2> HIDE DEF p, calls
  <2>4. FromURL(h, c) /\ c.full = full /\ Len(h.segs) = 2 /\ h.segs[2] = b
    BY <2>1, <2>2, Call2
  <2> QED  BY <2>1, <2>4 DEF In, On
<1> QED  BY <1>1 DEF Exact

-----------------------------------------------------------------------------
(* The services' routes. *)

\* The calls of a set of routes are well formed and claimed, at most one for
\* each method.
Routed(calls, service, h) ==
    \A c \in calls :
        /\ FromURL(h, c) /\ c.full[1] = service /\ Claims(c.full, h)
        /\ \A d \in calls : d.full = c.full => d = c

\* The names that registerServices knows are the ones the stubs call.
LEMMA ServedNames ==
    /\ <<"linea.v1.Server", "Version">> \in Served
    /\ \A n \in {"GetPerson", "ListPersons"} : <<"linea.v1.Persons", n>> \in Served
    /\ \A n \in {"GetRelationship", "ListRelationships"} :
            <<"linea.v1.Relationships", n>> \in Served
    /\ \A n \in {"GetSource", "ListSources"} : <<"linea.v1.Sources", n>> \in Served
    /\ \A n \in {"GetProposal", "ListProposals", "CreateProposal", "Submit", "Claim",
                 "Accept", "Reject", "Withdraw", "BulkReject"} :
            <<"linea.v1.Proposals", n>> \in Served
    /\ \A n \in {"FindPaths", "NKCA"} : <<"linea.v1.Queries", n>> \in Served
    /\ \A n \in {"CreateGenealogy", "ListGenealogies", "GetGenealogy", "UpdateVisibility",
                 "DeleteGenealogy", "UpsertMembership", "RemoveMember", "LeaveGenealogy",
                 "BanUser", "UnbanUser", "ListMembers"} :
            <<"linea.v1.Genealogies", n>> \in Served
<1>1. \A d \in registerServices : \A n \in DOMAIN d.methods : <<d.name, n>> \in Served
    BY DEF Served
<1>2. /\ Server_ServiceDesc.name = "linea.v1.Server"
      /\ Server_ServiceDesc \in registerServices
      /\ DOMAIN Server_ServiceDesc.methods = {"Version"}
    BY DEF registerServices, Server_ServiceDesc, Server_Handler, Handlers, Server_FullMethodNames, Methods
<1>3. /\ Persons_ServiceDesc.name = "linea.v1.Persons"
      /\ Persons_ServiceDesc \in registerServices
      /\ DOMAIN Persons_ServiceDesc.methods = {"GetPerson", "ListPersons"}
    BY DEF registerServices, Persons_ServiceDesc, Persons_Handler, Handlers, Persons_FullMethodNames,
           Methods
<1>4. /\ Relationships_ServiceDesc.name = "linea.v1.Relationships"
      /\ Relationships_ServiceDesc \in registerServices
      /\ DOMAIN Relationships_ServiceDesc.methods = {"GetRelationship", "ListRelationships"}
    BY DEF registerServices, Relationships_ServiceDesc, Relationships_Handler, Handlers,
           Relationships_FullMethodNames, Methods
<1>5. /\ Sources_ServiceDesc.name = "linea.v1.Sources"
      /\ Sources_ServiceDesc \in registerServices
      /\ DOMAIN Sources_ServiceDesc.methods = {"GetSource", "ListSources"}
    BY DEF registerServices, Sources_ServiceDesc, Sources_Handler, Handlers, Sources_FullMethodNames,
           Methods
<1>6. /\ Proposals_ServiceDesc.name = "linea.v1.Proposals"
      /\ Proposals_ServiceDesc \in registerServices
      /\ DOMAIN Proposals_ServiceDesc.methods =
            {"GetProposal", "ListProposals", "CreateProposal", "Submit", "Claim", "Accept",
             "Reject", "Withdraw", "BulkReject"}
    BY DEF registerServices, Proposals_ServiceDesc, Proposals_Handler, Handlers,
           Proposals_FullMethodNames, Methods
<1>7. /\ Queries_ServiceDesc.name = "linea.v1.Queries"
      /\ Queries_ServiceDesc \in registerServices
      /\ DOMAIN Queries_ServiceDesc.methods = {"FindPaths", "NKCA"}
    BY DEF registerServices, Queries_ServiceDesc, Queries_Handler, Handlers, Queries_FullMethodNames,
           Methods
<1>8. /\ Genealogies_ServiceDesc.name = "linea.v1.Genealogies"
      /\ Genealogies_ServiceDesc \in registerServices
      /\ DOMAIN Genealogies_ServiceDesc.methods =
            {"CreateGenealogy", "ListGenealogies", "GetGenealogy", "UpdateVisibility",
             "DeleteGenealogy", "UpsertMembership", "RemoveMember", "LeaveGenealogy",
             "BanUser", "UnbanUser", "ListMembers"}
    BY DEF registerServices, Genealogies_ServiceDesc, Genealogies_Handler, Handlers,
           Genealogies_FullMethodNames, Methods
<1> QED  BY <1>1, <1>2, <1>3, <1>4, <1>5, <1>6, <1>7, <1>8

\* Every handler decodes the message that is named after its method (a transition
\* of a proposal: TransitionRequest).
LEMMA DecodedNames ==
    /\ Decodes(<<"linea.v1.Server", "Version">>) = {VersionRequest}
    /\ Decodes(<<"linea.v1.Persons", "GetPerson">>) = {GetPersonRequest}
    /\ Decodes(<<"linea.v1.Persons", "ListPersons">>) = {ListPersonsRequest}
    /\ Decodes(<<"linea.v1.Relationships", "GetRelationship">>) = {GetRelationshipRequest}
    /\ Decodes(<<"linea.v1.Relationships", "ListRelationships">>) = {ListRelationshipsRequest}
    /\ Decodes(<<"linea.v1.Sources", "GetSource">>) = {GetSourceRequest}
    /\ Decodes(<<"linea.v1.Sources", "ListSources">>) = {ListSourcesRequest}
    /\ Decodes(<<"linea.v1.Proposals", "GetProposal">>) = {GetProposalRequest}
    /\ Decodes(<<"linea.v1.Proposals", "ListProposals">>) = {ListProposalsRequest}
    /\ Decodes(<<"linea.v1.Proposals", "CreateProposal">>) = {CreateProposalRequest}
    /\ Decodes(<<"linea.v1.Proposals", "Submit">>) = {TransitionRequest}
    /\ Decodes(<<"linea.v1.Proposals", "Claim">>) = {TransitionRequest}
    /\ Decodes(<<"linea.v1.Proposals", "Accept">>) = {TransitionRequest}
    /\ Decodes(<<"linea.v1.Proposals", "Reject">>) = {TransitionRequest}
    /\ Decodes(<<"linea.v1.Proposals", "Withdraw">>) = {TransitionRequest}
    /\ Decodes(<<"linea.v1.Proposals", "BulkReject">>) = {BulkRejectRequest}
    /\ Decodes(<<"linea.v1.Queries", "FindPaths">>) = {FindPathsRequest}
    /\ Decodes(<<"linea.v1.Queries", "NKCA">>) = {NKCARequest}
    /\ Decodes(<<"linea.v1.Genealogies", "CreateGenealogy">>) = {CreateGenealogyRequest}
    /\ Decodes(<<"linea.v1.Genealogies", "ListGenealogies">>) = {ListGenealogiesRequest}
    /\ Decodes(<<"linea.v1.Genealogies", "GetGenealogy">>) = {GetGenealogyRequest}
    /\ Decodes(<<"linea.v1.Genealogies", "UpdateVisibility">>) = {UpdateVisibilityRequest}
    /\ Decodes(<<"linea.v1.Genealogies", "DeleteGenealogy">>) = {DeleteGenealogyRequest}
    /\ Decodes(<<"linea.v1.Genealogies", "UpsertMembership">>) = {UpsertMembershipRequest}
    /\ Decodes(<<"linea.v1.Genealogies", "RemoveMember">>) = {RemoveMemberRequest}
    /\ Decodes(<<"linea.v1.Genealogies", "LeaveGenealogy">>) = {LeaveGenealogyRequest}
    /\ Decodes(<<"linea.v1.Genealogies", "BanUser">>) = {BanUserRequest}
    /\ Decodes(<<"linea.v1.Genealogies", "UnbanUser">>) = {UnbanUserRequest}
    /\ Decodes(<<"linea.v1.Genealogies", "ListMembers">>) = {ListMembersRequest}
<1>1. ASSUME NEW d \in registerServices, NEW n \in DOMAIN d.methods
      PROVE  Decodes(<<d.name, n>>) = {d.methods[n].in}
  <2>1. \A e \in registerServices : e.name = d.name => e = d
    BY DEF registerServices, Server_ServiceDesc, Persons_ServiceDesc, Relationships_ServiceDesc,
           Sources_ServiceDesc, Proposals_ServiceDesc, Queries_ServiceDesc,
           Genealogies_ServiceDesc
  <2> QED  BY <2>1 DEF Decodes, Lookup
<1>2. /\ Server_ServiceDesc.name = "linea.v1.Server"
      /\ Server_ServiceDesc \in registerServices
      /\ "Version" \in DOMAIN Server_ServiceDesc.methods
      /\ Server_ServiceDesc.methods["Version"].in = VersionRequest
    BY DEF registerServices, Server_ServiceDesc, Server_Handler, Handlers,
           Server_FullMethodNames, Methods
<1>3. /\ Persons_ServiceDesc.name = "linea.v1.Persons"
      /\ Persons_ServiceDesc \in registerServices
      /\ "GetPerson" \in DOMAIN Persons_ServiceDesc.methods
      /\ Persons_ServiceDesc.methods["GetPerson"].in = GetPersonRequest
      /\ "ListPersons" \in DOMAIN Persons_ServiceDesc.methods
      /\ Persons_ServiceDesc.methods["ListPersons"].in = ListPersonsRequest
    BY DEF registerServices, Persons_ServiceDesc, Persons_Handler, Handlers,
           Persons_FullMethodNames, Methods
<1>4. /\ Relationships_ServiceDesc.name = "linea.v1.Relationships"
      /\ Relationships_ServiceDesc \in registerServices
      /\ "GetRelationship" \in DOMAIN Relationships_ServiceDesc.methods
      /\ Relationships_ServiceDesc.methods["GetRelationship"].in = GetRelationshipRequest
      /\ "ListRelationships" \in DOMAIN Relationships_ServiceDesc.methods
      /\ Relationships_ServiceDesc.methods["ListRelationships"].in = ListRelationshipsRequest
    BY DEF registerServices, Relationships_ServiceDesc, Relationships_Handler, Handlers,
           Relationships_FullMethodNames, Methods
<1>5. /\ Sources_ServiceDesc.name = "linea.v1.Sources"
      /\ Sources_ServiceDesc \in registerServices
      /\ "GetSource" \in DOMAIN Sources_ServiceDesc.methods
      /\ Sources_ServiceDesc.methods["GetSource"].in = GetSourceRequest
      /\ "ListSources" \in DOMAIN Sources_ServiceDesc.methods
      /\ Sources_ServiceDesc.methods["ListSources"].in = ListSourcesRequest
    BY DEF registerServices, Sources_ServiceDesc, Sources_Handler, Handlers,
           Sources_FullMethodNames, Methods
<1>6. /\ Proposals_ServiceDesc.name = "linea.v1.Proposals"
      /\ Proposals_ServiceDesc \in registerServices
      /\ "GetProposal" \in DOMAIN Proposals_ServiceDesc.methods
      /\ Proposals_ServiceDesc.methods["GetProposal"].in = GetProposalRequest
      /\ "ListProposals" \in DOMAIN Proposals_ServiceDesc.methods
      /\ Proposals_ServiceDesc.methods["ListProposals"].in = ListProposalsRequest
      /\ "CreateProposal" \in DOMAIN Proposals_ServiceDesc.methods
      /\ Proposals_ServiceDesc.methods["CreateProposal"].in = CreateProposalRequest
      /\ "Submit" \in DOMAIN Proposals_ServiceDesc.methods
      /\ Proposals_ServiceDesc.methods["Submit"].in = TransitionRequest
      /\ "Claim" \in DOMAIN Proposals_ServiceDesc.methods
      /\ Proposals_ServiceDesc.methods["Claim"].in = TransitionRequest
      /\ "Accept" \in DOMAIN Proposals_ServiceDesc.methods
      /\ Proposals_ServiceDesc.methods["Accept"].in = TransitionRequest
      /\ "Reject" \in DOMAIN Proposals_ServiceDesc.methods
      /\ Proposals_ServiceDesc.methods["Reject"].in = TransitionRequest
      /\ "Withdraw" \in DOMAIN Proposals_ServiceDesc.methods
      /\ Proposals_ServiceDesc.methods["Withdraw"].in = TransitionRequest
      /\ "BulkReject" \in DOMAIN Proposals_ServiceDesc.methods
      /\ Proposals_ServiceDesc.methods["BulkReject"].in = BulkRejectRequest
    BY DEF registerServices, Proposals_ServiceDesc, Proposals_Handler, Handlers,
           Proposals_FullMethodNames, Methods
<1>7. /\ Queries_ServiceDesc.name = "linea.v1.Queries"
      /\ Queries_ServiceDesc \in registerServices
      /\ "FindPaths" \in DOMAIN Queries_ServiceDesc.methods
      /\ Queries_ServiceDesc.methods["FindPaths"].in = FindPathsRequest
      /\ "NKCA" \in DOMAIN Queries_ServiceDesc.methods
      /\ Queries_ServiceDesc.methods["NKCA"].in = NKCARequest
    BY DEF registerServices, Queries_ServiceDesc, Queries_Handler, Handlers,
           Queries_FullMethodNames, Methods
<1>8. /\ Genealogies_ServiceDesc.name = "linea.v1.Genealogies"
      /\ Genealogies_ServiceDesc \in registerServices
      /\ "CreateGenealogy" \in DOMAIN Genealogies_ServiceDesc.methods
      /\ Genealogies_ServiceDesc.methods["CreateGenealogy"].in = CreateGenealogyRequest
      /\ "ListGenealogies" \in DOMAIN Genealogies_ServiceDesc.methods
      /\ Genealogies_ServiceDesc.methods["ListGenealogies"].in = ListGenealogiesRequest
      /\ "GetGenealogy" \in DOMAIN Genealogies_ServiceDesc.methods
      /\ Genealogies_ServiceDesc.methods["GetGenealogy"].in = GetGenealogyRequest
      /\ "UpdateVisibility" \in DOMAIN Genealogies_ServiceDesc.methods
      /\ Genealogies_ServiceDesc.methods["UpdateVisibility"].in = UpdateVisibilityRequest
      /\ "DeleteGenealogy" \in DOMAIN Genealogies_ServiceDesc.methods
      /\ Genealogies_ServiceDesc.methods["DeleteGenealogy"].in = DeleteGenealogyRequest
      /\ "UpsertMembership" \in DOMAIN Genealogies_ServiceDesc.methods
      /\ Genealogies_ServiceDesc.methods["UpsertMembership"].in = UpsertMembershipRequest
      /\ "RemoveMember" \in DOMAIN Genealogies_ServiceDesc.methods
      /\ Genealogies_ServiceDesc.methods["RemoveMember"].in = RemoveMemberRequest
      /\ "LeaveGenealogy" \in DOMAIN Genealogies_ServiceDesc.methods
      /\ Genealogies_ServiceDesc.methods["LeaveGenealogy"].in = LeaveGenealogyRequest
      /\ "BanUser" \in DOMAIN Genealogies_ServiceDesc.methods
      /\ Genealogies_ServiceDesc.methods["BanUser"].in = BanUserRequest
      /\ "UnbanUser" \in DOMAIN Genealogies_ServiceDesc.methods
      /\ Genealogies_ServiceDesc.methods["UnbanUser"].in = UnbanUserRequest
      /\ "ListMembers" \in DOMAIN Genealogies_ServiceDesc.methods
      /\ Genealogies_ServiceDesc.methods["ListMembers"].in = ListMembersRequest
    BY DEF registerServices, Genealogies_ServiceDesc, Genealogies_Handler, Handlers,
           Genealogies_FullMethodNames, Methods
<1> QED  BY <1>1, <1>2, <1>3, <1>4, <1>5, <1>6, <1>7, <1>8

\* The routes of Server.
LEMMA ServerRoutes ==
    ASSUME NEW h \in HttpRequest
    PROVE  Routed(RegisterServerHandlerClient(h), "linea.v1.Server", h)
<1>1. serverClient.Version = <<"linea.v1.Server", "Version">>
    BY DEF serverClient, Server_FullMethodNames, Methods
<1>2. GenealogyField(<<"linea.v1.Server", "Version">>) = Unset
    BY DEF GenealogyField
<1>3. Exact(Handle(h, "GET", pattern_Server.Version,
                   request_Server_Version_0),
            <<"linea.v1.Server", "Version">>, h)
  <2>1. Handle(h, "GET", pattern_Server.Version,
                   request_Server_Version_0) =
        Calls(h, "GET", Pattern(<<Lit("v1"), Lit("version")>>, NoVerb),
              <<"linea.v1.Server", "Version">>, VersionRequest,
              {}, TRUE, NoFields)
    BY <1>1 DEF Handle, Calls, request_Server_Version_0, FromPath, pattern_Server
  <2>2. "version" \in Literals
    BY DEF Literals
  <2>3. h.method = "GET" /\ Len(h.segs) = 2 /\ h.segs[2] = "version" =>
            Claims(<<"linea.v1.Server", "Version">>, h)
    BY DEF Claims, ServerClaims
  <2>4. /\ <<"linea.v1.Server", "Version">> \in Served
        /\ Decodes(<<"linea.v1.Server", "Version">>) = {VersionRequest}
    BY ServedNames, DecodedNames
  <2> QED  BY <1>2, <2>1, <2>2, <2>3, <2>4, TopRoute
<1> QED
    BY <1>3
    DEF RegisterServerHandlerClient, Exact, Routed

\* The routes of Persons.
LEMMA PersonsRoutes ==
    ASSUME NEW h \in HttpRequest
    PROVE  Routed(RegisterPersonsHandlerClient(h), "linea.v1.Persons", h)
<1>1. /\ personsClient.GetPerson = <<"linea.v1.Persons", "GetPerson">>
      /\ personsClient.ListPersons = <<"linea.v1.Persons", "ListPersons">>
    BY DEF personsClient, Persons_FullMethodNames, Methods
<1>2. /\ GenealogyField(<<"linea.v1.Persons", "GetPerson">>) = "genealogy_id"
      /\ GenealogyField(<<"linea.v1.Persons", "ListPersons">>) = "genealogy_id"
    BY DEF GenealogyField
<1>3. Exact(Handle(h, "GET", pattern_Persons.GetPerson,
                   request_Persons_GetPerson_0),
            <<"linea.v1.Persons", "GetPerson">>, h)
  <2>1. Handle(h, "GET", pattern_Persons.GetPerson,
                   request_Persons_GetPerson_0) =
        Calls(h, "GET", Pattern(Item("persons"), NoVerb),
              <<"linea.v1.Persons", "GetPerson">>, GetPersonRequest,
              {"genealogy_id", "id"}, h.queryParses, h.query)
    BY <1>1 DEF Handle, Calls, request_Persons_GetPerson_0, FromQuery, pattern_Persons
  <2>2. {"genealogy_id", "id"} \subseteq GetPersonRequest /\ "subject" \notin GetPersonRequest
    BY DEF GetPersonRequest
  <2>3. In(h, "GET", "persons", 5) =>
            Claims(<<"linea.v1.Persons", "GetPerson">>, h)
    BY DEF Claims, PersonsClaims
  <2>4. /\ <<"linea.v1.Persons", "GetPerson">> \in Served
        /\ Decodes(<<"linea.v1.Persons", "GetPerson">>) = {GetPersonRequest}
    BY ServedNames, DecodedNames
  <2> QED  BY <1>2, <2>1, <2>2, <2>3, <2>4, ItemRoute
<1>4. Exact(Handle(h, "GET", pattern_Persons.ListPersons,
                   request_Persons_ListPersons_0),
            <<"linea.v1.Persons", "ListPersons">>, h)
  <2>1. Handle(h, "GET", pattern_Persons.ListPersons,
                   request_Persons_ListPersons_0) =
        Calls(h, "GET", Pattern(Inside("persons"), NoVerb),
              <<"linea.v1.Persons", "ListPersons">>, ListPersonsRequest,
              {"genealogy_id"}, h.queryParses, h.query)
    BY <1>1 DEF Handle, Calls, request_Persons_ListPersons_0, FromQuery, pattern_Persons
  <2>2. "genealogy_id" \in ListPersonsRequest /\ "persons" \in Literals
    BY DEF ListPersonsRequest, Literals
  <2>3. In(h, "GET", "persons", 4) /\ h.verb = NoVerb =>
            Claims(<<"linea.v1.Persons", "ListPersons">>, h)
    BY DEF Claims, PersonsClaims
  <2>4. /\ <<"linea.v1.Persons", "ListPersons">> \in Served
        /\ Decodes(<<"linea.v1.Persons", "ListPersons">>) = {ListPersonsRequest}
    BY ServedNames, DecodedNames
  <2> QED  BY <1>2, <2>1, <2>2, <2>3, <2>4, InsideRoute
<1> QED
    BY <1>3, <1>4
    DEF RegisterPersonsHandlerClient, Exact, Routed

\* The routes of Relationships.
LEMMA RelationshipsRoutes ==
    ASSUME NEW h \in HttpRequest
    PROVE  Routed(RegisterRelationshipsHandlerClient(h), "linea.v1.Relationships", h)
<1>1. /\ relationshipsClient.GetRelationship = <<"linea.v1.Relationships", "GetRelationship">>
      /\ relationshipsClient.ListRelationships = <<"linea.v1.Relationships", "ListRelationships">>
    BY DEF relationshipsClient, Relationships_FullMethodNames, Methods
<1>2. /\ GenealogyField(<<"linea.v1.Relationships", "GetRelationship">>) = "genealogy_id"
      /\ GenealogyField(<<"linea.v1.Relationships", "ListRelationships">>) = "genealogy_id"
    BY DEF GenealogyField
<1>3. Exact(Handle(h, "GET", pattern_Relationships.GetRelationship,
                   request_Relationships_GetRelationship_0),
            <<"linea.v1.Relationships", "GetRelationship">>, h)
  <2>1. Handle(h, "GET", pattern_Relationships.GetRelationship,
                   request_Relationships_GetRelationship_0) =
        Calls(h, "GET", Pattern(Item("relationships"), NoVerb),
              <<"linea.v1.Relationships", "GetRelationship">>, GetRelationshipRequest,
              {"genealogy_id", "id"}, h.queryParses, h.query)
    BY <1>1 DEF Handle, Calls, request_Relationships_GetRelationship_0, FromQuery, pattern_Relationships
  <2>2. {"genealogy_id", "id"} \subseteq GetRelationshipRequest /\ "subject" \notin GetRelationshipRequest
    BY DEF GetRelationshipRequest
  <2>3. In(h, "GET", "relationships", 5) =>
            Claims(<<"linea.v1.Relationships", "GetRelationship">>, h)
    BY DEF Claims, RelationshipsClaims
  <2>4. /\ <<"linea.v1.Relationships", "GetRelationship">> \in Served
        /\ Decodes(<<"linea.v1.Relationships", "GetRelationship">>) = {GetRelationshipRequest}
    BY ServedNames, DecodedNames
  <2> QED  BY <1>2, <2>1, <2>2, <2>3, <2>4, ItemRoute
<1>4. Exact(Handle(h, "GET", pattern_Relationships.ListRelationships,
                   request_Relationships_ListRelationships_0),
            <<"linea.v1.Relationships", "ListRelationships">>, h)
  <2>1. Handle(h, "GET", pattern_Relationships.ListRelationships,
                   request_Relationships_ListRelationships_0) =
        Calls(h, "GET", Pattern(Inside("relationships"), NoVerb),
              <<"linea.v1.Relationships", "ListRelationships">>, ListRelationshipsRequest,
              {"genealogy_id"}, h.queryParses, h.query)
    BY <1>1 DEF Handle, Calls, request_Relationships_ListRelationships_0, FromQuery, pattern_Relationships
  <2>2. "genealogy_id" \in ListRelationshipsRequest /\ "relationships" \in Literals
    BY DEF ListRelationshipsRequest, Literals
  <2>3. In(h, "GET", "relationships", 4) /\ h.verb = NoVerb =>
            Claims(<<"linea.v1.Relationships", "ListRelationships">>, h)
    BY DEF Claims, RelationshipsClaims
  <2>4. /\ <<"linea.v1.Relationships", "ListRelationships">> \in Served
        /\ Decodes(<<"linea.v1.Relationships", "ListRelationships">>) = {ListRelationshipsRequest}
    BY ServedNames, DecodedNames
  <2> QED  BY <1>2, <2>1, <2>2, <2>3, <2>4, InsideRoute
<1> QED
    BY <1>3, <1>4
    DEF RegisterRelationshipsHandlerClient, Exact, Routed

\* The routes of Sources.
LEMMA SourcesRoutes ==
    ASSUME NEW h \in HttpRequest
    PROVE  Routed(RegisterSourcesHandlerClient(h), "linea.v1.Sources", h)
<1>1. /\ sourcesClient.GetSource = <<"linea.v1.Sources", "GetSource">>
      /\ sourcesClient.ListSources = <<"linea.v1.Sources", "ListSources">>
    BY DEF sourcesClient, Sources_FullMethodNames, Methods
<1>2. /\ GenealogyField(<<"linea.v1.Sources", "GetSource">>) = "genealogy_id"
      /\ GenealogyField(<<"linea.v1.Sources", "ListSources">>) = "genealogy_id"
    BY DEF GenealogyField
<1>3. Exact(Handle(h, "GET", pattern_Sources.GetSource,
                   request_Sources_GetSource_0),
            <<"linea.v1.Sources", "GetSource">>, h)
  <2>1. Handle(h, "GET", pattern_Sources.GetSource,
                   request_Sources_GetSource_0) =
        Calls(h, "GET", Pattern(Item("sources"), NoVerb),
              <<"linea.v1.Sources", "GetSource">>, GetSourceRequest,
              {"genealogy_id", "id"}, h.queryParses, h.query)
    BY <1>1 DEF Handle, Calls, request_Sources_GetSource_0, FromQuery, pattern_Sources
  <2>2. {"genealogy_id", "id"} \subseteq GetSourceRequest /\ "subject" \notin GetSourceRequest
    BY DEF GetSourceRequest
  <2>3. In(h, "GET", "sources", 5) =>
            Claims(<<"linea.v1.Sources", "GetSource">>, h)
    BY DEF Claims, SourcesClaims
  <2>4. /\ <<"linea.v1.Sources", "GetSource">> \in Served
        /\ Decodes(<<"linea.v1.Sources", "GetSource">>) = {GetSourceRequest}
    BY ServedNames, DecodedNames
  <2> QED  BY <1>2, <2>1, <2>2, <2>3, <2>4, ItemRoute
<1>4. Exact(Handle(h, "GET", pattern_Sources.ListSources,
                   request_Sources_ListSources_0),
            <<"linea.v1.Sources", "ListSources">>, h)
  <2>1. Handle(h, "GET", pattern_Sources.ListSources,
                   request_Sources_ListSources_0) =
        Calls(h, "GET", Pattern(Inside("sources"), NoVerb),
              <<"linea.v1.Sources", "ListSources">>, ListSourcesRequest,
              {"genealogy_id"}, h.queryParses, h.query)
    BY <1>1 DEF Handle, Calls, request_Sources_ListSources_0, FromQuery, pattern_Sources
  <2>2. "genealogy_id" \in ListSourcesRequest /\ "sources" \in Literals
    BY DEF ListSourcesRequest, Literals
  <2>3. In(h, "GET", "sources", 4) /\ h.verb = NoVerb =>
            Claims(<<"linea.v1.Sources", "ListSources">>, h)
    BY DEF Claims, SourcesClaims
  <2>4. /\ <<"linea.v1.Sources", "ListSources">> \in Served
        /\ Decodes(<<"linea.v1.Sources", "ListSources">>) = {ListSourcesRequest}
    BY ServedNames, DecodedNames
  <2> QED  BY <1>2, <2>1, <2>2, <2>3, <2>4, InsideRoute
<1> QED
    BY <1>3, <1>4
    DEF RegisterSourcesHandlerClient, Exact, Routed

\* The routes of Proposals.
LEMMA ProposalsRoutes ==
    ASSUME NEW h \in HttpRequest
    PROVE  Routed(RegisterProposalsHandlerClient(h), "linea.v1.Proposals", h)
<1>1. /\ proposalsClient.GetProposal = <<"linea.v1.Proposals", "GetProposal">>
      /\ proposalsClient.ListProposals = <<"linea.v1.Proposals", "ListProposals">>
      /\ proposalsClient.CreateProposal = <<"linea.v1.Proposals", "CreateProposal">>
      /\ proposalsClient.Submit = <<"linea.v1.Proposals", "Submit">>
      /\ proposalsClient.Claim = <<"linea.v1.Proposals", "Claim">>
      /\ proposalsClient.Accept = <<"linea.v1.Proposals", "Accept">>
      /\ proposalsClient.Reject = <<"linea.v1.Proposals", "Reject">>
      /\ proposalsClient.Withdraw = <<"linea.v1.Proposals", "Withdraw">>
      /\ proposalsClient.BulkReject = <<"linea.v1.Proposals", "BulkReject">>
    BY DEF proposalsClient, Proposals_FullMethodNames, Methods
<1>2. /\ GenealogyField(<<"linea.v1.Proposals", "GetProposal">>) = "genealogy_id"
      /\ GenealogyField(<<"linea.v1.Proposals", "ListProposals">>) = "genealogy_id"
      /\ GenealogyField(<<"linea.v1.Proposals", "CreateProposal">>) = "genealogy_id"
      /\ GenealogyField(<<"linea.v1.Proposals", "Submit">>) = "genealogy_id"
      /\ GenealogyField(<<"linea.v1.Proposals", "Claim">>) = "genealogy_id"
      /\ GenealogyField(<<"linea.v1.Proposals", "Accept">>) = "genealogy_id"
      /\ GenealogyField(<<"linea.v1.Proposals", "Reject">>) = "genealogy_id"
      /\ GenealogyField(<<"linea.v1.Proposals", "Withdraw">>) = "genealogy_id"
      /\ GenealogyField(<<"linea.v1.Proposals", "BulkReject">>) = "genealogy_id"
    BY DEF GenealogyField
<1>3. Exact(Handle(h, "GET", pattern_Proposals.GetProposal,
                   request_Proposals_GetProposal_0),
            <<"linea.v1.Proposals", "GetProposal">>, h)
  <2>1. Handle(h, "GET", pattern_Proposals.GetProposal,
                   request_Proposals_GetProposal_0) =
        Calls(h, "GET", Pattern(Item("proposals"), NoVerb),
              <<"linea.v1.Proposals", "GetProposal">>, GetProposalRequest,
              {"genealogy_id", "id"}, h.queryParses, h.query)
    BY <1>1 DEF Handle, Calls, request_Proposals_GetProposal_0, FromQuery, pattern_Proposals
  <2>2. {"genealogy_id", "id"} \subseteq GetProposalRequest /\ "subject" \notin GetProposalRequest
    BY DEF GetProposalRequest
  <2>3. In(h, "GET", "proposals", 5) =>
            Claims(<<"linea.v1.Proposals", "GetProposal">>, h)
    BY DEF Claims, ProposalsClaims
  <2>4. /\ <<"linea.v1.Proposals", "GetProposal">> \in Served
        /\ Decodes(<<"linea.v1.Proposals", "GetProposal">>) = {GetProposalRequest}
    BY ServedNames, DecodedNames
  <2> QED  BY <1>2, <2>1, <2>2, <2>3, <2>4, ItemRoute
<1>4. Exact(Handle(h, "GET", pattern_Proposals.ListProposals,
                   request_Proposals_ListProposals_0),
            <<"linea.v1.Proposals", "ListProposals">>, h)
  <2>1. Handle(h, "GET", pattern_Proposals.ListProposals,
                   request_Proposals_ListProposals_0) =
        Calls(h, "GET", Pattern(Inside("proposals"), NoVerb),
              <<"linea.v1.Proposals", "ListProposals">>, ListProposalsRequest,
              {"genealogy_id"}, h.queryParses, h.query)
    BY <1>1 DEF Handle, Calls, request_Proposals_ListProposals_0, FromQuery, pattern_Proposals
  <2>2. "genealogy_id" \in ListProposalsRequest /\ "proposals" \in Literals
    BY DEF ListProposalsRequest, Literals
  <2>3. In(h, "GET", "proposals", 4) /\ h.verb = NoVerb =>
            Claims(<<"linea.v1.Proposals", "ListProposals">>, h)
    BY DEF Claims, ProposalsClaims
  <2>4. /\ <<"linea.v1.Proposals", "ListProposals">> \in Served
        /\ Decodes(<<"linea.v1.Proposals", "ListProposals">>) = {ListProposalsRequest}
    BY ServedNames, DecodedNames
  <2> QED  BY <1>2, <2>1, <2>2, <2>3, <2>4, InsideRoute
<1>5. Exact(Handle(h, "POST", pattern_Proposals.CreateProposal,
                   request_Proposals_CreateProposal_0),
            <<"linea.v1.Proposals", "CreateProposal">>, h)
  <2>1. Handle(h, "POST", pattern_Proposals.CreateProposal,
                   request_Proposals_CreateProposal_0) =
        Calls(h, "POST", Pattern(Inside("proposals"), NoVerb),
              <<"linea.v1.Proposals", "CreateProposal">>, CreateProposalRequest,
              {"genealogy_id"}, h.bodyParses, h.body)
    BY <1>1 DEF Handle, Calls, request_Proposals_CreateProposal_0, FromBody, pattern_Proposals
  <2>2. "genealogy_id" \in CreateProposalRequest /\ "proposals" \in Literals
    BY DEF CreateProposalRequest, Literals
  <2>3. In(h, "POST", "proposals", 4) /\ h.verb = NoVerb =>
            Claims(<<"linea.v1.Proposals", "CreateProposal">>, h)
    BY DEF Claims, ProposalsClaims
  <2>4. /\ <<"linea.v1.Proposals", "CreateProposal">> \in Served
        /\ Decodes(<<"linea.v1.Proposals", "CreateProposal">>) = {CreateProposalRequest}
    BY ServedNames, DecodedNames
  <2> QED  BY <1>2, <2>1, <2>2, <2>3, <2>4, InsideRoute
<1>6. Exact(Handle(h, "POST", pattern_Proposals.Submit,
                   request_Proposals_Submit_0),
            <<"linea.v1.Proposals", "Submit">>, h)
  <2>1. Handle(h, "POST", pattern_Proposals.Submit,
                   request_Proposals_Submit_0) =
        Calls(h, "POST", Pattern(Item("proposals"), "submit"),
              <<"linea.v1.Proposals", "Submit">>, TransitionRequest,
              {"genealogy_id", "id"}, h.bodyParses, h.body)
    BY <1>1 DEF Handle, Calls, request_Proposals_Submit_0, FromBody, pattern_Proposals
  <2>2. {"genealogy_id", "id"} \subseteq TransitionRequest /\ "subject" \notin TransitionRequest
    BY DEF TransitionRequest
  <2>3. In(h, "POST", "proposals", 5) /\ h.verb = "submit" =>
            Claims(<<"linea.v1.Proposals", "Submit">>, h)
    BY DEF Claims, ProposalsClaims
  <2>4. /\ <<"linea.v1.Proposals", "Submit">> \in Served
        /\ Decodes(<<"linea.v1.Proposals", "Submit">>) = {TransitionRequest}
    BY ServedNames, DecodedNames
  <2> QED  BY <1>2, <2>1, <2>2, <2>3, <2>4, NoVerbIsNone, ItemRoute
<1>7. Exact(Handle(h, "POST", pattern_Proposals.Claim,
                   request_Proposals_Claim_0),
            <<"linea.v1.Proposals", "Claim">>, h)
  <2>1. Handle(h, "POST", pattern_Proposals.Claim,
                   request_Proposals_Claim_0) =
        Calls(h, "POST", Pattern(Item("proposals"), "claim"),
              <<"linea.v1.Proposals", "Claim">>, TransitionRequest,
              {"genealogy_id", "id"}, h.bodyParses, h.body)
    BY <1>1 DEF Handle, Calls, request_Proposals_Claim_0, FromBody, pattern_Proposals
  <2>2. {"genealogy_id", "id"} \subseteq TransitionRequest /\ "subject" \notin TransitionRequest
    BY DEF TransitionRequest
  <2>3. In(h, "POST", "proposals", 5) /\ h.verb = "claim" =>
            Claims(<<"linea.v1.Proposals", "Claim">>, h)
    BY DEF Claims, ProposalsClaims
  <2>4. /\ <<"linea.v1.Proposals", "Claim">> \in Served
        /\ Decodes(<<"linea.v1.Proposals", "Claim">>) = {TransitionRequest}
    BY ServedNames, DecodedNames
  <2> QED  BY <1>2, <2>1, <2>2, <2>3, <2>4, NoVerbIsNone, ItemRoute
<1>8. Exact(Handle(h, "POST", pattern_Proposals.Accept,
                   request_Proposals_Accept_0),
            <<"linea.v1.Proposals", "Accept">>, h)
  <2>1. Handle(h, "POST", pattern_Proposals.Accept,
                   request_Proposals_Accept_0) =
        Calls(h, "POST", Pattern(Item("proposals"), "accept"),
              <<"linea.v1.Proposals", "Accept">>, TransitionRequest,
              {"genealogy_id", "id"}, h.bodyParses, h.body)
    BY <1>1 DEF Handle, Calls, request_Proposals_Accept_0, FromBody, pattern_Proposals
  <2>2. {"genealogy_id", "id"} \subseteq TransitionRequest /\ "subject" \notin TransitionRequest
    BY DEF TransitionRequest
  <2>3. In(h, "POST", "proposals", 5) /\ h.verb = "accept" =>
            Claims(<<"linea.v1.Proposals", "Accept">>, h)
    BY DEF Claims, ProposalsClaims
  <2>4. /\ <<"linea.v1.Proposals", "Accept">> \in Served
        /\ Decodes(<<"linea.v1.Proposals", "Accept">>) = {TransitionRequest}
    BY ServedNames, DecodedNames
  <2> QED  BY <1>2, <2>1, <2>2, <2>3, <2>4, NoVerbIsNone, ItemRoute
<1>9. Exact(Handle(h, "POST", pattern_Proposals.Reject,
                   request_Proposals_Reject_0),
            <<"linea.v1.Proposals", "Reject">>, h)
  <2>1. Handle(h, "POST", pattern_Proposals.Reject,
                   request_Proposals_Reject_0) =
        Calls(h, "POST", Pattern(Item("proposals"), "reject"),
              <<"linea.v1.Proposals", "Reject">>, TransitionRequest,
              {"genealogy_id", "id"}, h.bodyParses, h.body)
    BY <1>1 DEF Handle, Calls, request_Proposals_Reject_0, FromBody, pattern_Proposals
  <2>2. {"genealogy_id", "id"} \subseteq TransitionRequest /\ "subject" \notin TransitionRequest
    BY DEF TransitionRequest
  <2>3. In(h, "POST", "proposals", 5) /\ h.verb = "reject" =>
            Claims(<<"linea.v1.Proposals", "Reject">>, h)
    BY DEF Claims, ProposalsClaims
  <2>4. /\ <<"linea.v1.Proposals", "Reject">> \in Served
        /\ Decodes(<<"linea.v1.Proposals", "Reject">>) = {TransitionRequest}
    BY ServedNames, DecodedNames
  <2> QED  BY <1>2, <2>1, <2>2, <2>3, <2>4, NoVerbIsNone, ItemRoute
<1>10. Exact(Handle(h, "POST", pattern_Proposals.Withdraw,
                   request_Proposals_Withdraw_0),
            <<"linea.v1.Proposals", "Withdraw">>, h)
  <2>1. Handle(h, "POST", pattern_Proposals.Withdraw,
                   request_Proposals_Withdraw_0) =
        Calls(h, "POST", Pattern(Item("proposals"), "withdraw"),
              <<"linea.v1.Proposals", "Withdraw">>, TransitionRequest,
              {"genealogy_id", "id"}, h.bodyParses, h.body)
    BY <1>1 DEF Handle, Calls, request_Proposals_Withdraw_0, FromBody, pattern_Proposals
  <2>2. {"genealogy_id", "id"} \subseteq TransitionRequest /\ "subject" \notin TransitionRequest
    BY DEF TransitionRequest
  <2>3. In(h, "POST", "proposals", 5) /\ h.verb = "withdraw" =>
            Claims(<<"linea.v1.Proposals", "Withdraw">>, h)
    BY DEF Claims, ProposalsClaims
  <2>4. /\ <<"linea.v1.Proposals", "Withdraw">> \in Served
        /\ Decodes(<<"linea.v1.Proposals", "Withdraw">>) = {TransitionRequest}
    BY ServedNames, DecodedNames
  <2> QED  BY <1>2, <2>1, <2>2, <2>3, <2>4, NoVerbIsNone, ItemRoute
<1>11. Exact(Handle(h, "POST", pattern_Proposals.BulkReject,
                   request_Proposals_BulkReject_0),
            <<"linea.v1.Proposals", "BulkReject">>, h)
  <2>1. Handle(h, "POST", pattern_Proposals.BulkReject,
                   request_Proposals_BulkReject_0) =
        Calls(h, "POST", Pattern(Inside("proposals"), "bulkReject"),
              <<"linea.v1.Proposals", "BulkReject">>, BulkRejectRequest,
              {"genealogy_id"}, h.bodyParses, h.body)
    BY <1>1 DEF Handle, Calls, request_Proposals_BulkReject_0, FromBody, pattern_Proposals
  <2>2. "genealogy_id" \in BulkRejectRequest /\ "proposals" \in Literals
    BY DEF BulkRejectRequest, Literals
  <2>3. In(h, "POST", "proposals", 4) /\ h.verb = "bulkReject" =>
            Claims(<<"linea.v1.Proposals", "BulkReject">>, h)
    BY DEF Claims, ProposalsClaims
  <2>4. /\ <<"linea.v1.Proposals", "BulkReject">> \in Served
        /\ Decodes(<<"linea.v1.Proposals", "BulkReject">>) = {BulkRejectRequest}
    BY ServedNames, DecodedNames
  <2> QED  BY <1>2, <2>1, <2>2, <2>3, <2>4, InsideRoute
<1> QED
    BY <1>3, <1>4, <1>5, <1>6, <1>7, <1>8, <1>9, <1>10, <1>11
    DEF RegisterProposalsHandlerClient, Exact, Routed

\* The routes of Queries.
LEMMA QueriesRoutes ==
    ASSUME NEW h \in HttpRequest
    PROVE  Routed(RegisterQueriesHandlerClient(h), "linea.v1.Queries", h)
<1>1. /\ queriesClient.FindPaths = <<"linea.v1.Queries", "FindPaths">>
      /\ queriesClient.NKCA = <<"linea.v1.Queries", "NKCA">>
    BY DEF queriesClient, Queries_FullMethodNames, Methods
<1>2. /\ GenealogyField(<<"linea.v1.Queries", "FindPaths">>) = "genealogy_id"
      /\ GenealogyField(<<"linea.v1.Queries", "NKCA">>) = "genealogy_id"
    BY DEF GenealogyField
<1>3. Exact(Handle(h, "POST", pattern_Queries.FindPaths,
                   request_Queries_FindPaths_0),
            <<"linea.v1.Queries", "FindPaths">>, h)
  <2>1. Handle(h, "POST", pattern_Queries.FindPaths,
                   request_Queries_FindPaths_0) =
        Calls(h, "POST", Pattern(Inside("queries"), "findPaths"),
              <<"linea.v1.Queries", "FindPaths">>, FindPathsRequest,
              {"genealogy_id"}, h.bodyParses, h.body)
    BY <1>1 DEF Handle, Calls, request_Queries_FindPaths_0, FromBody, pattern_Queries
  <2>2. "genealogy_id" \in FindPathsRequest /\ "queries" \in Literals
    BY DEF FindPathsRequest, Literals
  <2>3. In(h, "POST", "queries", 4) /\ h.verb = "findPaths" =>
            Claims(<<"linea.v1.Queries", "FindPaths">>, h)
    BY DEF Claims, QueriesClaims
  <2>4. /\ <<"linea.v1.Queries", "FindPaths">> \in Served
        /\ Decodes(<<"linea.v1.Queries", "FindPaths">>) = {FindPathsRequest}
    BY ServedNames, DecodedNames
  <2> QED  BY <1>2, <2>1, <2>2, <2>3, <2>4, InsideRoute
<1>4. Exact(Handle(h, "POST", pattern_Queries.NKCA,
                   request_Queries_NKCA_0),
            <<"linea.v1.Queries", "NKCA">>, h)
  <2>1. Handle(h, "POST", pattern_Queries.NKCA,
                   request_Queries_NKCA_0) =
        Calls(h, "POST", Pattern(Inside("queries"), "nkca"),
              <<"linea.v1.Queries", "NKCA">>, NKCARequest,
              {"genealogy_id"}, h.bodyParses, h.body)
    BY <1>1 DEF Handle, Calls, request_Queries_NKCA_0, FromBody, pattern_Queries
  <2>2. "genealogy_id" \in NKCARequest /\ "queries" \in Literals
    BY DEF NKCARequest, Literals
  <2>3. In(h, "POST", "queries", 4) /\ h.verb = "nkca" =>
            Claims(<<"linea.v1.Queries", "NKCA">>, h)
    BY DEF Claims, QueriesClaims
  <2>4. /\ <<"linea.v1.Queries", "NKCA">> \in Served
        /\ Decodes(<<"linea.v1.Queries", "NKCA">>) = {NKCARequest}
    BY ServedNames, DecodedNames
  <2> QED  BY <1>2, <2>1, <2>2, <2>3, <2>4, InsideRoute
<1> QED
    BY <1>3, <1>4
    DEF RegisterQueriesHandlerClient, Exact, Routed

\* The routes of Genealogies.
LEMMA GenealogiesRoutes ==
    ASSUME NEW h \in HttpRequest
    PROVE  Routed(RegisterGenealogiesHandlerClient(h), "linea.v1.Genealogies", h)
<1>1. /\ genealogiesClient.CreateGenealogy = <<"linea.v1.Genealogies", "CreateGenealogy">>
      /\ genealogiesClient.ListGenealogies = <<"linea.v1.Genealogies", "ListGenealogies">>
      /\ genealogiesClient.GetGenealogy = <<"linea.v1.Genealogies", "GetGenealogy">>
      /\ genealogiesClient.UpdateVisibility = <<"linea.v1.Genealogies", "UpdateVisibility">>
      /\ genealogiesClient.DeleteGenealogy = <<"linea.v1.Genealogies", "DeleteGenealogy">>
      /\ genealogiesClient.UpsertMembership = <<"linea.v1.Genealogies", "UpsertMembership">>
      /\ genealogiesClient.RemoveMember = <<"linea.v1.Genealogies", "RemoveMember">>
      /\ genealogiesClient.LeaveGenealogy = <<"linea.v1.Genealogies", "LeaveGenealogy">>
      /\ genealogiesClient.BanUser = <<"linea.v1.Genealogies", "BanUser">>
      /\ genealogiesClient.UnbanUser = <<"linea.v1.Genealogies", "UnbanUser">>
      /\ genealogiesClient.ListMembers = <<"linea.v1.Genealogies", "ListMembers">>
    BY DEF genealogiesClient, Genealogies_FullMethodNames, Methods
<1>2. /\ GenealogyField(<<"linea.v1.Genealogies", "CreateGenealogy">>) = Unset
      /\ GenealogyField(<<"linea.v1.Genealogies", "ListGenealogies">>) = Unset
      /\ GenealogyField(<<"linea.v1.Genealogies", "GetGenealogy">>) = "id"
      /\ GenealogyField(<<"linea.v1.Genealogies", "UpdateVisibility">>) = "id"
      /\ GenealogyField(<<"linea.v1.Genealogies", "DeleteGenealogy">>) = "id"
      /\ GenealogyField(<<"linea.v1.Genealogies", "UpsertMembership">>) = "genealogy_id"
      /\ GenealogyField(<<"linea.v1.Genealogies", "RemoveMember">>) = "genealogy_id"
      /\ GenealogyField(<<"linea.v1.Genealogies", "LeaveGenealogy">>) = "id"
      /\ GenealogyField(<<"linea.v1.Genealogies", "BanUser">>) = "genealogy_id"
      /\ GenealogyField(<<"linea.v1.Genealogies", "UnbanUser">>) = "genealogy_id"
      /\ GenealogyField(<<"linea.v1.Genealogies", "ListMembers">>) = "genealogy_id"
    BY DEF GenealogyField
<1>3. Exact(Handle(h, "POST", pattern_Genealogies.CreateGenealogy,
                   request_Genealogies_CreateGenealogy_0),
            <<"linea.v1.Genealogies", "CreateGenealogy">>, h)
  <2>1. Handle(h, "POST", pattern_Genealogies.CreateGenealogy,
                   request_Genealogies_CreateGenealogy_0) =
        Calls(h, "POST", Pattern(<<Lit("v1"), Lit("genealogies")>>, NoVerb),
              <<"linea.v1.Genealogies", "CreateGenealogy">>, CreateGenealogyRequest,
              {}, h.bodyParses, h.body)
    BY <1>1 DEF Handle, Calls, request_Genealogies_CreateGenealogy_0, FromBody, pattern_Genealogies
  <2>2. "genealogies" \in Literals
    BY DEF Literals
  <2>3. h.method = "POST" /\ Len(h.segs) = 2 /\ h.segs[2] = "genealogies" =>
            Claims(<<"linea.v1.Genealogies", "CreateGenealogy">>, h)
    BY DEF Claims, GenealogiesClaims, On
  <2>4. /\ <<"linea.v1.Genealogies", "CreateGenealogy">> \in Served
        /\ Decodes(<<"linea.v1.Genealogies", "CreateGenealogy">>) = {CreateGenealogyRequest}
    BY ServedNames, DecodedNames
  <2> QED  BY <1>2, <2>1, <2>2, <2>3, <2>4, TopRoute
<1>4. Exact(Handle(h, "GET", pattern_Genealogies.ListGenealogies,
                   request_Genealogies_ListGenealogies_0),
            <<"linea.v1.Genealogies", "ListGenealogies">>, h)
  <2>1. Handle(h, "GET", pattern_Genealogies.ListGenealogies,
                   request_Genealogies_ListGenealogies_0) =
        Calls(h, "GET", Pattern(<<Lit("v1"), Lit("genealogies")>>, NoVerb),
              <<"linea.v1.Genealogies", "ListGenealogies">>, ListGenealogiesRequest,
              {}, h.queryParses, h.query)
    BY <1>1 DEF Handle, Calls, request_Genealogies_ListGenealogies_0, FromQuery, pattern_Genealogies
  <2>2. "genealogies" \in Literals
    BY DEF Literals
  <2>3. h.method = "GET" /\ Len(h.segs) = 2 /\ h.segs[2] = "genealogies" =>
            Claims(<<"linea.v1.Genealogies", "ListGenealogies">>, h)
    BY DEF Claims, GenealogiesClaims, On
  <2>4. /\ <<"linea.v1.Genealogies", "ListGenealogies">> \in Served
        /\ Decodes(<<"linea.v1.Genealogies", "ListGenealogies">>) = {ListGenealogiesRequest}
    BY ServedNames, DecodedNames
  <2> QED  BY <1>2, <2>1, <2>2, <2>3, <2>4, TopRoute
<1>5. Exact(Handle(h, "GET", pattern_Genealogies.GetGenealogy,
                   request_Genealogies_GetGenealogy_0),
            <<"linea.v1.Genealogies", "GetGenealogy">>, h)
  <2>1. Handle(h, "GET", pattern_Genealogies.GetGenealogy,
                   request_Genealogies_GetGenealogy_0) =
        Calls(h, "GET", Pattern(<<Lit("v1"), Lit("genealogies"), Var("id")>>, NoVerb),
              <<"linea.v1.Genealogies", "GetGenealogy">>, GetGenealogyRequest,
              {"id"}, TRUE, NoFields)
    BY <1>1 DEF Handle, Calls, request_Genealogies_GetGenealogy_0, FromPath, pattern_Genealogies
  <2>2. "id" \in GetGenealogyRequest
    BY DEF GetGenealogyRequest
  <2>3. On(h, "GET", 3) =>
            Claims(<<"linea.v1.Genealogies", "GetGenealogy">>, h)
    BY DEF Claims, GenealogiesClaims
  <2>4. /\ <<"linea.v1.Genealogies", "GetGenealogy">> \in Served
        /\ Decodes(<<"linea.v1.Genealogies", "GetGenealogy">>) = {GetGenealogyRequest}
    BY ServedNames, DecodedNames
  <2>5. GenealogyField(<<"linea.v1.Genealogies", "GetGenealogy">>) = "id"
    BY <1>2
  <2>6. \A parses, rest :
            Exact(Calls(h, "GET", Pattern(<<Lit("v1"), Lit("genealogies"), Var("id")>>, NoVerb),
                        <<"linea.v1.Genealogies", "GetGenealogy">>, GetGenealogyRequest, {"id"}, parses, rest),
                  <<"linea.v1.Genealogies", "GetGenealogy">>, h)
    BY <2>2, <2>3, <2>4, <2>5, GenealogyRoute
  <2> QED  BY <2>1, <2>6
<1>6. Exact(Handle(h, "PATCH", pattern_Genealogies.UpdateVisibility,
                   request_Genealogies_UpdateVisibility_0),
            <<"linea.v1.Genealogies", "UpdateVisibility">>, h)
  <2>1. Handle(h, "PATCH", pattern_Genealogies.UpdateVisibility,
                   request_Genealogies_UpdateVisibility_0) =
        Calls(h, "PATCH", Pattern(Of("id", "visibility"), NoVerb),
              <<"linea.v1.Genealogies", "UpdateVisibility">>, UpdateVisibilityRequest,
              {"id"}, h.bodyParses, h.body)
    BY <1>1 DEF Handle, Calls, request_Genealogies_UpdateVisibility_0, FromBody, pattern_Genealogies
  <2>2. "id" \in UpdateVisibilityRequest /\ "visibility" \in Literals
    BY DEF UpdateVisibilityRequest, Literals
  <2>3. On(h, "PATCH", 4) /\ h.segs[4] = "visibility" =>
            Claims(<<"linea.v1.Genealogies", "UpdateVisibility">>, h)
    BY DEF Claims, GenealogiesClaims
  <2>4. /\ <<"linea.v1.Genealogies", "UpdateVisibility">> \in Served
        /\ Decodes(<<"linea.v1.Genealogies", "UpdateVisibility">>) = {UpdateVisibilityRequest}
    BY ServedNames, DecodedNames
  <2> QED  BY <1>2, <2>1, <2>2, <2>3, <2>4, OfRoute
<1>7. Exact(Handle(h, "DELETE", pattern_Genealogies.DeleteGenealogy,
                   request_Genealogies_DeleteGenealogy_0),
            <<"linea.v1.Genealogies", "DeleteGenealogy">>, h)
  <2>1. Handle(h, "DELETE", pattern_Genealogies.DeleteGenealogy,
                   request_Genealogies_DeleteGenealogy_0) =
        Calls(h, "DELETE", Pattern(<<Lit("v1"), Lit("genealogies"), Var("id")>>, NoVerb),
              <<"linea.v1.Genealogies", "DeleteGenealogy">>, DeleteGenealogyRequest,
              {"id"}, TRUE, NoFields)
    BY <1>1 DEF Handle, Calls, request_Genealogies_DeleteGenealogy_0, FromPath, pattern_Genealogies
  <2>2. "id" \in DeleteGenealogyRequest
    BY DEF DeleteGenealogyRequest
  <2>3. On(h, "DELETE", 3) =>
            Claims(<<"linea.v1.Genealogies", "DeleteGenealogy">>, h)
    BY DEF Claims, GenealogiesClaims
  <2>4. /\ <<"linea.v1.Genealogies", "DeleteGenealogy">> \in Served
        /\ Decodes(<<"linea.v1.Genealogies", "DeleteGenealogy">>) = {DeleteGenealogyRequest}
    BY ServedNames, DecodedNames
  <2>5. GenealogyField(<<"linea.v1.Genealogies", "DeleteGenealogy">>) = "id"
    BY <1>2
  <2>6. \A parses, rest :
            Exact(Calls(h, "DELETE", Pattern(<<Lit("v1"), Lit("genealogies"), Var("id")>>, NoVerb),
                        <<"linea.v1.Genealogies", "DeleteGenealogy">>, DeleteGenealogyRequest, {"id"}, parses, rest),
                  <<"linea.v1.Genealogies", "DeleteGenealogy">>, h)
    BY <2>2, <2>3, <2>4, <2>5, GenealogyRoute
  <2> QED  BY <2>1, <2>6
<1>8. Exact(Handle(h, "PUT", pattern_Genealogies.UpsertMembership,
                   request_Genealogies_UpsertMembership_0),
            <<"linea.v1.Genealogies", "UpsertMembership">>, h)
  <2>1. Handle(h, "PUT", pattern_Genealogies.UpsertMembership,
                   request_Genealogies_UpsertMembership_0) =
        Calls(h, "PUT", Pattern(Place("members"), NoVerb),
              <<"linea.v1.Genealogies", "UpsertMembership">>, UpsertMembershipRequest,
              {"genealogy_id", "subject"}, h.bodyParses, h.body)
    BY <1>1 DEF Handle, Calls, request_Genealogies_UpsertMembership_0, FromBody, pattern_Genealogies
  <2>2. {"genealogy_id", "subject"} \subseteq UpsertMembershipRequest
    BY DEF UpsertMembershipRequest
  <2>3. On(h, "PUT", 5) /\ h.segs[4] = "members" =>
            Claims(<<"linea.v1.Genealogies", "UpsertMembership">>, h)
    BY DEF Claims, GenealogiesClaims
  <2>4. /\ <<"linea.v1.Genealogies", "UpsertMembership">> \in Served
        /\ Decodes(<<"linea.v1.Genealogies", "UpsertMembership">>) = {UpsertMembershipRequest}
    BY ServedNames, DecodedNames
  <2> QED  BY <1>2, <2>1, <2>2, <2>3, <2>4, PlaceRoute
<1>9. Exact(Handle(h, "DELETE", pattern_Genealogies.RemoveMember,
                   request_Genealogies_RemoveMember_0),
            <<"linea.v1.Genealogies", "RemoveMember">>, h)
  <2>1. Handle(h, "DELETE", pattern_Genealogies.RemoveMember,
                   request_Genealogies_RemoveMember_0) =
        Calls(h, "DELETE", Pattern(Place("members"), NoVerb),
              <<"linea.v1.Genealogies", "RemoveMember">>, RemoveMemberRequest,
              {"genealogy_id", "subject"}, TRUE, NoFields)
    BY <1>1 DEF Handle, Calls, request_Genealogies_RemoveMember_0, FromPath, pattern_Genealogies
  <2>2. {"genealogy_id", "subject"} \subseteq RemoveMemberRequest
    BY DEF RemoveMemberRequest
  <2>3. On(h, "DELETE", 5) /\ h.segs[4] = "members" =>
            Claims(<<"linea.v1.Genealogies", "RemoveMember">>, h)
    BY DEF Claims, GenealogiesClaims
  <2>4. /\ <<"linea.v1.Genealogies", "RemoveMember">> \in Served
        /\ Decodes(<<"linea.v1.Genealogies", "RemoveMember">>) = {RemoveMemberRequest}
    BY ServedNames, DecodedNames
  <2> QED  BY <1>2, <2>1, <2>2, <2>3, <2>4, PlaceRoute
<1>10. Exact(Handle(h, "POST", pattern_Genealogies.LeaveGenealogy,
                   request_Genealogies_LeaveGenealogy_0),
            <<"linea.v1.Genealogies", "LeaveGenealogy">>, h)
  <2>1. Handle(h, "POST", pattern_Genealogies.LeaveGenealogy,
                   request_Genealogies_LeaveGenealogy_0) =
        Calls(h, "POST", Pattern(Of("id", "leave"), NoVerb),
              <<"linea.v1.Genealogies", "LeaveGenealogy">>, LeaveGenealogyRequest,
              {"id"}, h.bodyParses, h.body)
    BY <1>1 DEF Handle, Calls, request_Genealogies_LeaveGenealogy_0, FromBody, pattern_Genealogies
  <2>2. "id" \in LeaveGenealogyRequest /\ "leave" \in Literals
    BY DEF LeaveGenealogyRequest, Literals
  <2>3. On(h, "POST", 4) /\ h.segs[4] = "leave" =>
            Claims(<<"linea.v1.Genealogies", "LeaveGenealogy">>, h)
    BY DEF Claims, GenealogiesClaims
  <2>4. /\ <<"linea.v1.Genealogies", "LeaveGenealogy">> \in Served
        /\ Decodes(<<"linea.v1.Genealogies", "LeaveGenealogy">>) = {LeaveGenealogyRequest}
    BY ServedNames, DecodedNames
  <2> QED  BY <1>2, <2>1, <2>2, <2>3, <2>4, OfRoute
<1>11. Exact(Handle(h, "PUT", pattern_Genealogies.BanUser,
                   request_Genealogies_BanUser_0),
            <<"linea.v1.Genealogies", "BanUser">>, h)
  <2>1. Handle(h, "PUT", pattern_Genealogies.BanUser,
                   request_Genealogies_BanUser_0) =
        Calls(h, "PUT", Pattern(Place("bans"), NoVerb),
              <<"linea.v1.Genealogies", "BanUser">>, BanUserRequest,
              {"genealogy_id", "subject"}, h.bodyParses, h.body)
    BY <1>1 DEF Handle, Calls, request_Genealogies_BanUser_0, FromBody, pattern_Genealogies
  <2>2. {"genealogy_id", "subject"} \subseteq BanUserRequest
    BY DEF BanUserRequest
  <2>3. On(h, "PUT", 5) /\ h.segs[4] = "bans" =>
            Claims(<<"linea.v1.Genealogies", "BanUser">>, h)
    BY DEF Claims, GenealogiesClaims
  <2>4. /\ <<"linea.v1.Genealogies", "BanUser">> \in Served
        /\ Decodes(<<"linea.v1.Genealogies", "BanUser">>) = {BanUserRequest}
    BY ServedNames, DecodedNames
  <2> QED  BY <1>2, <2>1, <2>2, <2>3, <2>4, PlaceRoute
<1>12. Exact(Handle(h, "DELETE", pattern_Genealogies.UnbanUser,
                   request_Genealogies_UnbanUser_0),
            <<"linea.v1.Genealogies", "UnbanUser">>, h)
  <2>1. Handle(h, "DELETE", pattern_Genealogies.UnbanUser,
                   request_Genealogies_UnbanUser_0) =
        Calls(h, "DELETE", Pattern(Place("bans"), NoVerb),
              <<"linea.v1.Genealogies", "UnbanUser">>, UnbanUserRequest,
              {"genealogy_id", "subject"}, TRUE, NoFields)
    BY <1>1 DEF Handle, Calls, request_Genealogies_UnbanUser_0, FromPath, pattern_Genealogies
  <2>2. {"genealogy_id", "subject"} \subseteq UnbanUserRequest
    BY DEF UnbanUserRequest
  <2>3. On(h, "DELETE", 5) /\ h.segs[4] = "bans" =>
            Claims(<<"linea.v1.Genealogies", "UnbanUser">>, h)
    BY DEF Claims, GenealogiesClaims
  <2>4. /\ <<"linea.v1.Genealogies", "UnbanUser">> \in Served
        /\ Decodes(<<"linea.v1.Genealogies", "UnbanUser">>) = {UnbanUserRequest}
    BY ServedNames, DecodedNames
  <2> QED  BY <1>2, <2>1, <2>2, <2>3, <2>4, PlaceRoute
<1>13. Exact(Handle(h, "GET", pattern_Genealogies.ListMembers,
                   request_Genealogies_ListMembers_0),
            <<"linea.v1.Genealogies", "ListMembers">>, h)
  <2>1. Handle(h, "GET", pattern_Genealogies.ListMembers,
                   request_Genealogies_ListMembers_0) =
        Calls(h, "GET", Pattern(Of("genealogy_id", "members"), NoVerb),
              <<"linea.v1.Genealogies", "ListMembers">>, ListMembersRequest,
              {"genealogy_id"}, h.queryParses, h.query)
    BY <1>1 DEF Handle, Calls, request_Genealogies_ListMembers_0, FromQuery, pattern_Genealogies
  <2>2. "genealogy_id" \in ListMembersRequest /\ "members" \in Literals
    BY DEF ListMembersRequest, Literals
  <2>3. On(h, "GET", 4) /\ h.segs[4] = "members" =>
            Claims(<<"linea.v1.Genealogies", "ListMembers">>, h)
    BY DEF Claims, GenealogiesClaims
  <2>4. /\ <<"linea.v1.Genealogies", "ListMembers">> \in Served
        /\ Decodes(<<"linea.v1.Genealogies", "ListMembers">>) = {ListMembersRequest}
    BY ServedNames, DecodedNames
  <2> QED  BY <1>2, <2>1, <2>2, <2>3, <2>4, OfRoute
<1> QED
    BY <1>3, <1>4, <1>5, <1>6, <1>7, <1>8, <1>9, <1>10, <1>11, <1>12, <1>13
    DEF RegisterGenealogiesHandlerClient, Exact, Routed

-----------------------------------------------------------------------------
(* The gateway. *)

\* Whatever the request, at most one route takes it, the route is registered,
\* and the call's targets are in the URL (server.registerHandlers).
THEOREM OneRoute ==
    ASSUME NEW h \in HttpRequest
    PROVE  /\ IsFiniteSet(registerHandlers(h)) /\ Cardinality(registerHandlers(h)) \in 0..1
           /\ \A c \in registerHandlers(h) : FromURL(h, c)
<1> DEFINE all == registerHandlers(h)
<1>1. /\ Routed(RegisterServerHandlerClient(h), "linea.v1.Server", h)
      /\ Routed(RegisterPersonsHandlerClient(h), "linea.v1.Persons", h)
      /\ Routed(RegisterRelationshipsHandlerClient(h), "linea.v1.Relationships", h)
      /\ Routed(RegisterSourcesHandlerClient(h), "linea.v1.Sources", h)
      /\ Routed(RegisterProposalsHandlerClient(h), "linea.v1.Proposals", h)
      /\ Routed(RegisterQueriesHandlerClient(h), "linea.v1.Queries", h)
      /\ Routed(RegisterGenealogiesHandlerClient(h), "linea.v1.Genealogies", h)
    BY ServerRoutes, PersonsRoutes, RelationshipsRoutes, SourcesRoutes, ProposalsRoutes,
       QueriesRoutes, GenealogiesRoutes
<1>2. ASSUME NEW c \in all  PROVE FromURL(h, c) /\ Claims(c.full, h)
    BY <1>1, <1>2 DEF registerHandlers, Routed
<1>3. ASSUME NEW c \in all, NEW d \in all  PROVE c = d
  <2>1. c.full[1] = d.full[1] /\ c.full[2] = d.full[2]
    BY <1>2, <1>3, ClaimedOnce
  <2>2. c.full = <<c.full[1], c.full[2]>> /\ d.full = <<d.full[1], d.full[2]>>
    BY <1>2, <1>3 DEF FromURL, Served
  <2>3. c.full = d.full
    BY <2>1, <2>2
  <2> QED  BY <1>1, <1>3, <2>3 DEF registerHandlers, Routed
<1>4. all = {} \/ \E c \in all : all = {c}
    BY <1>3
<1>5. IsFiniteSet(all) /\ Cardinality(all) \in 0..1
  <2> HIDE DEF all
  <2>1. CASE all = {}
    BY <2>1, FS_EmptySet
  <2>2. CASE \E c \in all : all = {c}
    BY <2>2, FS_Singleton
  <2> QED  BY <1>4, <2>1, <2>2
<1> QED  BY <1>2, <1>5
=============================================================================
