--------------------------- MODULE MCGenealogies ---------------------------
(***************************************************************************)
(* Instances of Genealogies for TLC: the requests clients send.            *)
(***************************************************************************)
EXTENDS Genealogies, TLC

Rq(ops, subs, gids, tgts, roles, viss) ==
    [op : ops, sub : subs, gid : gids, tgt : tgts, role : roles, vis : viss]

Creates(viss)  == Rq({"Create"}, Users, {NoGid}, {NoUser}, {None}, viss)
Updates(viss)  == Rq({"UpdateVisibility"}, Users, Gids, {NoUser}, {None}, viss)
Deletes        == Rq({"Delete"}, Users, Gids, {NoUser}, {None}, {"none"})
Upserts(roles) == Rq({"Upsert"}, Users, Gids, Users, roles, {"none"})
Removes        == Rq({"Remove"}, Users, Gids, Users, {None}, {"none"})
Leaves         == Rq({"Leave"}, Users, Gids, {NoUser}, {None}, {"none"})
Bans           == Rq({"Ban", "Unban"}, Users, Gids, Users, {None}, {"none"})
Reads          == Rq({"Get", "ListMembers"}, Subjects, Gids, {NoUser}, {None}, {"none"})

\* Every operation, with every visibility; Contributor is left out of the
\* granted roles, no handler tells it from Viewer.
EveryRequest ==
    Creates(Visibilities) \cup Updates(Visibilities) \cup Deletes
    \cup Upserts({Viewer, Curator, Owner}) \cup Removes \cup Leaves \cup Bans \cup Reads

\* The requests that read or change roles.
RoleRequests ==
    Creates({"Public"}) \cup Deletes \cup Upserts({Curator, Owner}) \cup Removes

\* The requests of the runs that show one disagreement each.
Departures  == Creates({"Public"}) \cup Upserts({Owner}) \cup Leaves
Revivals    == Creates({"Public"}) \cup Updates({"Private"}) \cup Deletes

\* The requests that move the private-genealogy counter.
CountedRequests ==
    Creates({"Private", "Public"}) \cup Updates({"Private", "Public"}) \cup Deletes

\* Subjects none of which extends another, and two of which one does.
NoExtension  == {}
OneExtension ==
    LET s == CHOOSE u \in Users : TRUE
    IN  {<<CHOOSE u \in Users \ {s} : TRUE, s>>}

\* Users are interchangeable when none extends another.
Symmetry ==
    (IF Extends = {} THEN Permutations(Users) ELSE {})
        \cup Permutations(Gids) \cup Permutations(Workers)
=============================================================================
