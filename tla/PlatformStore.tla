--------------------------- MODULE PlatformStore ---------------------------
(***************************************************************************)
(* internal/platform: all tables in one key-value database, told apart by  *)
(* the prefixes of the keys, with a reverse index for memberships and      *)
(* listings that scan a prefix.  platform_mappers.go translates between    *)
(* the stored values and the API's.                                        *)
(*                                                                         *)
(* A string is a sequence of characters; a subject may hold any, "/"       *)
(* included (it starts with the issuer's URL), a genealogy id is a UUID    *)
(* and holds no "/".  Every operation is one Badger transaction, except    *)
(* that EnsureUser looks and then puts; nothing in the server calls it.    *)
(***************************************************************************)
EXTENDS Integers, FiniteSets, SequencesExt

CONSTANTS Chars,     \* the characters of subjects, ids and keys
          Subjects, Gids, Emails,
          MaxCount,  \* bound: the counters stay below it
          MaxKeys    \* bound: keys in the database

ASSUME CharsAssumption ==
    {"/", "b", "c", "e", "g", "m", "n", "o", "p", "r", "s", "u"} \subseteq Chars
ASSUME SubjectsAssumption == Subjects \subseteq Seq(Chars)
ASSUME GidsAssumption == Gids \subseteq Seq(Chars) /\ \A g \in Gids : "/" \notin Range(g)
ASSUME MaxCountAssumption == MaxCount \in Nat

VARIABLE db  \* the database: a function from keys to values

Room == Cardinality(DOMAIN db) < MaxKeys

-----------------------------------------------------------------------------
(* Keys *)

userKey(sub) == <<"u", "/">> \o sub
genealogyKey(id) == <<"g", "/">> \o id
membershipKey(gid, sub) == <<"m", "/">> \o gid \o <<"/">> \o sub
reverseMembershipKey(sub, gid) == <<"m", "r", "/">> \o sub \o <<"/">> \o gid

\* Mutant: bans under the prefix of memberships.
banKey_Clash(gid, sub) == <<"m", "/">> \o gid \o <<"/">> \o sub

banKey(gid, sub) == <<"b", "/">> \o gid \o <<"/">> \o sub
userPrivateGenCountKey(sub) == <<"c", "/", "u", "/">> \o sub
personCountKey(gid) ==
    <<"c", "/", "g", "/">> \o gid \o <<"/", "p", "e", "r", "s", "o", "n", "s">>

-----------------------------------------------------------------------------
(* Values.  Role and Visibility are numbers; the mappers give 0 for what   *)
(* the API leaves unspecified or the server does not know.                 *)

User(sub, email) == [sub |-> sub, email |-> email]
Genealogy(id, vis) == [id |-> id, visibility |-> vis]
Membership(sub, gid, role) == [sub |-> sub, genealogy_id |-> gid, role |-> role]
Ban(sub, gid) == [sub |-> sub, genealogy_id |-> gid]
Count(n) == [count |-> n]

VisibilityIsValid(v) == v \in 1..3
RoleIsValid(r) == r \in 1..4

Visibility == {"UNSPECIFIED", "PRIVATE", "UNLISTED", "PUBLIC", "unknown"}
GenealogyRole ==
    {"UNSPECIFIED", "NONE", "VIEWER", "CONTRIBUTOR", "CURATOR", "OWNER", "unknown"}

visibilityToProto(v) ==
    CASE v = 1 -> "PRIVATE" [] v = 2 -> "UNLISTED" [] v = 3 -> "PUBLIC"
      [] OTHER -> "UNSPECIFIED"
visibilityFromProto(v) ==
    CASE v = "PRIVATE" -> 1 [] v = "UNLISTED" -> 2 [] v = "PUBLIC" -> 3 [] OTHER -> 0
roleToProto(r) ==
    CASE r = 0 -> "NONE" [] r = 1 -> "VIEWER" [] r = 2 -> "CONTRIBUTOR"
      [] r = 3 -> "CURATOR" [] r = 4 -> "OWNER" [] OTHER -> "UNSPECIFIED"
roleFromProto(r) ==
    CASE r = "VIEWER" -> 1 [] r = "CONTRIBUTOR" -> 2 [] r = "CURATOR" -> 3
      [] r = "OWNER" -> 4 [] OTHER -> 0

genealogyToProto(g, myRole) ==
    [id |-> g.id, visibility |-> visibilityToProto(g.visibility),
     my_role |-> roleToProto(myRole)]
membershipToProto(m) ==
    [subject |-> m.sub, genealogy_id |-> m.genealogy_id, role |-> roleToProto(m.role)]
banToProto(b) == [subject |-> b.sub, genealogy_id |-> b.genealogy_id]

-----------------------------------------------------------------------------
(* Reads *)

Has(k) == k \in DOMAIN db

\* Every value under a prefix.
scanPrefix(prefix) == {db[k] : k \in {j \in DOMAIN db : IsPrefix(prefix, j)}}

IterateGenealogies == scanPrefix(<<"g", "/">>)
IterateMembershipsForGenealogy(gid) == scanPrefix(<<"m", "/">> \o gid \o <<"/">>)

\* Mutant: the prefix ends with the subject.
IterateMembershipsForUser_NoSlash(sub) == scanPrefix(<<"m", "r", "/">> \o sub)

IterateMembershipsForUser(sub) == scanPrefix(<<"m", "r", "/">> \o sub \o <<"/">>)

readCounter(k) == IF Has(k) THEN db[k].count ELSE 0

-----------------------------------------------------------------------------
(* Writes *)

put(k, v) == db' = [j \in DOMAIN db \cup {k} |-> IF j = k THEN v ELSE db[j]]
Drop(keys) == db' = [j \in DOMAIN db \ keys |-> db[j]]

Init == db = [k \in {} |-> 0]

PutUser(sub, email) == Room /\ sub # <<>> /\ put(userKey(sub), User(sub, email))

\* Creates the record when there is none.
EnsureUser(sub, email) == ~Has(userKey(sub)) /\ PutUser(sub, email)

PutGenealogy(id, vis) ==
    /\ Room /\ id # <<>> /\ VisibilityIsValid(vis)
    /\ put(genealogyKey(id), Genealogy(id, vis))

DeleteGenealogy(id) == Drop({genealogyKey(id)})

PutMembership(sub, gid, role) ==
    /\ Room /\ sub # <<>> /\ gid # <<>> /\ RoleIsValid(role)
    /\ LET keys == {membershipKey(gid, sub), reverseMembershipKey(sub, gid)}
       IN  db' = [j \in DOMAIN db \cup keys |->
                     IF j \in keys THEN Membership(sub, gid, role) ELSE db[j]]

DeleteMembership(gid, sub) ==
    Drop({membershipKey(gid, sub), reverseMembershipKey(sub, gid)})

PutBan(sub, gid) ==
    /\ Room /\ sub # <<>> /\ gid # <<>>
    /\ put(banKey(gid, sub), Ban(sub, gid))

DeleteBan(gid, sub) == Drop({banKey(gid, sub)})

\* Saturates at zero.
incCounter(k, delta) ==
    LET cur == readCounter(k)
    IN  /\ Room /\ cur + delta <= MaxCount
        /\ put(k, Count(IF delta < 0 /\ -delta > cur THEN 0 ELSE cur + delta))
IncUserPrivateGenCount(sub, delta) == incCounter(userPrivateGenCountKey(sub), delta)
IncPersonCount(gid, delta) == incCounter(personCountKey(gid), delta)
SetPersonCount(gid, n) == Room /\ put(personCountKey(gid), Count(n))

\* The values of the API reach the store through the mappers.
Next ==
    \/ \E s \in Subjects, e \in Emails : PutUser(s, e) \/ EnsureUser(s, e)
    \/ \E g \in Gids :
        \/ \E v \in Visibility : PutGenealogy(g, visibilityFromProto(v))
        \/ DeleteGenealogy(g)
        \/ \E d \in {-1, 1} : IncPersonCount(g, d)
        \/ \E n \in 0..MaxCount : SetPersonCount(g, n)
        \/ \E s \in Subjects :
            \/ \E r \in GenealogyRole : PutMembership(s, g, roleFromProto(r))
            \/ DeleteMembership(g, s)
            \/ PutBan(s, g) \/ DeleteBan(g, s)
    \/ \E s \in Subjects, d \in {-1, 1} : IncUserPrivateGenCount(s, d)

Spec == Init /\ [][Next]_db

-----------------------------------------------------------------------------
(* Properties *)

\* The rows of the tables, and the tables as the API shows them.
UserRows      == {s \in Subjects : Has(userKey(s))}
GenealogyRows == {g \in Gids : Has(genealogyKey(g))}
MemberRows    == {p \in Gids \X Subjects : Has(membershipKey(p[1], p[2]))}
BanRows       == {p \in Gids \X Subjects : Has(banKey(p[1], p[2]))}

UserTable == [s \in UserRows |-> db[userKey(s)].email]
GenealogyTable ==
    [g \in GenealogyRows |-> genealogyToProto(db[genealogyKey(g)], 0).visibility]
MemberTable ==
    [p \in MemberRows |-> membershipToProto(db[membershipKey(p[1], p[2])]).role]
PrivateCounts == [s \in Subjects |-> readCounter(userPrivateGenCountKey(s))]
PersonCounts  == [g \in Gids |-> readCounter(personCountKey(g))]

\* The database implements the tables: whatever the keys are, an operation
\* changes its own row only, and what the API reads back of a genealogy or a
\* membership is what it wrote (the key helpers and the enum mappers).
Tables == INSTANCE PlatformTables WITH
    Subjects <- Subjects, Gids <- Gids, Emails <- Emails, Counts <- 0..MaxCount,
    users <- UserTable, genealogies <- GenealogyTable, members <- MemberTable,
    bans <- BanRows, privateCount <- PrivateCounts, personCount <- PersonCounts
Implements == Tables!Spec

Extends(t, s) == IsPrefix(s \o <<"/">>, t)
MembersStored == {db[membershipKey(p[1], p[2])] : p \in MemberRows}

\* A listing is the table: the members of a genealogy are exactly the ones with
\* a row, and the genealogies of a user exactly the ones where the user has a
\* row - or where a subject has one that extends the user's by a "/" and more,
\* because the scan of mr/<sub>/ cannot tell them apart.
ScansExact ==
    /\ IterateGenealogies = {db[genealogyKey(g)] : g \in GenealogyRows}
    /\ \A g \in Gids : IterateMembershipsForGenealogy(g) =
                          {m \in MembersStored : m.genealogy_id = g}
    /\ \A s \in Subjects : IterateMembershipsForUser(s) =
                              {m \in MembersStored : m.sub = s \/ Extends(m.sub, s)}
=============================================================================
