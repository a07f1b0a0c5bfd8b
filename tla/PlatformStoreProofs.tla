------------------------ MODULE PlatformStoreProofs ------------------------
(***************************************************************************)
(* PlatformStore implements PlatformTables, and its scans are exact, for   *)
(* every set of subjects and every set of ids without a slash.             *)
(*                                                                         *)
(* Keys first: where each key helper puts its characters, that no two      *)
(* helpers meet in a key, that each helper is injective, and which keys a  *)
(* scanned prefix reaches.  Then the steps: a write changes the key it     *)
(* names and no other, so every table but one is as it was.                *)
(***************************************************************************)
EXTENDS PlatformStore, SequenceTheorems, TLAPS

Str == Seq(Chars)

-----------------------------------------------------------------------------
(* The characters of the keys *)

(* The string s stands in k, after n characters. *)
Piece(k, n, s) == \A i \in 1..Len(s) : k[n + i] = s[i]

(* One letter, a slash, an id, a slash, a subject. *)
Forward(k, g, s) ==
    /\ Len(k) = 3 + Len(g) + Len(s)
    /\ k[2] = "/" /\ Piece(k, 2, g) /\ k[3 + Len(g)] = "/" /\ Piece(k, 3 + Len(g), s)

(* Two letters, a slash, a subject, a slash, an id. *)
Backward(k, s, g) ==
    /\ Len(k) = 4 + Len(s) + Len(g)
    /\ k[2] = "r" /\ k[3] = "/" /\ Piece(k, 3, s)
    /\ k[4 + Len(s)] = "/" /\ Piece(k, 4 + Len(s), g)

(* Subjects and ids are strings, and an id has no slash.                   *)
LEMMA Strings ==
    /\ Subjects \subseteq Str /\ Gids \subseteq Str
    /\ \A g \in Gids : \A i \in 1..Len(g) : g[i] # "/"
<1>1. Subjects \subseteq Str /\ Gids \subseteq Str
  BY SubjectsAssumption, GidsAssumption DEF Str
<1>2. ASSUME NEW g \in Gids, NEW i \in 1..Len(g) PROVE g[i] # "/"
  <2>1. DOMAIN g = 1..Len(g)
    BY <1>1, LenProperties DEF Str
  <2> QED  BY <2>1, GidsAssumption DEF Range
<1> QED  BY <1>1, <1>2

(* u/<sub>: its length and its characters.                                 *)
LEMMA UserKey ==
    ASSUME NEW s \in Str
    PROVE  /\ userKey(s) \in Str /\ Len(userKey(s)) = 2 + Len(s)
           /\ userKey(s)[1] = "u" /\ userKey(s)[2] = "/"
           /\ Piece(userKey(s), 2, s)
BY CharsAssumption DEF Str, Piece, userKey

(* g/<id>: its length and its characters.                                  *)
LEMMA GenealogyKey ==
    ASSUME NEW g \in Str
    PROVE  /\ genealogyKey(g) \in Str /\ Len(genealogyKey(g)) = 2 + Len(g)
           /\ genealogyKey(g)[1] = "g" /\ genealogyKey(g)[2] = "/"
           /\ Piece(genealogyKey(g), 2, g)
BY CharsAssumption DEF Str, Piece, genealogyKey

(* m/<gid>/<sub>.                                                          *)
LEMMA MembershipKey ==
    ASSUME NEW g \in Str, NEW s \in Str
    PROVE  membershipKey(g, s) \in Str /\ membershipKey(g, s)[1] = "m" /\ Forward(membershipKey(g, s), g, s)
BY CharsAssumption DEF Str, Piece, Forward, membershipKey

(* mr/<sub>/<gid>.                                                         *)
LEMMA ReverseMembershipKey ==
    ASSUME NEW s \in Str, NEW g \in Str
    PROVE  /\ reverseMembershipKey(s, g) \in Str /\ reverseMembershipKey(s, g)[1] = "m"
           /\ Backward(reverseMembershipKey(s, g), s, g)
BY CharsAssumption DEF Str, Piece, Backward, reverseMembershipKey

(* b/<gid>/<sub>.                                                          *)
LEMMA BanKey ==
    ASSUME NEW g \in Str, NEW s \in Str
    PROVE  banKey(g, s) \in Str /\ banKey(g, s)[1] = "b" /\ Forward(banKey(g, s), g, s)
BY CharsAssumption DEF Str, Piece, Forward, banKey

(* c/u/<sub>.                                                              *)
LEMMA PrivateKey ==
    ASSUME NEW s \in Str
    PROVE  /\ userPrivateGenCountKey(s) \in Str
           /\ Len(userPrivateGenCountKey(s)) = 4 + Len(s)
           /\ userPrivateGenCountKey(s)[1] = "c" /\ userPrivateGenCountKey(s)[3] = "u"
           /\ Piece(userPrivateGenCountKey(s), 4, s)
BY CharsAssumption DEF Str, Piece, userPrivateGenCountKey

(* c/g/<gid>/persons.                                                      *)
LEMMA PersonKey ==
    ASSUME NEW g \in Str
    PROVE  /\ personCountKey(g) \in Str
           /\ Len(personCountKey(g)) = 12 + Len(g)
           /\ personCountKey(g)[1] = "c" /\ personCountKey(g)[3] = "g"
           /\ Piece(personCountKey(g), 4, g)
BY CharsAssumption DEF Str, Piece, personCountKey

(* A string has a length.                                                  *)
LEMMA Length == ASSUME NEW s \in Str PROVE Len(s) \in Nat
BY LenProperties DEF Str

(* Strings of one length at one place in a key are equal.                  *)
LEMMA SamePiece ==
    ASSUME NEW k, NEW n \in Nat, NEW s \in Str, NEW t \in Str, Len(s) = Len(t),
           Piece(k, n, s), Piece(k, n, t)
    PROVE  s = t
<1>1. \A i \in 1..Len(s) : s[i] = t[i]
  BY DEF Piece
<1> QED  BY <1>1, SeqEqual DEF Str

(* A prefix is the characters of the key up to its length.                 *)
LEMMA Prefix ==
    ASSUME NEW s \in Str, NEW t \in Str
    PROVE  IsPrefix(s, t) <=> Len(s) <= Len(t) /\ \A i \in 1..Len(s) : s[i] = t[i]
BY DEF Str, IsPrefix

-----------------------------------------------------------------------------
(* Two keys of one helper, and of two helpers *)

(* A user key tells its subject.                                           *)
LEMMA UserInjective ==
    ASSUME NEW s \in Subjects, NEW t \in Subjects, userKey(s) = userKey(t)
    PROVE  s = t
<1> s \in Str /\ t \in Str
  BY Strings
<1>1. Len(s) = Len(t)
  BY UserKey, Length
<1> QED  BY <1>1, UserKey, SamePiece

(* A genealogy key tells its id.                                           *)
LEMMA GenealogyInjective ==
    ASSUME NEW g \in Gids, NEW h \in Gids, genealogyKey(g) = genealogyKey(h)
    PROVE  g = h
<1> g \in Str /\ h \in Str
  BY Strings
<1>1. Len(g) = Len(h)
  BY GenealogyKey, Length
<1> QED  BY <1>1, GenealogyKey, SamePiece

(* The key of a private counter tells its subject.                         *)
LEMMA PrivateInjective ==
    ASSUME NEW s \in Subjects, NEW t \in Subjects, userPrivateGenCountKey(s) = userPrivateGenCountKey(t)
    PROVE  s = t
<1> s \in Str /\ t \in Str
  BY Strings
<1>1. Len(s) = Len(t)
  BY PrivateKey, Length
<1> QED  BY <1>1, PrivateKey, SamePiece

(* The key of a person counter tells its genealogy.                        *)
LEMMA PersonInjective ==
    ASSUME NEW g \in Gids, NEW h \in Gids, personCountKey(g) = personCountKey(h)
    PROVE  g = h
<1> g \in Str /\ h \in Str
  BY Strings
<1>1. Len(g) = Len(h)
  BY PersonKey, Length
<1> QED  BY <1>1, PersonKey, SamePiece

(* The id of a forward key ends at the first slash after the prefix. *)
LEMMA FirstSlash ==
    ASSUME NEW g \in Gids, NEW h \in Gids, NEW k,
           Piece(k, 2, g), k[3 + Len(g)] = "/",
           Piece(k, 2, h), k[3 + Len(h)] = "/"
    PROVE  g = h
<1> g \in Str /\ h \in Str
  BY Strings
<1>1. Len(g) \in Nat /\ Len(h) \in Nat
  BY Length
<1>2. ASSUME Len(g) < Len(h) PROVE FALSE
  <2>1. Len(g) + 1 \in 1..Len(h) /\ 2 + (Len(g) + 1) = 3 + Len(g)
    BY <1>1, <1>2
  <2> QED  BY <2>1, Strings DEF Piece
<1>3. ASSUME Len(h) < Len(g) PROVE FALSE
  <2>1. Len(h) + 1 \in 1..Len(g) /\ 2 + (Len(h) + 1) = 3 + Len(h)
    BY <1>1, <1>3
  <2> QED  BY <2>1, Strings DEF Piece
<1>4. Len(g) = Len(h)
  BY <1>1, <1>2, <1>3
<1> QED  BY <1>4, SamePiece

(* A membership key tells genealogy and subject: the id ends at the first slash. *)
LEMMA MembershipInjective ==
    ASSUME NEW g \in Gids, NEW s \in Subjects, NEW h \in Gids, NEW t \in Subjects,
           membershipKey(g, s) = membershipKey(h, t)
    PROVE  g = h /\ s = t
<1> g \in Str /\ h \in Str /\ s \in Str /\ t \in Str
  BY Strings
<1>1. PICK k : k = membershipKey(g, s) /\ k = membershipKey(h, t)
  OBVIOUS
<1>2. Forward(k, g, s) /\ Forward(k, h, t)
  BY <1>1, MembershipKey
<1>3. g = h
  BY <1>2, FirstSlash DEF Forward
<1>4. Len(s) = Len(t) /\ 3 + Len(g) \in Nat
  BY <1>2, <1>3, Length DEF Forward
<1> QED  BY <1>2, <1>3, <1>4, SamePiece DEF Forward

(* A ban key tells genealogy and subject, in the same way.                 *)
LEMMA BanInjective ==
    ASSUME NEW g \in Gids, NEW s \in Subjects, NEW h \in Gids, NEW t \in Subjects,
           banKey(g, s) = banKey(h, t)
    PROVE  g = h /\ s = t
<1> g \in Str /\ h \in Str /\ s \in Str /\ t \in Str
  BY Strings
<1>1. PICK k : k = banKey(g, s) /\ k = banKey(h, t)
  OBVIOUS
<1>2. Forward(k, g, s) /\ Forward(k, h, t)
  BY <1>1, BanKey
<1>3. g = h
  BY <1>2, FirstSlash DEF Forward
<1>4. Len(s) = Len(t) /\ 3 + Len(g) \in Nat
  BY <1>2, <1>3, Length DEF Forward
<1> QED  BY <1>2, <1>3, <1>4, SamePiece DEF Forward

(* The subject of a reverse key ends at the last slash. *)
LEMMA LastSlash ==
    ASSUME NEW g \in Gids, NEW n \in Nat, NEW m \in Nat, NEW k,
           Len(k) = 4 + n + Len(g), Piece(k, 4 + n, g),
           m > n, 4 + m <= Len(k), k[4 + m] = "/"
    PROVE  FALSE
<1>1. Len(g) \in Nat
  BY Strings, Length
<1>2. PICK i \in 1..Len(g) : i = m - n
  BY <1>1
<1>3. 4 + n + i = 4 + m
  BY <1>1, <1>2
<1>4. g[i] = "/"
  BY <1>3 DEF Piece
<1> QED  BY <1>4, Strings

(* A reverse key tells subject and genealogy: the id begins after the last slash. *)
LEMMA ReverseInjective ==
    ASSUME NEW g \in Gids, NEW s \in Subjects, NEW h \in Gids, NEW t \in Subjects,
           reverseMembershipKey(s, g) = reverseMembershipKey(t, h)
    PROVE  g = h /\ s = t
<1> g \in Str /\ h \in Str /\ s \in Str /\ t \in Str
  BY Strings
<1>0. PICK k : k = reverseMembershipKey(s, g) /\ k = reverseMembershipKey(t, h)
  OBVIOUS
<1>1. Len(g) \in Nat /\ Len(h) \in Nat /\ Len(s) \in Nat /\ Len(t) \in Nat
  BY Length
<1>2. Backward(k, s, g) /\ Backward(k, t, h)
  BY <1>0, ReverseMembershipKey
<1>4. ~(Len(s) < Len(t))
  BY <1>1, <1>2, LastSlash DEF Backward
<1>5. ~(Len(t) < Len(s))
  BY <1>1, <1>2, LastSlash DEF Backward
<1>6. Len(s) = Len(t) /\ Len(g) = Len(h) /\ 4 + Len(s) \in Nat
  BY <1>1, <1>2, <1>4, <1>5 DEF Backward
<1>7. s = t
  BY <1>2, <1>6, SamePiece DEF Backward
<1> QED  BY <1>2, <1>6, <1>7, SamePiece DEF Backward

(* The letters that tell the helpers apart. *)
LEMMA Letters ==
    /\ \A s \in Subjects : userKey(s)[1] = "u"
    /\ \A g \in Gids : genealogyKey(g)[1] = "g"
    /\ \A g \in Gids, s \in Subjects :
          membershipKey(g, s)[1] = "m" /\ membershipKey(g, s)[2] = "/"
    /\ \A g \in Gids, s \in Subjects :
          reverseMembershipKey(s, g)[1] = "m" /\ reverseMembershipKey(s, g)[2] = "r"
    /\ \A g \in Gids, s \in Subjects : banKey(g, s)[1] = "b"
    /\ \A s \in Subjects :
          userPrivateGenCountKey(s)[1] = "c" /\ userPrivateGenCountKey(s)[3] = "u"
    /\ \A g \in Gids : personCountKey(g)[1] = "c" /\ personCountKey(g)[3] = "g"
<1>1. \A s \in Subjects : userKey(s)[1] = "u"
  BY Strings, UserKey
<1>2. \A g \in Gids : genealogyKey(g)[1] = "g"
  BY Strings, GenealogyKey
<1>3. \A g \in Gids, s \in Subjects :
         membershipKey(g, s)[1] = "m" /\ membershipKey(g, s)[2] = "/"
  BY Strings, MembershipKey DEF Forward
<1>4. \A g \in Gids, s \in Subjects :
         reverseMembershipKey(s, g)[1] = "m" /\ reverseMembershipKey(s, g)[2] = "r"
  BY Strings, ReverseMembershipKey DEF Backward
<1>5. \A g \in Gids, s \in Subjects : banKey(g, s)[1] = "b"
  BY Strings, BanKey
<1>6. \A s \in Subjects :
         userPrivateGenCountKey(s)[1] = "c" /\ userPrivateGenCountKey(s)[3] = "u"
  BY Strings, PrivateKey
<1>7. \A g \in Gids : personCountKey(g)[1] = "c" /\ personCountKey(g)[3] = "g"
  BY Strings, PersonKey
<1> QED  BY <1>1, <1>2, <1>3, <1>4, <1>5, <1>6, <1>7

-----------------------------------------------------------------------------
(* Steps: a key that is not written is as it was *)

Same(k) == (k \in DOMAIN db' <=> k \in DOMAIN db) /\ (k \in DOMAIN db => db'[k] = db[k])

SameUsers       == \A s \in Subjects : Same(userKey(s))
SameGenealogies == \A g \in Gids : Same(genealogyKey(g))
SameMembers     == \A g \in Gids, s \in Subjects :
                      Same(membershipKey(g, s)) /\ Same(reverseMembershipKey(s, g))
SameBans        == \A g \in Gids, s \in Subjects : Same(banKey(g, s))
SamePrivate     == \A s \in Subjects : Same(userPrivateGenCountKey(s))
SamePersons     == \A g \in Gids : Same(personCountKey(g))

(* put writes under its own key only.                                      *)
LEMMA PutSame ==
    ASSUME NEW k, NEW v, put(k, v)
    PROVE  /\ \A j : j # k => Same(j)
           /\ k \in DOMAIN db' /\ db'[k] = v /\ DOMAIN db' = DOMAIN db \cup {k}
BY DEF put, Same

(* A deletion removes its own key only.                                    *)
LEMMA DropSame ==
    ASSUME NEW K, Drop(K)
    PROVE  /\ \A j : j \notin K => Same(j)
           /\ \A j \in K : j \notin DOMAIN db'
           /\ DOMAIN db' = DOMAIN db \ K
BY DEF Drop, Same

(* A write under a user key leaves the other tables and users alone.       *)
LEMMA OnlyUsers ==
    ASSUME NEW s \in Subjects, \A j : j # userKey(s) => Same(j)
    PROVE  /\ SameGenealogies /\ SameMembers /\ SameBans /\ SamePrivate /\ SamePersons
           /\ \A t \in Subjects \ {s} : Same(userKey(t))
<1>1. \A t \in Subjects \ {s} : userKey(t) # userKey(s)
  BY UserInjective
<1> QED  BY <1>1, Letters DEF SameGenealogies, SameMembers, SameBans, SamePrivate, SamePersons

(* A write under a genealogy key leaves the other tables and genealogies alone. *)
LEMMA OnlyGenealogies ==
    ASSUME NEW g \in Gids, \A j : j # genealogyKey(g) => Same(j)
    PROVE  /\ SameUsers /\ SameMembers /\ SameBans /\ SamePrivate /\ SamePersons
           /\ \A h \in Gids \ {g} : Same(genealogyKey(h))
<1>1. \A h \in Gids \ {g} : genealogyKey(h) # genealogyKey(g)
  BY GenealogyInjective
<1> QED  BY <1>1, Letters DEF SameUsers, SameMembers, SameBans, SamePrivate, SamePersons

(* A write under a membership's two keys leaves the other tables and memberships alone. *)
LEMMA OnlyMembers ==
    ASSUME NEW g \in Gids, NEW s \in Subjects,
           \A j : j \notin {membershipKey(g, s), reverseMembershipKey(s, g)} => Same(j)
    PROVE  /\ SameUsers /\ SameGenealogies /\ SameBans /\ SamePrivate /\ SamePersons
           /\ \A h \in Gids, t \in Subjects :
                 h # g \/ t # s =>
                    Same(membershipKey(h, t)) /\ Same(reverseMembershipKey(t, h))
<1>1. ASSUME NEW h \in Gids, NEW t \in Subjects, h # g \/ t # s
      PROVE  Same(membershipKey(h, t)) /\ Same(reverseMembershipKey(t, h))
  <2>1. membershipKey(h, t) # membershipKey(g, s)
    BY <1>1, MembershipInjective
  <2>2. reverseMembershipKey(t, h) # reverseMembershipKey(s, g)
    BY <1>1, ReverseInjective
  <2> QED  BY <2>1, <2>2, Letters
<1> QED  BY <1>1, Letters DEF SameUsers, SameGenealogies, SameBans, SamePrivate, SamePersons

(* A write under a ban key leaves the other tables and bans alone.         *)
LEMMA OnlyBans ==
    ASSUME NEW g \in Gids, NEW s \in Subjects, \A j : j # banKey(g, s) => Same(j)
    PROVE  /\ SameUsers /\ SameGenealogies /\ SameMembers /\ SamePrivate /\ SamePersons
           /\ \A h \in Gids, t \in Subjects : h # g \/ t # s => Same(banKey(h, t))
<1>1. \A h \in Gids, t \in Subjects : h # g \/ t # s => banKey(h, t) # banKey(g, s)
  BY BanInjective
<1> QED  BY <1>1, Letters DEF SameUsers, SameGenealogies, SameMembers, SamePrivate, SamePersons

(* A write under a private counter's key leaves the other tables and counters alone. *)
LEMMA OnlyPrivate ==
    ASSUME NEW s \in Subjects, \A j : j # userPrivateGenCountKey(s) => Same(j)
    PROVE  /\ SameUsers /\ SameGenealogies /\ SameMembers /\ SameBans /\ SamePersons
           /\ \A t \in Subjects \ {s} : Same(userPrivateGenCountKey(t))
<1>1. \A t \in Subjects \ {s} : userPrivateGenCountKey(t) # userPrivateGenCountKey(s)
  BY PrivateInjective
<1> QED  BY <1>1, Letters DEF SameUsers, SameGenealogies, SameMembers, SameBans, SamePersons

(* A write under a person counter's key leaves the other tables and counters alone. *)
LEMMA OnlyPersons ==
    ASSUME NEW g \in Gids, \A j : j # personCountKey(g) => Same(j)
    PROVE  /\ SameUsers /\ SameGenealogies /\ SameMembers /\ SameBans /\ SamePrivate
           /\ \A h \in Gids \ {g} : Same(personCountKey(h))
<1>1. \A h \in Gids \ {g} : personCountKey(h) # personCountKey(g)
  BY PersonInjective
<1> QED  BY <1>1, Letters DEF SameUsers, SameGenealogies, SameMembers, SameBans, SamePrivate

(* A table is a function of what is under its keys: users,                 *)
LEMMA UsersKept == SameUsers => UserTable' = UserTable
BY DEF SameUsers, Same, UserTable, UserRows, Has

(* genealogies,                                                            *)
LEMMA GenealogiesKept == SameGenealogies => GenealogyTable' = GenealogyTable
BY DEF SameGenealogies, Same, GenealogyTable, GenealogyRows, Has

(* memberships,                                                            *)
LEMMA MembersKept == SameMembers => MemberTable' = MemberTable
BY DEF SameMembers, Same, MemberTable, MemberRows, Has

(* bans,                                                                   *)
LEMMA BansKept == SameBans => BanRows' = BanRows
BY DEF SameBans, Same, BanRows, Has

(* private counters,                                                       *)
LEMMA PrivateKept == SamePrivate => PrivateCounts' = PrivateCounts
BY DEF SamePrivate, Same, PrivateCounts, readCounter, Has

(* and person counters.                                                    *)
LEMMA PersonsKept == SamePersons => PersonCounts' = PersonCounts
BY DEF SamePersons, Same, PersonCounts, readCounter, Has

-----------------------------------------------------------------------------
(* Each operation is a step of the tables *)

(* PutUser and EnsureUser set one row of the users.                        *)
LEMMA UserStep ==
    ASSUME NEW s \in Subjects, NEW e \in Emails, PutUser(s, e)
    PROVE  Tables!SetUser
<1>1. put(userKey(s), User(s, e))
  BY DEF PutUser
<1>2. /\ \A j : j # userKey(s) => Same(j)
      /\ userKey(s) \in DOMAIN db' /\ db'[userKey(s)] = User(s, e)
  BY <1>1, PutSame
<1>3. /\ SameGenealogies /\ SameMembers /\ SameBans /\ SamePrivate /\ SamePersons
      /\ \A t \in Subjects \ {s} : Same(userKey(t))
  BY <1>2, OnlyUsers
<1>4. UserTable' = Tables!With(UserTable, s, e)
  BY <1>2, <1>3 DEF Same, UserTable, UserRows, Has, User, Tables!With
<1> QED  BY <1>3, <1>4, GenealogiesKept, MembersKept, BansKept, PrivateKept, PersonsKept
         DEF Tables!SetUser

(* PutGenealogy sets one row of the genealogies.                           *)
LEMMA PutGenealogyStep ==
    ASSUME NEW g \in Gids, NEW v \in Visibility, PutGenealogy(g, visibilityFromProto(v))
    PROVE  Tables!ChangeGenealogies
<1> DEFINE w == visibilityFromProto(v)
<1>1. put(genealogyKey(g), Genealogy(g, w)) /\ w \in 1..3
  BY DEF PutGenealogy, VisibilityIsValid
<1>2. PICK x \in Tables!Visibilities : x = visibilityToProto(w)
  BY <1>1 DEF visibilityToProto, Tables!Visibilities
<1> HIDE DEF w
<1>3. /\ \A j : j # genealogyKey(g) => Same(j)
      /\ genealogyKey(g) \in DOMAIN db' /\ db'[genealogyKey(g)] = Genealogy(g, w)
  BY <1>1, PutSame
<1>4. /\ SameUsers /\ SameMembers /\ SameBans /\ SamePrivate /\ SamePersons
      /\ \A h \in Gids \ {g} : Same(genealogyKey(h))
  BY <1>3, OnlyGenealogies
<1>5. genealogyToProto(Genealogy(g, w), 0).visibility = x
  BY <1>2 DEF genealogyToProto, Genealogy
<1>6. GenealogyTable' = Tables!With(GenealogyTable, g, x)
  BY <1>3, <1>4, <1>5 DEF Same, GenealogyTable, GenealogyRows, Has, Tables!With
<1> QED  BY <1>4, <1>6, UsersKept, MembersKept, BansKept, PrivateKept, PersonsKept
         DEF Tables!ChangeGenealogies

(* DeleteGenealogy takes one row out.                                      *)
LEMMA DeleteGenealogyStep ==
    ASSUME NEW g \in Gids, DeleteGenealogy(g)
    PROVE  Tables!ChangeGenealogies
<1>1. /\ \A j : j # genealogyKey(g) => Same(j)
      /\ genealogyKey(g) \notin DOMAIN db'
  BY DropSame DEF DeleteGenealogy
<1>2. /\ SameUsers /\ SameMembers /\ SameBans /\ SamePrivate /\ SamePersons
      /\ \A h \in Gids \ {g} : Same(genealogyKey(h))
  BY <1>1, OnlyGenealogies
<1>3. GenealogyTable' = Tables!Without(GenealogyTable, g)
  BY <1>1, <1>2 DEF Same, GenealogyTable, GenealogyRows, Has, Tables!Without
<1> QED  BY <1>2, <1>3, UsersKept, MembersKept, BansKept, PrivateKept, PersonsKept
         DEF Tables!ChangeGenealogies

(* PutMembership writes the membership and its reverse entry, nothing else. *)
LEMMA PutMembershipSame ==
    ASSUME NEW g \in Gids, NEW s \in Subjects, NEW r, PutMembership(s, g, r)
    PROVE  LET K == {membershipKey(g, s), reverseMembershipKey(s, g)}
           IN  /\ \A j : j \notin K => Same(j)
               /\ \A j \in K : j \in DOMAIN db' /\ db'[j] = Membership(s, g, r)
               /\ DOMAIN db' = DOMAIN db \cup K
BY DEF PutMembership, Same

(* PutMembership sets one row of the members.                              *)
LEMMA PutMembershipStep ==
    ASSUME NEW g \in Gids, NEW s \in Subjects, NEW q \in GenealogyRole,
           PutMembership(s, g, roleFromProto(q))
    PROVE  Tables!ChangeMembers
<1> DEFINE r == roleFromProto(q)
<1>1. PutMembership(s, g, r) /\ r \in 1..4
  BY DEF PutMembership, RoleIsValid
<1>2. PICK x \in Tables!Roles : x = roleToProto(r)
  BY <1>1 DEF roleToProto, Tables!Roles
<1> HIDE DEF r
<1>3. /\ \A j : j \notin {membershipKey(g, s), reverseMembershipKey(s, g)} => Same(j)
      /\ membershipKey(g, s) \in DOMAIN db'
      /\ db'[membershipKey(g, s)] = Membership(s, g, r)
  BY <1>1, PutMembershipSame
<1>4. /\ SameUsers /\ SameGenealogies /\ SameBans /\ SamePrivate /\ SamePersons
      /\ \A h \in Gids, t \in Subjects : h # g \/ t # s => Same(membershipKey(h, t))
  BY <1>3, OnlyMembers
<1>5. membershipToProto(Membership(s, g, r)).role = x
  BY <1>2 DEF membershipToProto, Membership
<1>6. MemberTable' = Tables!With(MemberTable, <<g, s>>, x)
  <2>1. ASSUME NEW p \in Gids \X Subjects, p # <<g, s>>
        PROVE  Same(membershipKey(p[1], p[2]))
    BY <1>4, <2>1
  <2>2. MemberRows' = MemberRows \cup {<<g, s>>}
    BY <1>3, <2>1 DEF MemberRows, Has, Same
  <2>3. \A p \in MemberRows : p # <<g, s>> =>
           db'[membershipKey(p[1], p[2])] = db[membershipKey(p[1], p[2])]
    BY <2>1 DEF MemberRows, Has, Same
  <2> QED  BY <1>3, <1>5, <2>2, <2>3 DEF MemberTable, Tables!With
<1>7. <<g, s>> \in Tables!Pairs
  BY DEF Tables!Pairs
<1> QED  BY <1>4, <1>6, <1>7, UsersKept, GenealogiesKept, BansKept, PrivateKept, PersonsKept
         DEF Tables!ChangeMembers

(* DeleteMembership takes one row out, with its reverse entry.             *)
LEMMA DeleteMembershipStep ==
    ASSUME NEW g \in Gids, NEW s \in Subjects, DeleteMembership(g, s)
    PROVE  Tables!ChangeMembers
<1>1. /\ \A j : j \notin {membershipKey(g, s), reverseMembershipKey(s, g)} => Same(j)
      /\ membershipKey(g, s) \notin DOMAIN db'
  BY DropSame DEF DeleteMembership
<1>2. /\ SameUsers /\ SameGenealogies /\ SameBans /\ SamePrivate /\ SamePersons
      /\ \A h \in Gids, t \in Subjects : h # g \/ t # s => Same(membershipKey(h, t))
  BY <1>1, OnlyMembers
<1>3. MemberTable' = Tables!Without(MemberTable, <<g, s>>)
  <2>1. ASSUME NEW p \in Gids \X Subjects, p # <<g, s>>
        PROVE  Same(membershipKey(p[1], p[2]))
    BY <1>2, <2>1
  <2>2. MemberRows' = MemberRows \ {<<g, s>>}
    BY <1>1, <2>1 DEF MemberRows, Has, Same
  <2>3. \A p \in MemberRows : p # <<g, s>> =>
           db'[membershipKey(p[1], p[2])] = db[membershipKey(p[1], p[2])]
    BY <2>1 DEF MemberRows, Has, Same
  <2> QED  BY <2>2, <2>3 DEF MemberTable, Tables!Without
<1>4. <<g, s>> \in Tables!Pairs
  BY DEF Tables!Pairs
<1> QED  BY <1>2, <1>3, <1>4, UsersKept, GenealogiesKept, BansKept, PrivateKept, PersonsKept
         DEF Tables!ChangeMembers

(* PutBan adds one pair to the bans.                                       *)
LEMMA PutBanStep ==
    ASSUME NEW g \in Gids, NEW s \in Subjects, PutBan(s, g)
    PROVE  Tables!ChangeBans
<1>1. /\ \A j : j # banKey(g, s) => Same(j)
      /\ banKey(g, s) \in DOMAIN db'
  BY PutSame DEF PutBan
<1>2. /\ SameUsers /\ SameGenealogies /\ SameMembers /\ SamePrivate /\ SamePersons
      /\ \A h \in Gids, t \in Subjects : h # g \/ t # s => Same(banKey(h, t))
  BY <1>1, OnlyBans
<1>3. BanRows' = BanRows \cup {<<g, s>>}
  <2>1. ASSUME NEW p \in Gids \X Subjects, p # <<g, s>>
        PROVE  Same(banKey(p[1], p[2]))
    BY <1>2, <2>1
  <2> QED  BY <1>1, <2>1 DEF BanRows, Has, Same
<1>4. <<g, s>> \in Tables!Pairs
  BY DEF Tables!Pairs
<1> QED  BY <1>2, <1>3, <1>4, UsersKept, GenealogiesKept, MembersKept, PrivateKept, PersonsKept
         DEF Tables!ChangeBans

(* DeleteBan takes one pair out.                                           *)
LEMMA DeleteBanStep ==
    ASSUME NEW g \in Gids, NEW s \in Subjects, DeleteBan(g, s)
    PROVE  Tables!ChangeBans
<1>1. /\ \A j : j # banKey(g, s) => Same(j)
      /\ banKey(g, s) \notin DOMAIN db'
  BY DropSame DEF DeleteBan
<1>2. /\ SameUsers /\ SameGenealogies /\ SameMembers /\ SamePrivate /\ SamePersons
      /\ \A h \in Gids, t \in Subjects : h # g \/ t # s => Same(banKey(h, t))
  BY <1>1, OnlyBans
<1>3. BanRows' = BanRows \ {<<g, s>>}
  <2>1. ASSUME NEW p \in Gids \X Subjects, p # <<g, s>>
        PROVE  Same(banKey(p[1], p[2]))
    BY <1>2, <2>1
  <2> QED  BY <1>1, <2>1 DEF BanRows, Has, Same
<1>4. <<g, s>> \in Tables!Pairs
  BY DEF Tables!Pairs
<1> QED  BY <1>2, <1>3, <1>4, UsersKept, GenealogiesKept, MembersKept, PrivateKept, PersonsKept
         DEF Tables!ChangeBans

-----------------------------------------------------------------------------
(* The counters *)

CountsTyped ==
    /\ \A s \in Subjects : readCounter(userPrivateGenCountKey(s)) \in 0..MaxCount
    /\ \A g \in Gids : readCounter(personCountKey(g)) \in 0..MaxCount

(* What incCounter leaves in a counter. *)
LEMMA Incremented ==
    ASSUME NEW k, NEW d \in {-1, 1}, readCounter(k) \in 0..MaxCount, incCounter(k, d)
    PROVE  \E n \in 0..MaxCount :
              /\ put(k, Count(n))
              /\ n = readCounter(k) + d \/ (n = 0 /\ readCounter(k) = 0)
<1> PICK cur : cur = readCounter(k)
  OBVIOUS
<1> DEFINE n == IF d < 0 /\ -d > cur THEN 0 ELSE cur + d
<1>1. put(k, Count(n)) /\ cur + d <= MaxCount
  BY DEF incCounter
<1>2. n \in 0..MaxCount /\ (n = cur + d \/ (n = 0 /\ cur = 0))
  BY <1>1, MaxCountAssumption
<1> QED  BY <1>1, <1>2

(* readCounter returns what was put.                                       *)
LEMMA Counted ==
    ASSUME NEW k, NEW n, put(k, Count(n))
    PROVE  readCounter(k)' = n
<1>1. k \in DOMAIN db' /\ db'[k] = Count(n)
  BY PutSame
<1> QED  BY <1>1 DEF readCounter, Has, Count

(* IncUserPrivateGenCount moves one user's counter.                        *)
LEMMA PrivateStep ==
    ASSUME NEW s \in Subjects, NEW d \in {-1, 1}, CountsTyped, IncUserPrivateGenCount(s, d)
    PROVE  Tables!CountPrivate \/ UNCHANGED Tables!tables
<1> DEFINE k == userPrivateGenCountKey(s)
<1>1. PICK n \in 0..MaxCount :
         /\ put(k, Count(n))
         /\ n = readCounter(k) + d \/ (n = 0 /\ readCounter(k) = 0)
  BY Incremented DEF CountsTyped, IncUserPrivateGenCount
<1>2. \A j : j # k => Same(j)
  BY <1>1, PutSame
<1>3. /\ SameUsers /\ SameGenealogies /\ SameMembers /\ SameBans /\ SamePersons
      /\ \A t \in Subjects \ {s} : Same(userPrivateGenCountKey(t))
  BY <1>2, OnlyPrivate
<1>4. readCounter(k)' = n
  BY <1>1, Counted
<1>5. PrivateCounts' = [PrivateCounts EXCEPT ![s] = n]
  <2>1. \A t \in Subjects \ {s} :
           readCounter(userPrivateGenCountKey(t))' = readCounter(userPrivateGenCountKey(t))
    BY <1>3 DEF Same, readCounter, Has
  <2> QED  BY <1>4, <2>1 DEF PrivateCounts
<1>6. PrivateCounts[s] = readCounter(k)
  BY DEF PrivateCounts
<1>7. /\ UserTable' = UserTable /\ GenealogyTable' = GenealogyTable
      /\ MemberTable' = MemberTable /\ BanRows' = BanRows /\ PersonCounts' = PersonCounts
  BY <1>3, UsersKept, GenealogiesKept, MembersKept, BansKept, PersonsKept
<1>8. CASE n = readCounter(k) + d
  <2>1. PrivateCounts[s] + d >= 0
    BY <1>6, <1>8
  <2>2. PrivateCounts' = [PrivateCounts EXCEPT ![s] = PrivateCounts[s] + d]
    BY <1>5, <1>6, <1>8
  <2> QED  BY <1>7, <2>1, <2>2 DEF Tables!CountPrivate
<1>9. CASE n = 0 /\ readCounter(k) = 0
  <2>1. PrivateCounts' = PrivateCounts
    BY <1>5, <1>6, <1>9 DEF PrivateCounts
  <2> QED  BY <1>7, <2>1 DEF Tables!tables
<1> QED  BY <1>1, <1>8, <1>9

(* A put under a person counter's key sets one genealogy's counter.        *)
LEMMA SetPersons ==
    ASSUME NEW g \in Gids, NEW n \in 0..MaxCount, put(personCountKey(g), Count(n))
    PROVE  Tables!CountPersons
<1>1. \A j : j # personCountKey(g) => Same(j)
  BY PutSame
<1>2. /\ SameUsers /\ SameGenealogies /\ SameMembers /\ SameBans /\ SamePrivate
      /\ \A h \in Gids \ {g} : Same(personCountKey(h))
  BY <1>1, OnlyPersons
<1>3. readCounter(personCountKey(g))' = n
  BY Counted
<1>4. PersonCounts' = [PersonCounts EXCEPT ![g] = n]
  <2>1. \A h \in Gids \ {g} : readCounter(personCountKey(h))' = readCounter(personCountKey(h))
    BY <1>2 DEF Same, readCounter, Has
  <2> QED  BY <1>3, <2>1 DEF PersonCounts
<1> QED  BY <1>2, <1>4, UsersKept, GenealogiesKept, MembersKept, BansKept, PrivateKept
         DEF Tables!CountPersons

(* IncPersonCount moves one genealogy's counter.                           *)
LEMMA IncPersonsStep ==
    ASSUME NEW g \in Gids, NEW d \in {-1, 1}, CountsTyped, IncPersonCount(g, d)
    PROVE  \E n \in 0..MaxCount : put(personCountKey(g), Count(n))
BY Incremented DEF CountsTyped, IncPersonCount

-----------------------------------------------------------------------------
(* The inductive invariant: the database holds no key but the helpers'; a  *)
(* membership is stored twice, alike, under its own id and subject; the    *)
(* counters stay in their range.                                           *)

KnownKeys ==
    {userKey(s) : s \in Subjects} \cup {genealogyKey(g) : g \in Gids}
    \cup {membershipKey(g, s) : g \in Gids, s \in Subjects}
    \cup {reverseMembershipKey(s, g) : g \in Gids, s \in Subjects}
    \cup {banKey(g, s) : g \in Gids, s \in Subjects}
    \cup {userPrivateGenCountKey(s) : s \in Subjects} \cup {personCountKey(g) : g \in Gids}

KeysKnown == DOMAIN db \subseteq KnownKeys

Paired(g, s) ==
    /\ Has(membershipKey(g, s)) <=> Has(reverseMembershipKey(s, g))
    /\ Has(membershipKey(g, s)) =>
          /\ db[reverseMembershipKey(s, g)] = db[membershipKey(g, s)]
          /\ db[membershipKey(g, s)].sub = s
          /\ db[membershipKey(g, s)].genealogy_id = g
MembersPaired == \A g \in Gids, s \in Subjects : Paired(g, s)

IInv == KeysKnown /\ MembersPaired /\ CountsTyped

(* Every helper builds a key that is known to be one.                      *)
LEMMA Known ==
    /\ \A s \in Subjects : userKey(s) \in KnownKeys /\ userPrivateGenCountKey(s) \in KnownKeys
    /\ \A g \in Gids : genealogyKey(g) \in KnownKeys /\ personCountKey(g) \in KnownKeys
    /\ \A g \in Gids, s \in Subjects :
          /\ membershipKey(g, s) \in KnownKeys /\ reverseMembershipKey(s, g) \in KnownKeys
          /\ banKey(g, s) \in KnownKeys
<1>1. \A s \in Subjects : userKey(s) \in KnownKeys /\ userPrivateGenCountKey(s) \in KnownKeys
  BY DEF KnownKeys
<1>2. \A g \in Gids : genealogyKey(g) \in KnownKeys /\ personCountKey(g) \in KnownKeys
  BY DEF KnownKeys
<1>3. ASSUME NEW g \in Gids, NEW s \in Subjects
      PROVE  /\ membershipKey(g, s) \in KnownKeys /\ reverseMembershipKey(s, g) \in KnownKeys
             /\ banKey(g, s) \in KnownKeys
  BY DEF KnownKeys
<1> QED  BY <1>1, <1>2, <1>3

(* Memberships stay paired where their keys are left alone.                *)
LEMMA PairedKept == MembersPaired /\ SameMembers => MembersPaired'
<1> SUFFICES ASSUME MembersPaired, SameMembers, NEW g \in Gids, NEW s \in Subjects
             PROVE  Paired(g, s)'
  BY DEF MembersPaired
<1> QED  BY DEF MembersPaired, Paired, SameMembers, Same, Has

(* Counters stay typed where their keys are left alone.                    *)
LEMMA CountsKept == CountsTyped /\ SamePrivate /\ SamePersons => CountsTyped'
<1> SUFFICES ASSUME CountsTyped, SamePrivate, SamePersons PROVE CountsTyped'
  OBVIOUS
<1>1. \A s \in Subjects :
         readCounter(userPrivateGenCountKey(s))' = readCounter(userPrivateGenCountKey(s))
  BY DEF SamePrivate, Same, readCounter, Has
<1>2. \A g \in Gids : readCounter(personCountKey(g))' = readCounter(personCountKey(g))
  BY DEF SamePersons, Same, readCounter, Has
<1> QED  BY <1>1, <1>2 DEF CountsTyped

(* A put under a known key keeps all keys known.                           *)
LEMMA KeptByPut ==
    ASSUME IInv, NEW k \in KnownKeys, NEW v, put(k, v)
    PROVE  KeysKnown'
<1>1. DOMAIN db' = DOMAIN db \cup {k}
  BY PutSame
<1> QED  BY <1>1 DEF IInv, KeysKnown

(* A deletion keeps all keys known.                                        *)
LEMMA KeptByDrop ==
    ASSUME IInv, NEW K, Drop(K)
    PROVE  KeysKnown'
BY DropSame DEF IInv, KeysKnown

(* PutUser and EnsureUser preserve the invariant.                          *)
LEMMA UserInv ==
    ASSUME IInv, NEW s \in Subjects, NEW e, PutUser(s, e)
    PROVE  IInv'
<1>1. put(userKey(s), User(s, e))
  BY DEF PutUser
<1>2. \A j : j # userKey(s) => Same(j)
  BY <1>1, PutSame
<1>3. SameMembers /\ SamePrivate /\ SamePersons
  BY <1>2, OnlyUsers
<1> QED  BY <1>1, <1>3, Known, KeptByPut, PairedKept, CountsKept DEF IInv

(* PutGenealogy preserves it.                                              *)
LEMMA PutGenealogyInv ==
    ASSUME IInv, NEW g \in Gids, NEW v, PutGenealogy(g, v)
    PROVE  IInv'
<1>1. put(genealogyKey(g), Genealogy(g, v))
  BY DEF PutGenealogy
<1>2. \A j : j # genealogyKey(g) => Same(j)
  BY <1>1, PutSame
<1>3. SameMembers /\ SamePrivate /\ SamePersons
  BY <1>2, OnlyGenealogies
<1> QED  BY <1>1, <1>3, Known, KeptByPut, PairedKept, CountsKept DEF IInv

(* DeleteGenealogy preserves it.                                           *)
LEMMA DeleteGenealogyInv ==
    ASSUME IInv, NEW g \in Gids, DeleteGenealogy(g)
    PROVE  IInv'
<1>1. Drop({genealogyKey(g)})
  BY DEF DeleteGenealogy
<1>2. \A j : j # genealogyKey(g) => Same(j)
  BY <1>1, DropSame
<1>3. SameMembers /\ SamePrivate /\ SamePersons
  BY <1>2, OnlyGenealogies
<1> QED  BY <1>1, <1>3, KeptByDrop, PairedKept, CountsKept DEF IInv

(* PutBan preserves it.                                                    *)
LEMMA PutBanInv ==
    ASSUME IInv, NEW g \in Gids, NEW s \in Subjects, PutBan(s, g)
    PROVE  IInv'
<1>1. put(banKey(g, s), Ban(s, g))
  BY DEF PutBan
<1>2. \A j : j # banKey(g, s) => Same(j)
  BY <1>1, PutSame
<1>3. SameMembers /\ SamePrivate /\ SamePersons
  BY <1>2, OnlyBans
<1> QED  BY <1>1, <1>3, Known, KeptByPut, PairedKept, CountsKept DEF IInv

(* DeleteBan preserves it.                                                 *)
LEMMA DeleteBanInv ==
    ASSUME IInv, NEW g \in Gids, NEW s \in Subjects, DeleteBan(g, s)
    PROVE  IInv'
<1>1. Drop({banKey(g, s)})
  BY DEF DeleteBan
<1>2. \A j : j # banKey(g, s) => Same(j)
  BY <1>1, DropSame
<1>3. SameMembers /\ SamePrivate /\ SamePersons
  BY <1>2, OnlyBans
<1> QED  BY <1>1, <1>3, KeptByDrop, PairedKept, CountsKept DEF IInv

(* PutMembership preserves it: both entries get the same value.            *)
LEMMA PutMembershipInv ==
    ASSUME IInv, NEW g \in Gids, NEW s \in Subjects, NEW r, PutMembership(s, g, r)
    PROVE  IInv'
<1>1. /\ \A j : j \notin {membershipKey(g, s), reverseMembershipKey(s, g)} => Same(j)
      /\ \A j \in {membershipKey(g, s), reverseMembershipKey(s, g)} :
            j \in DOMAIN db' /\ db'[j] = Membership(s, g, r)
      /\ DOMAIN db' = DOMAIN db \cup {membershipKey(g, s), reverseMembershipKey(s, g)}
  BY PutMembershipSame
<1>2. /\ SamePrivate /\ SamePersons
      /\ \A h \in Gids, t \in Subjects :
            h # g \/ t # s => Same(membershipKey(h, t)) /\ Same(reverseMembershipKey(t, h))
  BY <1>1, OnlyMembers
<1>3. KeysKnown'
  BY <1>1, Known DEF IInv, KeysKnown
<1>4. ASSUME NEW h \in Gids, NEW t \in Subjects PROVE Paired(h, t)'
  <2>1. CASE h = g /\ t = s
    BY <1>1, <2>1 DEF Paired, Has, Membership
  <2>2. CASE h # g \/ t # s
    BY <1>2, <2>2 DEF IInv, MembersPaired, Paired, Same, Has
  <2> QED  BY <2>1, <2>2
<1> QED  BY <1>2, <1>3, <1>4, CountsKept DEF IInv, MembersPaired

(* DeleteMembership preserves it: both entries go.                         *)
LEMMA DeleteMembershipInv ==
    ASSUME IInv, NEW g \in Gids, NEW s \in Subjects, DeleteMembership(g, s)
    PROVE  IInv'
<1>1. Drop({membershipKey(g, s), reverseMembershipKey(s, g)})
  BY DEF DeleteMembership
<1>2. /\ \A j : j \notin {membershipKey(g, s), reverseMembershipKey(s, g)} => Same(j)
      /\ membershipKey(g, s) \notin DOMAIN db' /\ reverseMembershipKey(s, g) \notin DOMAIN db'
  BY <1>1, DropSame
<1>3. /\ SamePrivate /\ SamePersons
      /\ \A h \in Gids, t \in Subjects :
            h # g \/ t # s => Same(membershipKey(h, t)) /\ Same(reverseMembershipKey(t, h))
  BY <1>2, OnlyMembers
<1>4. ASSUME NEW h \in Gids, NEW t \in Subjects PROVE Paired(h, t)'
  <2>1. CASE h = g /\ t = s
    BY <1>2, <2>1 DEF Paired, Has
  <2>2. CASE h # g \/ t # s
    BY <1>3, <2>2 DEF IInv, MembersPaired, Paired, Same, Has
  <2> QED  BY <2>1, <2>2
<1> QED  BY <1>1, <1>3, <1>4, KeptByDrop, CountsKept DEF IInv, MembersPaired

(* IncUserPrivateGenCount preserves it.                                    *)
LEMMA PrivateInv ==
    ASSUME IInv, NEW s \in Subjects, NEW d \in {-1, 1}, IncUserPrivateGenCount(s, d)
    PROVE  IInv'
<1> DEFINE k == userPrivateGenCountKey(s)
<1>1. PICK n \in 0..MaxCount : put(k, Count(n))
  BY Incremented DEF IInv, CountsTyped, IncUserPrivateGenCount
<1>2. \A j : j # k => Same(j)
  BY <1>1, PutSame
<1>3. SameMembers /\ SamePersons /\ \A t \in Subjects \ {s} : Same(userPrivateGenCountKey(t))
  BY <1>2, OnlyPrivate
<1>4. readCounter(k)' = n
  BY <1>1, Counted
<1>5. \A t \in Subjects \ {s} :
         readCounter(userPrivateGenCountKey(t))' = readCounter(userPrivateGenCountKey(t))
  BY <1>3 DEF Same, readCounter, Has
<1>6. \A g \in Gids : readCounter(personCountKey(g))' = readCounter(personCountKey(g))
  BY <1>3 DEF SamePersons, Same, readCounter, Has
<1>7. CountsTyped'
  BY <1>4, <1>5, <1>6 DEF IInv, CountsTyped
<1> QED  BY <1>1, <1>3, <1>7, Known, KeptByPut, PairedKept DEF IInv

(* IncPersonCount and SetPersonCount preserve it.                          *)
LEMMA PersonsInv ==
    ASSUME IInv, NEW g \in Gids, NEW n \in 0..MaxCount, put(personCountKey(g), Count(n))
    PROVE  IInv'
<1>1. \A j : j # personCountKey(g) => Same(j)
  BY PutSame
<1>2. SameMembers /\ SamePrivate /\ \A h \in Gids \ {g} : Same(personCountKey(h))
  BY <1>1, OnlyPersons
<1>3. readCounter(personCountKey(g))' = n
  BY Counted
<1>4. \A h \in Gids \ {g} : readCounter(personCountKey(h))' = readCounter(personCountKey(h))
  BY <1>2 DEF Same, readCounter, Has
<1>5. \A s \in Subjects :
         readCounter(userPrivateGenCountKey(s))' = readCounter(userPrivateGenCountKey(s))
  BY <1>2 DEF SamePrivate, Same, readCounter, Has
<1>6. CountsTyped'
  BY <1>3, <1>4, <1>5 DEF IInv, CountsTyped
<1> QED  BY <1>2, <1>6, Known, KeptByPut, PairedKept DEF IInv

(* An empty database satisfies the invariant.                              *)
LEMMA InitInv == Init => IInv
<1> SUFFICES ASSUME Init PROVE IInv
  OBVIOUS
<1>1. DOMAIN db = {}
  BY DEF Init
<1> QED  BY <1>1, MaxCountAssumption
         DEF IInv, KeysKnown, MembersPaired, Paired, CountsTyped, readCounter, Has

(* Every operation preserves the invariant.                                *)
LEMMA StepInv == IInv /\ [Next]_db => IInv'
<1> SUFFICES ASSUME IInv, [Next]_db PROVE IInv'
  OBVIOUS
<1>1. CASE \E s \in Subjects, e \in Emails : PutUser(s, e) \/ EnsureUser(s, e)
  BY <1>1, UserInv DEF EnsureUser
<1>2. CASE \E g \in Gids, v \in Visibility : PutGenealogy(g, visibilityFromProto(v))
  BY <1>2, PutGenealogyInv
<1>3. CASE \E g \in Gids : DeleteGenealogy(g)
  BY <1>3, DeleteGenealogyInv
<1>4. CASE \E g \in Gids, d \in {-1, 1} : IncPersonCount(g, d)
  BY <1>4, IncPersonsStep, PersonsInv DEF IInv
<1>5. CASE \E g \in Gids, n \in 0..MaxCount : SetPersonCount(g, n)
  BY <1>5, PersonsInv DEF SetPersonCount
<1>6. CASE \E g \in Gids, s \in Subjects, r \in GenealogyRole :
              PutMembership(s, g, roleFromProto(r))
  BY <1>6, PutMembershipInv
<1>7. CASE \E g \in Gids, s \in Subjects : DeleteMembership(g, s)
  BY <1>7, DeleteMembershipInv
<1>8. CASE \E g \in Gids, s \in Subjects : PutBan(s, g)
  BY <1>8, PutBanInv
<1>9. CASE \E g \in Gids, s \in Subjects : DeleteBan(g, s)
  BY <1>9, DeleteBanInv
<1>10. CASE \E s \in Subjects, d \in {-1, 1} : IncUserPrivateGenCount(s, d)
  BY <1>10, PrivateInv
<1>11. CASE UNCHANGED db
  <2>1. SameMembers /\ SamePrivate /\ SamePersons
    BY <1>11 DEF SameMembers, SamePrivate, SamePersons, Same
  <2>2. KeysKnown'
    BY <1>11 DEF IInv, KeysKnown
  <2> QED  BY <2>1, <2>2, PairedKept, CountsKept DEF IInv
<1> QED  BY <1>1, <1>2, <1>3, <1>4, <1>5, <1>6, <1>7, <1>8, <1>9, <1>10, <1>11 DEF Next

(* Through every operation of the store, the keys in use are ones the      *)
(* helpers build, a membership and its reverse entry are written and       *)
(* deleted together with one value, and counters stay within the bound.    *)
THEOREM Inductive == Spec => []IInv
BY InitInv, StepInv, PTL DEF Spec

(* An empty database is empty tables.                                      *)
LEMMA InitTables == Init => Tables!Init
<1> SUFFICES ASSUME Init PROVE Tables!Init
  OBVIOUS
<1>1. DOMAIN db = {}
  BY DEF Init
<1>2. UserRows = {} /\ GenealogyRows = {} /\ MemberRows = {} /\ BanRows = {}
  BY <1>1 DEF UserRows, GenealogyRows, MemberRows, BanRows, Has
<1>3. UserTable = [x \in {} |-> 0]
  BY <1>2 DEF UserTable
<1>4. GenealogyTable = [x \in {} |-> 0]
  BY <1>2 DEF GenealogyTable
<1>5. MemberTable = [x \in {} |-> 0]
  BY <1>2 DEF MemberTable
<1>6. PrivateCounts = [s \in Subjects |-> 0] /\ PersonCounts = [g \in Gids |-> 0]
  BY <1>1 DEF PrivateCounts, PersonCounts, readCounter, Has
<1> QED  BY <1>2, <1>3, <1>4, <1>5, <1>6 DEF Tables!Init, Tables!Empty

(* Every operation is a step of the tables, or changes none.               *)
LEMMA StepTables == IInv /\ [Next]_db => [Tables!Next]_(Tables!tables)
<1> SUFFICES ASSUME IInv, [Next]_db PROVE Tables!Next \/ UNCHANGED Tables!tables
  OBVIOUS
<1> USE DEF Tables!Next
<1>1. CASE \E s \in Subjects, e \in Emails : PutUser(s, e) \/ EnsureUser(s, e)
  BY <1>1, UserStep DEF EnsureUser
<1>2. CASE \E g \in Gids, v \in Visibility : PutGenealogy(g, visibilityFromProto(v))
  BY <1>2, PutGenealogyStep
<1>3. CASE \E g \in Gids : DeleteGenealogy(g)
  BY <1>3, DeleteGenealogyStep
<1>4. CASE \E g \in Gids, d \in {-1, 1} : IncPersonCount(g, d)
  BY <1>4, IncPersonsStep, SetPersons DEF IInv
<1>5. CASE \E g \in Gids, n \in 0..MaxCount : SetPersonCount(g, n)
  BY <1>5, SetPersons DEF SetPersonCount
<1>6. CASE \E g \in Gids, s \in Subjects, r \in GenealogyRole :
              PutMembership(s, g, roleFromProto(r))
  BY <1>6, PutMembershipStep
<1>7. CASE \E g \in Gids, s \in Subjects : DeleteMembership(g, s)
  BY <1>7, DeleteMembershipStep
<1>8. CASE \E g \in Gids, s \in Subjects : PutBan(s, g)
  BY <1>8, PutBanStep
<1>9. CASE \E g \in Gids, s \in Subjects : DeleteBan(g, s)
  BY <1>9, DeleteBanStep
<1>10. CASE \E s \in Subjects, d \in {-1, 1} : IncUserPrivateGenCount(s, d)
  BY <1>10, PrivateStep DEF IInv
<1>11. CASE UNCHANGED db
  <2>1. SameUsers /\ SameGenealogies /\ SameMembers /\ SameBans /\ SamePrivate /\ SamePersons
    BY <1>11 DEF SameUsers, SameGenealogies, SameMembers, SameBans, SamePrivate, SamePersons, Same
  <2> QED  BY <2>1, UsersKept, GenealogiesKept, MembersKept, BansKept, PrivateKept, PersonsKept
           DEF Tables!tables
<1> QED  BY <1>1, <1>2, <1>3, <1>4, <1>5, <1>6, <1>7, <1>8, <1>9, <1>10, <1>11 DEF Next

(* The key-value database implements the tables of the API, whatever the   *)
(* subjects are and whatever the ids are as long as they hold no slash:    *)
(* every operation of internal/platform changes the row it names, or       *)
(* nothing, and what the mappers read back of it is what they wrote.       *)
THEOREM StoreImplementsTables == Spec => Implements
<1>1. Init => Tables!Init
  BY InitTables
<1>2. IInv /\ [Next]_db => [Tables!Next]_(Tables!tables)
  BY StepTables
<1> QED  BY <1>1, <1>2, Inductive, PTL DEF Spec, Implements, Tables!Spec

-----------------------------------------------------------------------------
(* The scans *)

(* Known keys are strings.                                                 *)
LEMMA KnownStr == KnownKeys \subseteq Str
BY Strings, UserKey, GenealogyKey, MembershipKey, ReverseMembershipKey, BanKey, PrivateKey,
   PersonKey DEF KnownKeys

(* What it means for g/ to be a prefix of a key.                           *)
LEMMA GenealogyPrefix ==
    ASSUME NEW k \in Str
    PROVE  IsPrefix(<<"g", "/">>, k) <=> Len(k) >= 2 /\ k[1] = "g" /\ k[2] = "/"
<1>1. <<"g", "/">> \in Str /\ Len(<<"g", "/">>) = 2
  BY CharsAssumption DEF Str
<1>2. IsPrefix(<<"g", "/">>, k) <=> 2 <= Len(k) /\ \A i \in 1..2 : <<"g", "/">>[i] = k[i]
  BY <1>1, Prefix
<1>3. 1..2 = {1, 2}
  OBVIOUS
<1> QED  BY <1>2, <1>3, Length

(* A key under the prefix of a genealogy's members. *)
UnderGid(k, g) ==
    /\ Len(k) >= 3 + Len(g)
    /\ k[1] = "m" /\ k[2] = "/" /\ Piece(k, 2, g) /\ k[3 + Len(g)] = "/"

(* What it means for m/<gid>/ to be a prefix of a key.                     *)
LEMMA MembersPrefix ==
    ASSUME NEW k \in Str, NEW g \in Str
    PROVE  IsPrefix(<<"m", "/">> \o g \o <<"/">>, k) <=> UnderGid(k, g)
<1>1. PICK p : p = <<"m", "/">> \o g \o <<"/">>
  OBVIOUS
<1>2. /\ p \in Str /\ Len(p) = 3 + Len(g) /\ p[1] = "m" /\ p[2] = "/"
      /\ Piece(p, 2, g) /\ p[3 + Len(g)] = "/"
  BY <1>1, CharsAssumption DEF Str, Piece
<1>3. IsPrefix(p, k) <=> 3 + Len(g) <= Len(k) /\ \A i \in 1..3 + Len(g) : p[i] = k[i]
  BY <1>2, Prefix
<1>4. Len(g) \in Nat /\ Len(k) \in Nat
  BY Length
<1>5. ASSUME IsPrefix(p, k) PROVE UnderGid(k, g)
  <2>1. \A i \in 1..Len(g) : p[2 + i] = g[i] /\ 2 + i \in 1..3 + Len(g)
    BY <1>2, <1>4 DEF Piece
  <2> QED  BY <1>2, <1>3, <1>4, <1>5, <2>1 DEF UnderGid, Piece
<1>6. ASSUME UnderGid(k, g) PROVE IsPrefix(p, k)
  <2>1. ASSUME NEW i \in 1..3 + Len(g) PROVE p[i] = k[i]
    <3>1. CASE i \in 1..2
      BY <1>2, <1>6, <3>1 DEF UnderGid
    <3>2. CASE i = 3 + Len(g)
      BY <1>2, <1>6, <3>2 DEF UnderGid
    <3>3. CASE i \in 3..2 + Len(g)
      <4>1. PICK j \in 1..Len(g) : i = 2 + j
        BY <1>4, <3>3
      <4> QED  BY <1>2, <1>6, <4>1 DEF UnderGid, Piece
    <3> QED  BY <1>4, <3>1, <3>2, <3>3
  <2> QED  BY <1>3, <1>4, <1>6, <2>1 DEF UnderGid
<1> QED  BY <1>1, <1>5, <1>6

(* A key under the prefix of a user's memberships. *)
UnderSub(k, s) ==
    /\ Len(k) >= 4 + Len(s)
    /\ k[1] = "m" /\ k[2] = "r" /\ k[3] = "/" /\ Piece(k, 3, s) /\ k[4 + Len(s)] = "/"

(* What it means for mr/<sub>/ to be a prefix of a key.                    *)
LEMMA UserPrefix ==
    ASSUME NEW k \in Str, NEW s \in Str
    PROVE  IsPrefix(<<"m", "r", "/">> \o s \o <<"/">>, k) <=> UnderSub(k, s)
<1>1. PICK p : p = <<"m", "r", "/">> \o s \o <<"/">>
  OBVIOUS
<1>2. /\ p \in Str /\ Len(p) = 4 + Len(s) /\ p[1] = "m" /\ p[2] = "r" /\ p[3] = "/"
      /\ Piece(p, 3, s) /\ p[4 + Len(s)] = "/"
  BY <1>1, CharsAssumption DEF Str, Piece
<1>3. IsPrefix(p, k) <=> 4 + Len(s) <= Len(k) /\ \A i \in 1..4 + Len(s) : p[i] = k[i]
  BY <1>2, Prefix
<1>4. Len(s) \in Nat /\ Len(k) \in Nat
  BY Length
<1>5. ASSUME IsPrefix(p, k) PROVE UnderSub(k, s)
  <2>1. \A i \in 1..Len(s) : p[3 + i] = s[i] /\ 3 + i \in 1..4 + Len(s)
    BY <1>2, <1>4 DEF Piece
  <2> QED  BY <1>2, <1>3, <1>4, <1>5, <2>1 DEF UnderSub, Piece
<1>6. ASSUME UnderSub(k, s) PROVE IsPrefix(p, k)
  <2>1. ASSUME NEW i \in 1..4 + Len(s) PROVE p[i] = k[i]
    <3>1. CASE i \in 1..3
      BY <1>2, <1>6, <3>1 DEF UnderSub
    <3>2. CASE i = 4 + Len(s)
      BY <1>2, <1>6, <3>2 DEF UnderSub
    <3>3. CASE i \in 4..3 + Len(s)
      <4>1. PICK j \in 1..Len(s) : i = 3 + j
        BY <1>4, <3>3
      <4> QED  BY <1>2, <1>6, <4>1 DEF UnderSub, Piece
    <3> QED  BY <1>4, <3>1, <3>2, <3>3
  <2> QED  BY <1>3, <1>4, <1>6, <2>1 DEF UnderSub
<1> QED  BY <1>1, <1>5, <1>6

(* One subject extends another by a slash.                                 *)
LEMMA ExtendsMeans ==
    ASSUME NEW s \in Str, NEW t \in Str
    PROVE  Extends(t, s) <=> Len(t) > Len(s) /\ Piece(t, 0, s) /\ t[Len(s) + 1] = "/"
BY CharsAssumption DEF Str, Extends, IsPrefix, Piece

(* Which of the stored keys each scan reaches. *)
LEMMA ReachesGenealogies ==
    ASSUME NEW k \in KnownKeys
    PROVE  IsPrefix(<<"g", "/">>, k) <=> \E g \in Gids : k = genealogyKey(g)
<1>1. IsPrefix(<<"g", "/">>, k) <=> Len(k) >= 2 /\ k[1] = "g" /\ k[2] = "/"
  BY KnownStr, GenealogyPrefix
<1>2. ASSUME k[1] = "g" PROVE \E g \in Gids : k = genealogyKey(g)
  BY <1>2, Letters DEF KnownKeys
<1>3. ASSUME NEW g \in Gids, k = genealogyKey(g)
      PROVE  Len(k) >= 2 /\ k[1] = "g" /\ k[2] = "/"
  BY <1>3, Strings, GenealogyKey, Length
<1> QED  BY <1>1, <1>2, <1>3

(* The scan of m/<gid>/ reaches the membership keys of that genealogy.     *)
LEMMA ReachesMembers ==
    ASSUME NEW k \in KnownKeys, NEW g \in Gids
    PROVE  IsPrefix(<<"m", "/">> \o g \o <<"/">>, k)
              <=> \E s \in Subjects : k = membershipKey(g, s)
<1>0. g \in Str
  BY Strings
<1>1. IsPrefix(<<"m", "/">> \o g \o <<"/">>, k) <=> UnderGid(k, g)
  BY <1>0, KnownStr, MembersPrefix
<1>2. ASSUME UnderGid(k, g) PROVE \E s \in Subjects : k = membershipKey(g, s)
  <2>1. k[1] = "m" /\ k[2] = "/"
    BY <1>2 DEF UnderGid
  <2>2. PICK h \in Gids, s \in Subjects : k = membershipKey(h, s)
    BY <2>1, Letters DEF KnownKeys
  <2>3. Forward(k, h, s)
    BY <2>2, Strings, MembershipKey
  <2>4. g = h
    BY <1>2, <2>3, FirstSlash DEF UnderGid, Forward
  <2> QED  BY <2>2, <2>4
<1>3. ASSUME NEW s \in Subjects, k = membershipKey(g, s) PROVE UnderGid(k, g)
  <2>1. s \in Str
    BY Strings
  <2>2. Forward(k, g, s) /\ k[1] = "m"
    BY <1>0, <1>3, <2>1, MembershipKey
  <2>3. Len(g) \in Nat /\ Len(s) \in Nat
    BY <1>0, <2>1, Length
  <2> QED  BY <2>2, <2>3 DEF Forward, UnderGid
<1> QED  BY <1>1, <1>2, <1>3

(* The scan of mr/<sub>/ reaches the reverse keys of sub and of what extends it. *)
LEMMA ReachesUser ==
    ASSUME NEW k \in KnownKeys, NEW s \in Subjects
    PROVE  IsPrefix(<<"m", "r", "/">> \o s \o <<"/">>, k)
              <=> \E g \in Gids, t \in Subjects :
                     k = reverseMembershipKey(t, g) /\ (t = s \/ Extends(t, s))
<1>0. s \in Str
  BY Strings
<1>1. IsPrefix(<<"m", "r", "/">> \o s \o <<"/">>, k) <=> UnderSub(k, s)
  BY <1>0, KnownStr, UserPrefix
<1>2. ASSUME NEW g \in Gids, NEW t \in Subjects, k = reverseMembershipKey(t, g)
      PROVE  UnderSub(k, s) <=> t = s \/ Extends(t, s)
  <2>1. g \in Str /\ t \in Str
    BY Strings
  <2>2. Backward(k, t, g) /\ k[1] = "m"
    BY <1>2, <2>1, ReverseMembershipKey
  <2>3. Len(s) \in Nat /\ Len(t) \in Nat /\ Len(g) \in Nat
    BY <1>0, <2>1, Length
  <2>4. ASSUME UnderSub(k, s) PROVE t = s \/ Extends(t, s)
    <3>1. ~(Len(s) > Len(t))
      BY <2>2, <2>3, <2>4, LastSlash DEF UnderSub, Backward
    <3>2. CASE Len(s) = Len(t)
      BY <1>0, <2>1, <2>2, <2>4, <3>2, SamePiece DEF UnderSub, Backward
    <3>3. CASE Len(s) < Len(t)
      <4>1. \A i \in 1..Len(s) : i \in 1..Len(t) /\ k[3 + i] = s[i] /\ k[3 + i] = t[i]
        BY <2>2, <2>3, <2>4, <3>3 DEF UnderSub, Backward, Piece
      <4>2. Piece(t, 0, s)
        BY <2>3, <4>1 DEF Piece
      <4>3. Len(s) + 1 \in 1..Len(t) /\ 3 + (Len(s) + 1) = 4 + Len(s)
        BY <2>3, <3>3
      <4>4. t[Len(s) + 1] = "/"
        BY <2>2, <2>4, <4>3 DEF UnderSub, Backward, Piece
      <4> QED  BY <1>0, <2>1, <3>3, <4>2, <4>4, ExtendsMeans
    <3> QED  BY <2>3, <3>1, <3>2, <3>3
  <2>5. ASSUME t = s PROVE UnderSub(k, s)
    BY <2>2, <2>3, <2>5 DEF UnderSub, Backward
  <2>6. ASSUME Extends(t, s) PROVE UnderSub(k, s)
    <3>1. Len(t) > Len(s) /\ Piece(t, 0, s) /\ t[Len(s) + 1] = "/"
      BY <1>0, <2>1, <2>6, ExtendsMeans
    <3>2. \A i \in 1..Len(s) : i \in 1..Len(t) /\ t[i] = s[i] /\ k[3 + i] = t[i]
      BY <2>2, <2>3, <3>1 DEF Backward, Piece
    <3>3. Piece(k, 3, s)
      BY <3>2 DEF Piece
    <3>4. Len(s) + 1 \in 1..Len(t) /\ 3 + (Len(s) + 1) = 4 + Len(s)
      BY <2>3, <3>1
    <3>5. k[4 + Len(s)] = "/"
      BY <2>2, <3>1, <3>4 DEF Backward, Piece
    <3> QED  BY <2>2, <2>3, <3>1, <3>3, <3>5 DEF UnderSub, Backward
  <2> QED  BY <2>4, <2>5, <2>6
<1>3. ASSUME UnderSub(k, s)
      PROVE  \E g \in Gids, t \in Subjects : k = reverseMembershipKey(t, g)
  <2>1. k[1] = "m" /\ k[2] = "r"
    BY <1>3 DEF UnderSub
  <2> QED  BY <2>1, Letters DEF KnownKeys
<1> QED  BY <1>1, <1>2, <1>3

(* The scans agree with the tables in every state of the invariant. *)
LEMMA ScansOfInv == IInv => ScansExact
<1> SUFFICES ASSUME IInv PROVE ScansExact
  OBVIOUS
<1>1. DOMAIN db \subseteq KnownKeys
  BY DEF IInv, KeysKnown
<1>2. IterateGenealogies = {db[genealogyKey(g)] : g \in GenealogyRows}
  <2>1. {j \in DOMAIN db : IsPrefix(<<"g", "/">>, j)} = {genealogyKey(g) : g \in GenealogyRows}
    BY <1>1, ReachesGenealogies DEF GenealogyRows, Has
  <2> QED  BY <2>1 DEF IterateGenealogies, scanPrefix
<1>3. ASSUME NEW g \in Gids
      PROVE  IterateMembershipsForGenealogy(g) = {m \in MembersStored : m.genealogy_id = g}
  <2>1. ASSUME NEW m \in IterateMembershipsForGenealogy(g)
        PROVE  m \in MembersStored /\ m.genealogy_id = g
    <3>1. PICK k \in DOMAIN db : IsPrefix(<<"m", "/">> \o g \o <<"/">>, k) /\ m = db[k]
      BY <2>1 DEF IterateMembershipsForGenealogy, scanPrefix
    <3>2. PICK s \in Subjects : k = membershipKey(g, s)
      BY <1>1, <3>1, ReachesMembers
    <3>3. PICK p : p = <<g, s>>
      OBVIOUS
    <3>4. p \in Gids \X Subjects /\ p[1] = g /\ p[2] = s
      BY <3>3
    <3>5. p \in MemberRows /\ m = db[membershipKey(p[1], p[2])]
      BY <3>1, <3>2, <3>4 DEF MemberRows, Has
    <3>6. m \in MembersStored
      BY <3>5 DEF MembersStored
    <3> QED  BY <3>1, <3>2, <3>6 DEF IInv, MembersPaired, Paired, Has
  <2>2. ASSUME NEW m \in MembersStored, m.genealogy_id = g
        PROVE  m \in IterateMembershipsForGenealogy(g)
    <3>1. PICK p \in MemberRows : m = db[membershipKey(p[1], p[2])]
      BY <2>2 DEF MembersStored
    <3>2. PICK h \in Gids, s \in Subjects : h = p[1] /\ s = p[2] /\ Has(membershipKey(h, s))
      BY <3>1 DEF MemberRows
    <3>3. h = g
      BY <2>2, <3>1, <3>2 DEF IInv, MembersPaired, Paired
    <3>4. IsPrefix(<<"m", "/">> \o g \o <<"/">>, membershipKey(g, s))
      BY <3>3, Known, ReachesMembers
    <3> QED  BY <3>1, <3>2, <3>3, <3>4 DEF IterateMembershipsForGenealogy, scanPrefix, Has
  <2> QED  BY <2>1, <2>2
<1>4. ASSUME NEW s \in Subjects
      PROVE  IterateMembershipsForUser(s) = {m \in MembersStored : m.sub = s \/ Extends(m.sub, s)}
  <2>1. ASSUME NEW m \in IterateMembershipsForUser(s)
        PROVE  m \in MembersStored /\ (m.sub = s \/ Extends(m.sub, s))
    <3>1. PICK k \in DOMAIN db : IsPrefix(<<"m", "r", "/">> \o s \o <<"/">>, k) /\ m = db[k]
      BY <2>1 DEF IterateMembershipsForUser, scanPrefix
    <3>2. PICK g \in Gids, t \in Subjects :
             k = reverseMembershipKey(t, g) /\ (t = s \/ Extends(t, s))
      BY <1>1, <3>1, ReachesUser
    <3>3. Has(membershipKey(g, t)) /\ m = db[membershipKey(g, t)] /\ m.sub = t
      BY <3>1, <3>2 DEF IInv, MembersPaired, Paired, Has
    <3>4. PICK p : p = <<g, t>>
      OBVIOUS
    <3>5. p \in Gids \X Subjects /\ p[1] = g /\ p[2] = t
      BY <3>4
    <3>6. p \in MemberRows /\ m = db[membershipKey(p[1], p[2])]
      BY <3>3, <3>5 DEF MemberRows
    <3> QED  BY <3>2, <3>3, <3>6 DEF MembersStored
  <2>2. ASSUME NEW m \in MembersStored, m.sub = s \/ Extends(m.sub, s)
        PROVE  m \in IterateMembershipsForUser(s)
    <3>1. PICK p \in MemberRows : m = db[membershipKey(p[1], p[2])]
      BY <2>2 DEF MembersStored
    <3>2. PICK g \in Gids, t \in Subjects : g = p[1] /\ t = p[2] /\ Has(membershipKey(g, t))
      BY <3>1 DEF MemberRows
    <3>3. /\ m.sub = t /\ Has(reverseMembershipKey(t, g))
          /\ db[reverseMembershipKey(t, g)] = m
      BY <3>1, <3>2 DEF IInv, MembersPaired, Paired
    <3>4. IsPrefix(<<"m", "r", "/">> \o s \o <<"/">>, reverseMembershipKey(t, g))
      BY <2>2, <3>3, Known, ReachesUser
    <3> QED  BY <3>3, <3>4 DEF IterateMembershipsForUser, scanPrefix, Has
  <2> QED  BY <2>1, <2>2
<1> QED  BY <1>2, <1>3, <1>4 DEF ScansExact

(* A listing is the table, in every reachable database: the scan of g/     *)
(* finds the genealogies, the scan of m/<gid>/ the members of that         *)
(* genealogy and of no other, and the scan of mr/<sub>/ the memberships of *)
(* that user and of the users whose subject extends his by a slash.        *)
THEOREM Scans == Spec => []ScansExact
BY Inductive, ScansOfInv, PTL

(* A user's listing holds the user's memberships and nobody else's. *)
OwnMemberships ==
    \A s \in Subjects : IterateMembershipsForUser(s) = {m \in MembersStored : m.sub = s}

(* If no subject extends another by a slash, as when the identity provider *)
(* gives out opaque names without one, the scan of mr/<sub>/ is the user's *)
(* own memberships (IterateMembershipsForUser, behind ListGenealogies).    *)
THEOREM UserScansAreOwn ==
    ASSUME \A s, t \in Subjects : ~Extends(t, s)
    PROVE  Spec => []OwnMemberships
<1>1. IInv => OwnMemberships
  <2> SUFFICES ASSUME IInv, NEW s \in Subjects
               PROVE  IterateMembershipsForUser(s) = {m \in MembersStored : m.sub = s}
    BY DEF OwnMemberships
  <2>1. IterateMembershipsForUser(s) = {m \in MembersStored : m.sub = s \/ Extends(m.sub, s)}
    BY ScansOfInv DEF ScansExact
  <2>2. ASSUME NEW m \in MembersStored PROVE m.sub \in Subjects
    <3>1. PICK p \in MemberRows : m = db[membershipKey(p[1], p[2])]
      BY <2>2 DEF MembersStored
    <3>2. PICK g \in Gids, t \in Subjects : g = p[1] /\ t = p[2] /\ Has(membershipKey(g, t))
      BY <3>1 DEF MemberRows
    <3> QED  BY <3>1, <3>2 DEF IInv, MembersPaired, Paired
  <2> QED  BY <2>1, <2>2
<1> QED  BY <1>1, Inductive, PTL
=============================================================================
