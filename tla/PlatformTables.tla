--------------------------- MODULE PlatformTables ---------------------------
(***************************************************************************)
(* What internal/platform promises, in the words of the API: tables of     *)
(* users, genealogies, memberships, bans and counters, in which every      *)
(* operation changes one row of one table and nothing else.  A table is a  *)
(* function whose domain is the set of its rows.                           *)
(***************************************************************************)
EXTENDS Integers

CONSTANTS Subjects, Gids, Emails, Counts

VARIABLES users, genealogies, members, bans, privateCount, personCount
tables == <<users, genealogies, members, bans, privateCount, personCount>>

Visibilities == {"PRIVATE", "UNLISTED", "PUBLIC"}
Roles == {"VIEWER", "CONTRIBUTOR", "CURATOR", "OWNER"}
Pairs == Gids \X Subjects

Empty == [x \in {} |-> 0]
With(f, x, v) == [y \in DOMAIN f \cup {x} |-> IF y = x THEN v ELSE f[y]]
Without(f, x) == [y \in DOMAIN f \ {x} |-> f[y]]

Init ==
    /\ users = Empty /\ genealogies = Empty /\ members = Empty /\ bans = {}
    /\ privateCount = [s \in Subjects |-> 0] /\ personCount = [g \in Gids |-> 0]

SetUser == \E s \in Subjects, e \in Emails :
    /\ users' = With(users, s, e)
    /\ UNCHANGED <<genealogies, members, bans, privateCount, personCount>>

ChangeGenealogies ==
    /\ \E g \in Gids :
         \/ \E v \in Visibilities : genealogies' = With(genealogies, g, v)
         \/ genealogies' = Without(genealogies, g)
    /\ UNCHANGED <<users, members, bans, privateCount, personCount>>

ChangeMembers ==
    /\ \E p \in Pairs :
         \/ \E r \in Roles : members' = With(members, p, r)
         \/ members' = Without(members, p)
    /\ UNCHANGED <<users, genealogies, bans, privateCount, personCount>>

ChangeBans ==
    /\ \E p \in Pairs : bans' \in {bans \cup {p}, bans \ {p}}
    /\ UNCHANGED <<users, genealogies, members, privateCount, personCount>>

\* A private count moves by one and never below zero; a person count too, or
\* is set by a recount.
CountPrivate ==
    /\ \E s \in Subjects, d \in {-1, 1} :
         /\ privateCount[s] + d >= 0
         /\ privateCount' = [privateCount EXCEPT ![s] = @ + d]
    /\ UNCHANGED <<users, genealogies, members, bans, personCount>>

CountPersons ==
    /\ \E g \in Gids, n \in Counts : personCount' = [personCount EXCEPT ![g] = n]
    /\ UNCHANGED <<users, genealogies, members, bans, privateCount>>

Next ==
    SetUser \/ ChangeGenealogies \/ ChangeMembers \/ ChangeBans \/ CountPrivate
        \/ CountPersons

Spec == Init /\ [][Next]_tables
=============================================================================
