----------------------------- MODULE StoreTable -----------------------------
(***************************************************************************)
(* What the tenants manager promises about the stores of the genealogies:  *)
(* a genealogy's directory is opened only when no handle on it is open, a  *)
(* handle that was closed never becomes open again.  Abstract              *)
(* specification of src/internal/tenants (doc.go).                         *)
(***************************************************************************)
EXTENDS Naturals

CONSTANT Ids

VARIABLES open, opens

Init ==
    /\ open = {}
    /\ opens = [i \in Ids |-> 0]

Open(id) ==
    /\ \A s \in open : s[1] # id
    /\ opens' = [opens EXCEPT ![id] = @ + 1]
    /\ open' = open \cup {<<id, opens[id] + 1>>}

CloseSome ==
    /\ \E S \in SUBSET open : open' = open \ S
    /\ UNCHANGED opens

Next == (\E id \in Ids : Open(id)) \/ CloseSome

Spec == Init /\ [][Next]_<<open, opens>>
=============================================================================
