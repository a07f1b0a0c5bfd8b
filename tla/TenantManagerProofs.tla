------------------------ MODULE TenantManagerProofs ------------------------
(***************************************************************************)
(* Proofs about TenantManager, for every set of ids and goroutines and     *)
(* every MaxOpen: typing, exclusive handles, coherence of the LRU list and *)
(* its index, refinement of StoreTable, isolation of requests, clean       *)
(* shutdown, the number of open handles, eviction in order of use, and     *)
(* deletions that wait for the handles in service.                         *)
(***************************************************************************)
EXTENDS MCTenantManager, SequenceTheorems, FiniteSetTheorems, TLAPS

\* An index entry is a handle on its own id, and so is the handle that a
\* goroutine brings to installLocked.
OwnStore ==
    /\ \A i \in Ids : index[i] # NoStore => index[i][1] = i
    /\ \A c \in Callers : pc[c] = "publishing" /\ got[c] # NoStore => got[c][1] = arg[c]

\* An open handle is in the index or about to be installed, and both are open.
OpenTracked ==
    /\ \A s \in open :
          \/ index[s[1]] = s
          \/ \E c \in Callers : pc[c] = "publishing" /\ got[c] = s /\ arg[c] = s[1]
    /\ \A i \in Ids : index[i] # NoStore => index[i] \in open
    /\ \A c \in Callers : pc[c] = "publishing" /\ got[c] # NoStore => got[c] \in open

\* The inductive invariant.
IInv == TypeOK /\ CacheCoherent /\ SingleFlight /\ OwnStore /\ OpenTracked

Entries == [id : Ids, store : Stores]

-----------------------------------------------------------------------------
(* The list operations *)

\* list.Remove: the elements behind the removed one move up by one.
LEMMA RemoveAtElements ==
    ASSUME NEW S, NEW c \in Seq(S), NEW i \in 1..Len(c)
    PROVE  /\ RemoveAt(c, i) \in Seq(S)
           /\ Len(RemoveAt(c, i)) = Len(c) - 1
           /\ \A j \in 1..(Len(c) - 1) :
                 RemoveAt(c, i)[j] = IF j < i THEN c[j] ELSE c[j + 1]
<1> DEFINE a == SubSeq(c, 1, i - 1)
           b == SubSeq(c, i + 1, Len(c))
<1>1. a \in Seq(S) /\ Len(a) = i - 1 /\ \A j \in 1..(i - 1) : a[j] = c[j]
  OBVIOUS
<1>2. b \in Seq(S) /\ Len(b) = Len(c) - i /\ \A j \in 1..(Len(c) - i) : b[j] = c[i + j]
  OBVIOUS
<1> HIDE DEF a, b
<1>3. /\ a \o b \in Seq(S)
      /\ Len(a \o b) = Len(a) + Len(b)
      /\ \A j \in 1..(Len(a) + Len(b)) :
            (a \o b)[j] = IF j <= Len(a) THEN a[j] ELSE b[j - Len(a)]
  BY <1>1, <1>2, ConcatProperties
<1>6. Len(c) \in Nat /\ Len(a) + Len(b) = Len(c) - 1
  BY <1>1, <1>2
<1>4. \A j \in 1..(Len(c) - 1) : (a \o b)[j] = IF j < i THEN c[j] ELSE c[j + 1]
  <2> TAKE j \in 1..(Len(c) - 1)
  <2>1. CASE j < i
    BY <2>1, <1>1, <1>3, <1>6
  <2>2. CASE ~(j < i)
    <3>1. j - Len(a) \in 1..(Len(c) - i) /\ ~(j <= Len(a)) /\ i + (j - Len(a)) = j + 1
      BY <2>2, <1>1, <1>6
    <3> QED BY <3>1, <2>2, <1>2, <1>3, <1>6
  <2> QED BY <2>1, <2>2
<1>5. RemoveAt(c, i) = a \o b
  BY DEF RemoveAt, a, b
<1> QED BY <1>3, <1>4, <1>5, <1>6

\* CacheCoherent without its length bound, for any list and map.
Coherent(c, idx) ==
    /\ \A i, j \in DOMAIN c : c[i].id = c[j].id => i = j
    /\ \A i \in DOMAIN c : idx[c[i].id] = c[i].store
    /\ \A id \in Ids : idx[id] # NoStore => \E i \in DOMAIN c : c[i].id = id

\* The list element that Get and Drop look up by id is that id's element.
LEMMA PositionCorrect ==
    ASSUME NEW c \in Seq(Entries), NEW idx \in [Ids -> Stores \cup {NoStore}],
           NEW id \in Ids, Coherent(c, idx), idx[id] # NoStore
    PROVE  Position(c, id) \in 1..Len(c) /\ c[Position(c, id)].id = id
<1>1. \E i \in DOMAIN c : c[i].id = id
  BY DEF Coherent
<1>2. Position(c, id) \in DOMAIN c /\ c[Position(c, id)].id = id
  BY <1>1 DEF Position
<1> QED BY <1>2

\* list.MoveToFront: the elements in front of the moved one go back by one.
LEMMA MoveToFrontElements ==
    ASSUME NEW c \in Seq(Entries), NEW idx \in [Ids -> Stores \cup {NoStore}],
           NEW id \in Ids, Coherent(c, idx), idx[id] # NoStore,
           NEW m, m = MoveToFront(c, id)
    PROVE  /\ m \in Seq(Entries)
           /\ Len(m) = Len(c)
           /\ \E p \in 1..Len(c) :
                 /\ c[p].id = id
                 /\ \A j \in 1..Len(c) :
                       m[j] = c[IF j = 1 THEN p ELSE IF j - 1 < p THEN j - 1 ELSE j]
<1> DEFINE p == Position(c, id)
           r == RemoveAt(c, p)
<1>1. p \in 1..Len(c) /\ c[p].id = id
  BY PositionCorrect
<1>2. m = <<c[p]>> \o r
  BY DEF MoveToFront
<1> HIDE DEF p
<1>3. /\ r \in Seq(Entries)
      /\ Len(r) = Len(c) - 1
      /\ \A j \in 1..(Len(c) - 1) : r[j] = IF j < p THEN c[j] ELSE c[j + 1]
  BY <1>1, RemoveAtElements
<1> HIDE DEF r
<1>4. Len(c) \in Nat /\ c[p] \in Entries
  BY <1>1
<1>5. <<c[p]>> \in Seq(Entries) /\ Len(<<c[p]>>) = 1 /\ <<c[p]>>[1] = c[p]
  BY <1>4
<1>6. /\ m \in Seq(Entries)
      /\ Len(m) = 1 + Len(r)
      /\ \A j \in 1..(1 + Len(r)) : m[j] = IF j <= 1 THEN <<c[p]>>[j] ELSE r[j - 1]
  BY <1>2, <1>3, <1>5, ConcatProperties
<1>7. \A j \in 1..Len(c) : m[j] = c[IF j = 1 THEN p ELSE IF j - 1 < p THEN j - 1 ELSE j]
  BY <1>1, <1>3, <1>4, <1>5, <1>6
<1>8. Len(m) = Len(c)
  BY <1>3, <1>4, <1>6
<1>9. \E q \in 1..Len(c) :
         /\ c[q].id = id
         /\ \A j \in 1..Len(c) : m[j] = c[IF j = 1 THEN q ELSE IF j - 1 < q THEN j - 1 ELSE j]
  BY <1>1, <1>7
<1> QED BY <1>6, <1>8, <1>9

\* list.MoveToFront keeps the length and the agreement with the map.
LEMMA MoveToFrontCoherent ==
    ASSUME NEW c \in Seq(Entries), NEW idx \in [Ids -> Stores \cup {NoStore}],
           NEW id \in Ids, Coherent(c, idx), idx[id] # NoStore
    PROVE  /\ MoveToFront(c, id) \in Seq(Entries)
           /\ Len(MoveToFront(c, id)) = Len(c)
           /\ Coherent(MoveToFront(c, id), idx)
<1> DEFINE m == MoveToFront(c, id)
<1>1. m \in Seq(Entries) /\ Len(m) = Len(c)
  BY MoveToFrontElements
<1>2. PICK p \in 1..Len(c) :
         /\ c[p].id = id
         /\ \A j \in 1..Len(c) : m[j] = c[IF j = 1 THEN p ELSE IF j - 1 < p THEN j - 1 ELSE j]
  BY MoveToFrontElements
<1> DEFINE from(j) == IF j = 1 THEN p ELSE IF j - 1 < p THEN j - 1 ELSE j
<1> HIDE DEF m
<1>3. Len(c) \in Nat
  OBVIOUS
<1>4. DOMAIN m = 1..Len(c) /\ DOMAIN c = 1..Len(c)
  BY <1>1, <1>3
<1>5. \A j \in 1..Len(c) : from(j) \in 1..Len(c) /\ m[j] = c[from(j)]
  BY <1>2, <1>3
<1>6. \A j, k \in 1..Len(c) : from(j) = from(k) => j = k
  BY <1>1, <1>3
<1>7. \A k \in 1..Len(c) : \E j \in 1..Len(c) : from(j) = k
  <2> TAKE k \in 1..Len(c)
  <2>1. CASE k = p
    BY <2>1, <1>1
  <2>2. CASE k < p
    <3>1. k + 1 \in 1..Len(c) /\ from(k + 1) = k
      BY <2>2, <1>1, <1>3
    <3> QED BY <3>1
  <2>3. CASE k > p
    <3>1. k \in 1..Len(c) /\ from(k) = k
      BY <2>3, <1>1, <1>3
    <3> QED BY <3>1
  <2> QED BY <2>1, <2>2, <2>3, <1>1
<1> HIDE DEF from
<1>8. Coherent(m, idx)
  <2>1. ASSUME NEW i \in DOMAIN m, NEW j \in DOMAIN m, m[i].id = m[j].id
        PROVE  i = j
    BY <2>1, <1>4, <1>5, <1>6 DEF Coherent
  <2>2. ASSUME NEW i \in DOMAIN m
        PROVE  idx[m[i].id] = m[i].store
    BY <2>2, <1>4, <1>5 DEF Coherent
  <2>3. ASSUME NEW x \in Ids, idx[x] # NoStore
        PROVE  \E i \in DOMAIN m : m[i].id = x
    <3>1. PICK k \in 1..Len(c) : c[k].id = x
      BY <2>3, <1>4 DEF Coherent
    <3>2. PICK j \in 1..Len(c) : from(j) = k
      BY <1>7
    <3> QED BY <3>1, <3>2, <1>4, <1>5
  <2> QED BY <2>1, <2>2, <2>3 DEF Coherent
<1> QED BY <1>1, <1>8 DEF m

\* Drop's list.Remove and delete keep the agreement.
LEMMA RemoveCoherent ==
    ASSUME NEW c \in Seq(Entries), NEW idx \in [Ids -> Stores \cup {NoStore}],
           NEW id \in Ids, Coherent(c, idx), idx[id] # NoStore,
           NEW r, r = RemoveAt(c, Position(c, id)),
           NEW idy, idy = [i \in Ids |-> IF i \in {id} THEN NoStore ELSE idx[i]]
    PROVE  r \in Seq(Entries) /\ Len(r) = Len(c) - 1 /\ Coherent(r, idy)
<1> DEFINE p == Position(c, id)
           from(j) == IF j < p THEN j ELSE j + 1
<1>1. p \in 1..Len(c) /\ c[p].id = id
  BY PositionCorrect
<1>2. /\ r \in Seq(Entries)
      /\ Len(r) = Len(c) - 1
      /\ \A j \in 1..(Len(c) - 1) : r[j] = IF j < p THEN c[j] ELSE c[j + 1]
  BY <1>1, RemoveAtElements
<1> HIDE DEF p
<1>3. Len(c) \in Nat /\ DOMAIN c = 1..Len(c) /\ DOMAIN r = 1..(Len(c) - 1)
  BY <1>2
<1>4. \A j \in DOMAIN r : from(j) \in DOMAIN c /\ from(j) # p /\ r[j] = c[from(j)]
  BY <1>1, <1>2, <1>3
<1>5. \A j, k \in DOMAIN r : from(j) = from(k) => j = k
  BY <1>1, <1>3
<1>6. \A k \in DOMAIN c : k # p => \E j \in DOMAIN r : from(j) = k
  <2> SUFFICES ASSUME NEW k \in DOMAIN c, k # p
               PROVE  \E j \in DOMAIN r : from(j) = k
    OBVIOUS
  <2>1. CASE k < p
    <3>1. k \in DOMAIN r /\ from(k) = k
      BY <2>1, <1>1, <1>3
    <3> QED BY <3>1
  <2>2. CASE k > p
    <3>1. k - 1 \in DOMAIN r /\ from(k - 1) = k
      BY <2>2, <1>1, <1>3
    <3> QED BY <3>1
  <2> QED BY <2>1, <2>2, <1>1, <1>3
<1> HIDE DEF from
<1>7. ASSUME NEW i \in DOMAIN r, NEW j \in DOMAIN r, r[i].id = r[j].id
      PROVE  i = j
  BY <1>7, <1>4, <1>5 DEF Coherent
<1>8. ASSUME NEW i \in DOMAIN r
      PROVE  idy[r[i].id] = r[i].store
  <2>1. r[i] = c[from(i)] /\ from(i) \in DOMAIN c /\ r[i].id # id
    BY <1>1, <1>3, <1>4 DEF Coherent
  <2>2. r[i].id \in Ids
    <3>1. r[i] \in Entries
      BY <1>2, <1>3
    <3> QED BY <3>1 DEF Entries
  <2>3. idx[r[i].id] = r[i].store
    BY <2>1 DEF Coherent
  <2> QED BY <2>1, <2>2, <2>3
<1>9. ASSUME NEW x \in Ids, idy[x] # NoStore
      PROVE  \E i \in DOMAIN r : r[i].id = x
  <2>1. x # id /\ idx[x] # NoStore
    BY <1>9
  <2>2. PICK k \in DOMAIN c : c[k].id = x
    BY <2>1 DEF Coherent
  <2>3. PICK j \in DOMAIN r : from(j) = k
    BY <2>1, <2>2, <1>1, <1>6
  <2> QED BY <2>2, <2>3, <1>4
<1> QED BY <1>2, <1>7, <1>8, <1>9 DEF Coherent

\* PushFront of an id that is not in the map, and the map's new entry.
LEMMA PushCoherent ==
    ASSUME NEW c \in Seq(Entries), NEW idx \in [Ids -> Stores \cup {NoStore}],
           NEW id \in Ids, NEW st \in Stores, Coherent(c, idx), idx[id] = NoStore,
           NEW d, d = <<Entry(id, st)>> \o c
    PROVE  /\ d \in Seq(Entries)
           /\ Len(d) = Len(c) + 1
           /\ Coherent(d, [idx EXCEPT ![id] = st])
<1> DEFINE e == Entry(id, st)
           idy == [idx EXCEPT ![id] = st]
<1>1. e \in Entries /\ e.id = id /\ e.store = st
  BY DEF Entry, Entries
<1>2. <<e>> \in Seq(Entries) /\ Len(<<e>>) = 1 /\ <<e>>[1] = e
  BY <1>1
<1>3. /\ d \in Seq(Entries)
      /\ Len(d) = 1 + Len(c)
      /\ \A j \in 1..(1 + Len(c)) : d[j] = IF j <= 1 THEN <<e>>[j] ELSE c[j - 1]
  BY <1>2, ConcatProperties
<1> HIDE DEF e
<1>4. Len(c) \in Nat /\ DOMAIN c = 1..Len(c) /\ DOMAIN d = 1..(1 + Len(c))
  BY <1>3
<1>5. d[1] = e /\ \A j \in DOMAIN d : j # 1 => j - 1 \in DOMAIN c /\ d[j] = c[j - 1]
  BY <1>2, <1>3, <1>4
<1>6. \A i \in DOMAIN c : /\ c[i] \in Entries
                          /\ c[i].id \in Ids
                          /\ c[i].store \in Stores
                          /\ c[i].id # id
  <2> TAKE i \in DOMAIN c
  <2>1. c[i] \in Entries
    BY <1>4
  <2>2. c[i].id \in Ids /\ c[i].store \in Stores
    BY <2>1 DEF Entries
  <2> QED BY <2>1, <2>2, NoStoreAssumption DEF Coherent
<1>7. ASSUME NEW i \in DOMAIN d, NEW j \in DOMAIN d, d[i].id = d[j].id
      PROVE  i = j
  <2>1. CASE i = 1
    BY <2>1, <1>7, <1>1, <1>5, <1>6
  <2>2. CASE j = 1
    BY <2>2, <1>7, <1>1, <1>5, <1>6
  <2>3. CASE i # 1 /\ j # 1
    <3>1. i - 1 = j - 1
      BY <2>3, <1>7, <1>5 DEF Coherent
    <3> QED BY <3>1, <1>4
  <2> QED BY <2>1, <2>2, <2>3
<1>8. ASSUME NEW i \in DOMAIN d
      PROVE  idy[d[i].id] = d[i].store
  <2>1. CASE i = 1
    BY <2>1, <1>1, <1>5
  <2>2. CASE i # 1
    <3>1. d[i] = c[i - 1] /\ i - 1 \in DOMAIN c
      BY <2>2, <1>5
    <3>2. idx[d[i].id] = d[i].store /\ d[i].id # id /\ d[i].id \in Ids
      BY <3>1, <1>6 DEF Coherent
    <3> QED BY <3>2
  <2> QED BY <2>1, <2>2
<1>9. ASSUME NEW x \in Ids, idy[x] # NoStore
      PROVE  \E i \in DOMAIN d : d[i].id = x
  <2>1. CASE x = id
    BY <2>1, <1>1, <1>4, <1>5
  <2>2. CASE x # id
    <3>1. PICK k \in DOMAIN c : c[k].id = x
      BY <2>2, <1>9 DEF Coherent
    <3>2. k + 1 \in DOMAIN d /\ d[k + 1] = c[k]
      BY <1>3, <1>4
    <3> QED BY <3>1, <3>2
  <2> QED BY <2>1, <2>2
<1> HIDE DEF idy
<1>10. Coherent(d, idy)
  BY <1>7, <1>8, <1>9 DEF Coherent
<1> QED BY <1>3, <1>4, <1>10 DEF idy

\* evictLocked keeps the agreement and establishes the bound.
LEMMA EvictCoherent ==
    ASSUME NEW c \in Seq(Entries), NEW idx \in [Ids -> Stores \cup {NoStore}],
           Coherent(c, idx),
           NEW idy, idy = [i \in Ids |-> IF \E e \in Evicted(c) : e.id = i
                                         THEN NoStore ELSE idx[i]]
    PROVE  /\ Kept(c) \in Seq(Entries)
           /\ Len(Kept(c)) <= MaxOpen
           /\ Coherent(Kept(c), idy)
<1> DEFINE k == Kept(c)
<1>1. Len(c) \in Nat /\ DOMAIN c = 1..Len(c) /\ MaxOpen \in Nat \ {0}
  BY MaxOpenAssumption
<1>2. /\ k \in Seq(Entries)
      /\ Len(k) <= MaxOpen
      /\ DOMAIN k = {j \in DOMAIN c : j <= MaxOpen}
      /\ \A j \in DOMAIN k : k[j] = c[j]
  <2>1. CASE Len(c) > MaxOpen
    <3>1. k = SubSeq(c, 1, MaxOpen)
      BY <2>1 DEF Kept
    <3>2. \A j \in 1..MaxOpen : c[j] \in Entries
      BY <2>1, <1>1
    <3>3. /\ k \in Seq(Entries)
          /\ Len(k) = MaxOpen
          /\ \A j \in 1..MaxOpen : k[j] = c[j]
      BY <3>1, <3>2, <2>1, <1>1
    <3>4. DOMAIN k = 1..MaxOpen
      BY <3>3
    <3> HIDE DEF k
    <3> QED BY <3>3, <3>4, <2>1, <1>1
  <2>2. CASE ~(Len(c) > MaxOpen)
    <3>1. k = c
      BY <2>2 DEF Kept
    <3> QED BY <3>1, <2>2, <1>1
  <2> QED BY <2>1, <2>2
<1> HIDE DEF k
<1>3. \A j \in DOMAIN k : c[j].id \in Ids /\ ~ \E e \in Evicted(c) : e.id = c[j].id
  <2> TAKE j \in DOMAIN k
  <2>1. c[j] \in Entries
    BY <1>1, <1>2
  <2>2. ASSUME NEW e \in Evicted(c), e.id = c[j].id PROVE FALSE
    <3>1. PICK i \in DOMAIN c : i > MaxOpen /\ e = c[i]
      BY <2>2 DEF Evicted
    <3>2. i = j
      BY <3>1, <2>2, <1>2 DEF Coherent
    <3> QED BY <3>1, <3>2, <1>1, <1>2
  <2> QED BY <2>1, <2>2 DEF Entries
<1>4. ASSUME NEW i \in DOMAIN k, NEW j \in DOMAIN k, k[i].id = k[j].id
      PROVE  i = j
  BY <1>4, <1>2 DEF Coherent
<1>5. ASSUME NEW i \in DOMAIN k
      PROVE  idy[k[i].id] = k[i].store
  BY <1>2, <1>3 DEF Coherent
<1>6. ASSUME NEW x \in Ids, idy[x] # NoStore
      PROVE  \E i \in DOMAIN k : k[i].id = x
  <2>1. idx[x] # NoStore /\ ~ \E e \in Evicted(c) : e.id = x
    BY <1>6
  <2>2. PICK i \in DOMAIN c : c[i].id = x
    BY <2>1 DEF Coherent
  <2>3. ~(i > MaxOpen)
    BY <2>1, <2>2 DEF Evicted
  <2> QED BY <2>2, <2>3, <1>1, <1>2
<1>7. Coherent(k, idy)
  BY <1>4, <1>5, <1>6 DEF Coherent
<1> QED BY <1>2, <1>7 DEF k

-----------------------------------------------------------------------------
(* The inductive invariant, action by action *)

\* A manager fresh from New satisfies the invariant.
LEMMA InitIInv ==
    ASSUME Init
    PROVE  IInv
<1>1. TypeOK
  <2>1. cache \in Seq([id : Ids, store : Stores])
    BY EmptySeq DEF Init
  <2>2. index \in [Ids -> Stores \cup {NoStore}] /\ opens \in [Ids -> Nat]
    BY DEF Init
  <2>3. /\ pc \in [Procs -> PCs]
        /\ arg \in [Procs -> Ids \cup {NoId}]
        /\ got \in [Procs -> Stores \cup {NoStore}]
        /\ \A p \in Procs : pc[p] = "idle"
    BY DEF Init, PCs
  <2>4. loading \subseteq Ids /\ open \subseteq Stores /\ onDisk \subseteq Ids
    BY DEF Init
  <2>5. closed \in BOOLEAN /\ crashed \in BOOLEAN
    BY DEF Init
  <2> QED BY <2>1, <2>2, <2>3, <2>4, <2>5 DEF TypeOK
<1>2. CacheCoherent
  BY MaxOpenAssumption DEF Init, CacheCoherent
<1>3. SingleFlight
  BY DEF Init, SingleFlight, Procs
<1>4. OwnStore /\ OpenTracked
  BY DEF Init, OwnStore, OpenTracked, Procs
<1> QED BY <1>1, <1>2, <1>3, <1>4 DEF IInv

\* A step of a call that leaves list, map and handles alone, and neither starts
\* nor ends an open.
LEMMA QuietStep ==
    ASSUME IInv, NEW p \in Procs, NEW where \in PCs, NEW id \in Ids \cup {NoId},
           where # "idle" => id \in Ids,
           where \notin {"opening", "publishing"},
           pc[p] \notin {"opening", "publishing"},
           Goto(p, where, id, got'[p]), got'[p] \in Stores \cup {NoStore},
           UNCHANGED <<mvars, open, opens>>, onDisk' \subseteq Ids
    PROVE  IInv'
<1> USE DEF IInv, Goto, mvars
<1>1. TypeOK'
  BY DEF TypeOK
<1>2. CacheCoherent'
  BY DEF CacheCoherent
<1>3. /\ \A q \in Procs : q # p => pc'[q] = pc[q] /\ arg'[q] = arg[q] /\ got'[q] = got[q]
      /\ pc'[p] = where
  BY DEF TypeOK
<1>4. Callers \subseteq Procs
  BY DEF Procs
<1>5. SingleFlight'
  BY <1>3, <1>4 DEF SingleFlight
<1>6. OwnStore'
  BY <1>3, <1>4 DEF OwnStore
<1>7. OpenTracked'
  <2>1. \A s \in open' : \/ index'[s[1]] = s
                         \/ \E c \in Callers : pc'[c] = "publishing" /\ got'[c] = s /\ arg'[c] = s[1]
    BY <1>3, <1>4 DEF OpenTracked
  <2>2. \A i \in Ids : index'[i] # NoStore => index'[i] \in open'
    BY DEF OpenTracked
  <2>3. \A c \in Callers : pc'[c] = "publishing" /\ got'[c] # NoStore => got'[c] \in open'
    BY <1>3, <1>4 DEF OpenTracked
  <2> QED BY <2>1, <2>2, <2>3 DEF OpenTracked
<1> QED BY <1>1, <1>2, <1>5, <1>6, <1>7

\* Get of a cached id: MoveToFront keeps list and map in agreement.
LEMMA GetHitStep ==
    ASSUME IInv, NEW c \in Callers, NEW id \in Ids, GetHit(c, id)
    PROVE  IInv'
<1> USE DEF IInv
<1>1. /\ cache' \in Seq(Entries)
      /\ Len(cache') = Len(cache)
      /\ Coherent(cache', index)
  <2>1. cache \in Seq(Entries) /\ index \in [Ids -> Stores \cup {NoStore}]
    BY DEF TypeOK, Entries
  <2>2. Coherent(cache, index)
    BY DEF CacheCoherent, Coherent
  <2> QED BY <2>1, <2>2, MoveToFrontCoherent DEF GetHit
<1>2. CacheCoherent'
  BY <1>1 DEF CacheCoherent, Coherent, GetHit
<1>3. c \in Procs /\ Callers \subseteq Procs
  BY DEF Procs
<1>4. TypeOK'
  BY <1>1, <1>3 DEF TypeOK, GetHit, Goto, PCs, Entries, dvars
<1>5. /\ \A q \in Procs : q # c => pc'[q] = pc[q] /\ arg'[q] = arg[q] /\ got'[q] = got[q]
      /\ pc'[c] = "using" /\ pc[c] = "idle"
  BY <1>3 DEF TypeOK, GetHit, Goto, Calls
<1>6. UNCHANGED <<index, loading, open>>
  BY DEF GetHit, dvars
<1>7. SingleFlight'
  BY <1>3, <1>5, <1>6 DEF SingleFlight
<1>8. OwnStore'
  BY <1>3, <1>5, <1>6 DEF OwnStore
<1>9. OpenTracked'
  <2>1. \A s \in open' : \/ index'[s[1]] = s
                         \/ \E d \in Callers : pc'[d] = "publishing" /\ got'[d] = s /\ arg'[d] = s[1]
    BY <1>3, <1>5, <1>6 DEF OpenTracked
  <2> QED BY <2>1, <1>3, <1>5, <1>6 DEF OpenTracked
<1> QED BY <1>2, <1>4, <1>7, <1>8, <1>9

\* Get registers a loadOp: its goroutine is the only one opening that id.
LEMMA GetLeadStep ==
    ASSUME IInv, NEW c \in Callers, NEW id \in Ids, GetLead(c, id)
    PROVE  IInv'
<1> USE DEF IInv
<1>1. c \in Procs /\ Callers \subseteq Procs
  BY DEF Procs
<1>2. TypeOK'
  BY <1>1 DEF TypeOK, GetLead, Goto, PCs, dvars
<1>3. CacheCoherent'
  BY DEF CacheCoherent, GetLead
<1>4. /\ \A q \in Procs : q # c => pc'[q] = pc[q] /\ arg'[q] = arg[q] /\ got'[q] = got[q]
      /\ pc'[c] = "opening" /\ arg'[c] = id /\ pc[c] = "idle"
      /\ index[id] = NoStore /\ id \notin loading /\ loading' = loading \cup {id}
  BY <1>1 DEF TypeOK, GetLead, Goto, Calls
<1>5. UNCHANGED <<index, open>>
  BY DEF GetLead, dvars
<1>6. SingleFlight'
  BY <1>1, <1>4, <1>5 DEF SingleFlight
<1>7. OwnStore'
  BY <1>1, <1>4, <1>5 DEF OwnStore
<1>8. OpenTracked'
  <2>1. \A s \in open' : \/ index'[s[1]] = s
                         \/ \E d \in Callers : pc'[d] = "publishing" /\ got'[d] = s /\ arg'[d] = s[1]
    BY <1>1, <1>4, <1>5 DEF OpenTracked
  <2> QED BY <2>1, <1>1, <1>4, <1>5 DEF OpenTracked
<1> QED BY <1>2, <1>3, <1>6, <1>7, <1>8

\* badger.Open succeeds: no handle on this id is open, so the new one is alone.
LEMMA OpenOkStep ==
    ASSUME IInv, NEW c \in Callers, OpenOk(c)
    PROVE  IInv'
<1> USE DEF IInv
<1> DEFINE id == arg[c]
           st == <<id, opens[id] + 1>>
<1>1. c \in Procs /\ Callers \subseteq Procs
  BY DEF Procs
<1>2. id \in Ids /\ opens[id] \in Nat /\ st \in Stores
  BY <1>1 DEF OpenOk, TypeOK, Stores
<1>3. TypeOK'
  <2>1. UNCHANGED mvars /\ onDisk' = onDisk \cup {id} /\ open' = open \cup {st}
    BY DEF OpenOk
  <2>2. opens' = [opens EXCEPT ![id] = opens[id] + 1]
    BY DEF OpenOk
  <2>3. Goto(c, "publishing", id, st)
    BY DEF OpenOk
  <2> HIDE DEF id, st
  <2>4. opens' \in [Ids -> Nat]
    BY <1>2, <2>2 DEF TypeOK
  <2>5. /\ pc' \in [Procs -> PCs]
        /\ arg' \in [Procs -> Ids \cup {NoId}]
        /\ got' \in [Procs -> Stores \cup {NoStore}]
        /\ \A p \in Procs : pc'[p] # "idle" => arg'[p] \in Ids
    BY <1>1, <1>2, <2>3 DEF TypeOK, Goto, PCs
  <2> QED BY <1>2, <2>1, <2>4, <2>5 DEF TypeOK, mvars
<1>4. CacheCoherent'
  BY DEF CacheCoherent, OpenOk, mvars
<1>5. /\ \A q \in Procs : q # c => pc'[q] = pc[q] /\ arg'[q] = arg[q] /\ got'[q] = got[q]
      /\ pc'[c] = "publishing" /\ arg'[c] = id /\ got'[c] = st /\ pc[c] = "opening"
      /\ open' = open \cup {st}
  BY <1>1 DEF TypeOK, OpenOk, Goto
<1>6. UNCHANGED <<index, loading>>
  BY DEF OpenOk, mvars
<1>7. SingleFlight'
  BY <1>1, <1>5, <1>6 DEF SingleFlight
<1>8. st[1] = id
  OBVIOUS
<1> HIDE DEF st
<1>9. OwnStore'
  BY <1>1, <1>5, <1>6, <1>8 DEF OwnStore
<1>10. OpenTracked'
  <2>1. \A s \in open' : \/ index'[s[1]] = s
                         \/ \E d \in Callers : pc'[d] = "publishing" /\ got'[d] = s /\ arg'[d] = s[1]
    BY <1>1, <1>5, <1>6, <1>8 DEF OpenTracked
  <2> QED BY <2>1, <1>1, <1>5, <1>6 DEF OpenTracked
<1> QED BY <1>3, <1>4, <1>7, <1>9, <1>10

\* A failed badger.Open brings no handle.
LEMMA OpenErrStep ==
    ASSUME IInv, NEW c \in Callers, OpenErr(c)
    PROVE  IInv'
<1> USE DEF IInv
<1>1. c \in Procs /\ Callers \subseteq Procs
  BY DEF Procs
<1>2. TypeOK'
  BY <1>1 DEF TypeOK, OpenErr, Goto, PCs, mvars, dvars
<1>3. CacheCoherent'
  BY DEF CacheCoherent, OpenErr, mvars
<1>4. /\ \A q \in Procs : q # c => pc'[q] = pc[q] /\ arg'[q] = arg[q] /\ got'[q] = got[q]
      /\ pc'[c] = "publishing" /\ arg'[c] = arg[c] /\ got'[c] = NoStore /\ pc[c] = "opening"
  BY <1>1 DEF TypeOK, OpenErr, Goto
<1>5. UNCHANGED <<index, loading, open>>
  BY DEF OpenErr, mvars, dvars
<1>6. SingleFlight'
  BY <1>1, <1>4, <1>5 DEF SingleFlight
<1>7. OwnStore'
  BY <1>1, <1>4, <1>5 DEF OwnStore
<1>8. OpenTracked'
  <2>1. \A s \in open' : \/ index'[s[1]] = s
                         \/ \E d \in Callers : pc'[d] = "publishing" /\ got'[d] = s /\ arg'[d] = s[1]
    BY <1>1, <1>4, <1>5 DEF OpenTracked
  <2> QED BY <2>1, <1>1, <1>4, <1>5 DEF OpenTracked
<1> QED BY <1>2, <1>3, <1>6, <1>7, <1>8

\* The goroutines a Publish serves are no longer opening afterwards.
LEMMA PublishServes ==
    ASSUME IInv, NEW c \in Callers, Publish(c)
    PROVE  /\ c \in Procs /\ Callers \subseteq Procs /\ pc[c] = "publishing" /\ arg[c] \in Ids
           /\ pc' \in [Procs -> PCs] /\ got' \in [Procs -> Stores \cup {NoStore}] /\ arg' = arg
           /\ \A q \in Procs : pc'[q] \in {"opening", "publishing"} =>
                 q # c /\ pc'[q] = pc[q] /\ got'[q] = got[q]
           /\ \A q \in Procs : q # c /\ pc[q] \in {"opening", "publishing"} =>
                 pc'[q] = pc[q] /\ got'[q] = got[q]
           /\ \A q \in Procs : pc'[q] # "idle" => arg[q] \in Ids
<1>1. c \in Procs /\ Callers \subseteq Procs
  BY DEF Procs
<1>2. pc[c] = "publishing" /\ arg[c] \in Ids /\ arg' = arg
  BY <1>1 DEF Publish, IInv, TypeOK
<1>3. pc' \in [Procs -> PCs] /\ got' \in [Procs -> Stores \cup {NoStore}]
  BY <1>1 DEF Publish, IInv, TypeOK, PCs
<1>4. \A q \in Procs :
         IF q \in Served(c) THEN pc'[q] \in {"failed", "using"}
                            ELSE pc'[q] = pc[q] /\ got'[q] = got[q]
  BY DEF Publish
<1>5. c \in Served(c) /\ \A q \in Served(c) : q = c \/ (q \in Procs /\ pc[q] = "waiting")
  BY <1>1 DEF Served
<1>6. \A q \in Procs : pc'[q] # "idle" => arg[q] \in Ids
  <2> SUFFICES ASSUME NEW q \in Procs, pc'[q] # "idle" PROVE arg[q] \in Ids
    OBVIOUS
  <2>1. pc[q] # "idle"
    BY <1>2, <1>4, <1>5
  <2> QED BY <2>1 DEF IInv, TypeOK
<1>7. \A q \in Procs : pc'[q] \in {"opening", "publishing"} =>
                 q # c /\ pc'[q] = pc[q] /\ got'[q] = got[q]
  BY <1>4, <1>5
<1>8. \A q \in Procs : q # c /\ pc[q] \in {"opening", "publishing"} =>
                 pc'[q] = pc[q] /\ got'[q] = got[q]
  BY <1>4, <1>5
<1> QED BY <1>1, <1>2, <1>3, <1>6, <1>7, <1>8

\* Publish of an error: only the loadOp goes.
LEMMA PublishErrStep ==
    ASSUME IInv, NEW c \in Callers, Publish(c), got[c] = NoStore
    PROVE  IInv'
<1> USE DEF IInv
<1>1. UNCHANGED <<cache, index, open, arg, closed, crashed, opens, onDisk>>
  BY DEF Publish
<1>2. loading' = loading \ {arg[c]}
  BY DEF Publish
<1>3. TypeOK'
  BY <1>1, <1>2, PublishServes DEF TypeOK
<1>4. CacheCoherent'
  BY <1>1 DEF CacheCoherent
<1>5. SingleFlight'
  BY <1>1, <1>2, PublishServes DEF SingleFlight
<1>6. OwnStore'
  BY <1>1, PublishServes DEF OwnStore
<1>7. OpenTracked'
  <2>1. ASSUME NEW s \in open
        PROVE  \/ index'[s[1]] = s
               \/ \E d \in Callers : pc'[d] = "publishing" /\ got'[d] = s /\ arg'[d] = s[1]
    <3>1. CASE index[s[1]] = s
      BY <3>1, <1>1
    <3>2. CASE \E d \in Callers : pc[d] = "publishing" /\ got[d] = s /\ arg[d] = s[1]
      <4>1. PICK d \in Callers : pc[d] = "publishing" /\ got[d] = s /\ arg[d] = s[1]
        BY <3>2
      <4>2. d # c
        BY <4>1, NoStoreAssumption DEF TypeOK
      <4> QED BY <4>1, <4>2, <1>1, PublishServes
    <3> QED BY <3>1, <3>2 DEF OpenTracked
  <2> QED BY <2>1, <1>1, PublishServes DEF OpenTracked
<1> QED BY <1>3, <1>4, <1>5, <1>6, <1>7

\* Publish of a handle: the id is not in the map (SingleFlight), so it goes in,
\* and what evictLocked closes it also takes out of the map.
LEMMA PublishOkStep ==
    ASSUME IInv, NEW c \in Callers, Publish(c), got[c] # NoStore
    PROVE  IInv'
<1> USE DEF IInv
<1> DEFINE id == arg[c]
           st == got[c]
           d == <<Entry(id, st)>> \o cache
           idx == [index EXCEPT ![id] = st]
<1>1. /\ c \in Procs /\ Callers \subseteq Procs /\ id \in Ids /\ st \in Stores
      /\ index[id] = NoStore /\ id \in loading /\ st[1] = id
  BY PublishServes DEF TypeOK, SingleFlight, OwnStore
<1>2. UNCHANGED <<arg, closed, crashed, opens, onDisk>> /\ loading' = loading \ {id}
  BY DEF Publish
<1>3. evictLocked(d, idx)
  BY <1>1 DEF Publish, installLocked
<1>4. /\ cache \in Seq(Entries) /\ index \in [Ids -> Stores \cup {NoStore}]
      /\ Coherent(cache, index)
  BY DEF TypeOK, CacheCoherent, Coherent, Entries
<1>5. d \in Seq(Entries) /\ Coherent(d, idx) /\ idx \in [Ids -> Stores \cup {NoStore}]
  BY <1>1, <1>4, PushCoherent
<1>6. \A i \in Ids : idx[i] = IF i = id THEN st ELSE index[i]
  BY <1>4
<1> HIDE DEF d, idx
<1>7. /\ cache' = Kept(d)
      /\ index' = [i \in Ids |-> IF \E e \in Evicted(d) : e.id = i THEN NoStore ELSE idx[i]]
      /\ open' = open \ {e.store : e \in Evicted(d)}
  BY <1>3 DEF evictLocked
<1>8. cache' \in Seq(Entries) /\ Len(cache') <= MaxOpen /\ Coherent(cache', index')
  BY <1>5, <1>7, EvictCoherent
<1>9. index' \in [Ids -> Stores \cup {NoStore}]
  BY <1>5, <1>7
<1>10. TypeOK'
  BY <1>2, <1>7, <1>8, <1>9, PublishServes DEF TypeOK, Entries
<1>11. CacheCoherent'
  BY <1>8 DEF CacheCoherent, Coherent
<1>12. \A i \in Ids : index'[i] # NoStore => index'[i] = idx[i] /\ ~ \E e \in Evicted(d) : e.id = i
  BY <1>7
<1>13. \A i \in Ids : idx[i] # NoStore => idx[i][1] = i
  BY <1>1, <1>6 DEF OwnStore
<1>14. \A e \in Evicted(d) : e.id \in Ids /\ e.store = idx[e.id] /\ e.store # NoStore
  <2> TAKE e \in Evicted(d)
  <2>1. PICK j \in DOMAIN d : e = d[j]
    BY DEF Evicted
  <2>2. e \in Entries
    BY <2>1, <1>5
  <2> QED BY <2>1, <2>2, <1>5, NoStoreAssumption DEF Coherent, Entries
<1>15. SingleFlight'
  <2> SUFFICES ASSUME NEW q \in Callers, pc'[q] \in {"opening", "publishing"}
               PROVE  /\ arg'[q] \in loading'
                      /\ index'[arg'[q]] = NoStore
                      /\ \A r \in Callers \ {q} :
                            pc'[r] \in {"opening", "publishing"} => arg'[r] # arg'[q]
    BY DEF SingleFlight
  <2>1. q # c /\ pc[q] \in {"opening", "publishing"}
    BY PublishServes
  <2>2. arg[q] \in loading /\ index[arg[q]] = NoStore /\ arg[q] # id /\ arg[q] \in Ids
    BY <2>1, PublishServes DEF SingleFlight, TypeOK
  <2>3. index'[arg[q]] = NoStore
    BY <2>2, <1>6, <1>12
  <2>4. \A r \in Callers \ {q} : pc'[r] \in {"opening", "publishing"} => arg[r] # arg[q]
    BY <2>1, PublishServes DEF SingleFlight
  <2> QED BY <2>2, <2>3, <2>4, <1>2
<1>16. OwnStore'
  <2>1. \A i \in Ids : index'[i] # NoStore => index'[i][1] = i
    BY <1>12, <1>13
  <2> QED BY <2>1, <1>2, PublishServes DEF OwnStore
<1>17. ASSUME NEW s \in open'
       PROVE  \/ index'[s[1]] = s
              \/ \E q \in Callers : pc'[q] = "publishing" /\ got'[q] = s /\ arg'[q] = s[1]
  <2>1. s \in open /\ s \in Stores /\ s[1] \in Ids /\ s # NoStore
    BY <1>7, NoStoreAssumption DEF TypeOK, Stores
  <2>2. CASE idx[s[1]] = s
    <3>1. ~ \E e \in Evicted(d) : e.id = s[1]
      BY <2>2, <1>7, <1>14
    <3> QED BY <3>1, <2>1, <2>2, <1>7
  <2>3. CASE idx[s[1]] # s
    <3>1. s[1] # id \/ s # st
      BY <2>3, <1>1, <1>6
    <3>2. index[s[1]] # s
      BY <2>1, <2>3, <1>1, <1>6
    <3>3. PICK q \in Callers : pc[q] = "publishing" /\ got[q] = s /\ arg[q] = s[1]
      BY <2>1, <3>2 DEF OpenTracked
    <3>4. q # c
      BY <3>1, <3>3
    <3> QED BY <3>3, <3>4, <1>2, PublishServes
  <2> QED BY <2>2, <2>3
<1>18. ASSUME NEW s \in Stores, s \in open, NEW i \in Ids, s[1] = i,
              ~ \E e \in Evicted(d) : e.id = i
       PROVE  s \in open'
  <2>1. ASSUME NEW e \in Evicted(d), e.store = s PROVE FALSE
    BY <2>1, <1>13, <1>14, <1>18
  <2> QED BY <2>1, <1>7, <1>18
<1>19. \A i \in Ids : index'[i] # NoStore => index'[i] \in open'
  <2> SUFFICES ASSUME NEW i \in Ids, index'[i] # NoStore PROVE index'[i] \in open'
    OBVIOUS
  <2>1. index'[i] = idx[i] /\ idx[i][1] = i /\ ~ \E e \in Evicted(d) : e.id = i
    BY <1>12, <1>13
  <2>2. idx[i] \in open /\ idx[i] \in Stores
    BY <2>1, <1>1, <1>5, <1>6, PublishServes DEF OpenTracked
  <2> QED BY <2>1, <2>2, <1>18
<1>20. \A q \in Callers : pc'[q] = "publishing" /\ got'[q] # NoStore => got'[q] \in open'
  <2> SUFFICES ASSUME NEW q \in Callers, pc'[q] = "publishing", got'[q] # NoStore
               PROVE  got'[q] \in open'
    OBVIOUS
  <2>1. q # c /\ pc[q] = "publishing" /\ got'[q] = got[q]
    BY PublishServes
  <2>2. /\ got[q] \in open /\ got[q] \in Stores /\ got[q][1] = arg[q]
        /\ index[arg[q]] = NoStore /\ arg[q] # id /\ arg[q] \in Ids
    BY <2>1, PublishServes DEF OpenTracked, OwnStore, SingleFlight, TypeOK
  <2>3. idx[arg[q]] = NoStore
    BY <2>2, <1>6
  <2>4. ~ \E e \in Evicted(d) : e.id = arg[q]
    BY <2>3, <1>14
  <2> QED BY <2>1, <2>2, <2>4, <1>18
<1>21. OpenTracked'
  BY <1>17, <1>19, <1>20 DEF OpenTracked
<1> QED BY <1>10, <1>11, <1>15, <1>16, <1>21

\* Goroutines other than the one that moves keep their place.
LEMMA DropMoves ==
    ASSUME IInv, NEW d \in Deleters, NEW id \in Ids, Drop(d, id)
    PROVE  /\ d \in Procs /\ Callers \subseteq Procs
           /\ \A q \in Callers : pc'[q] = pc[q] /\ arg'[q] = arg[q] /\ got'[q] = got[q]
           /\ pc' \in [Procs -> PCs] /\ arg' \in [Procs -> Ids \cup {NoId}]
           /\ got' \in [Procs -> Stores \cup {NoStore}]
           /\ \A q \in Procs : pc'[q] # "idle" => arg'[q] \in Ids
           /\ UNCHANGED <<loading, closed, crashed, opens, onDisk>>
<1>1. d \in Procs /\ Callers \subseteq Procs /\ \A q \in Callers : q # d
  BY ProcsAssumption DEF Procs
<1> QED BY <1>1 DEF IInv, TypeOK, Drop, Goto, PCs

\* Drop closes the indexed handle of its id and forgets it, list and map.
LEMMA DropStep ==
    ASSUME IInv, NEW d \in Deleters, NEW id \in Ids, Drop(d, id)
    PROVE  IInv'
<1> USE DEF IInv
<1>1. CASE index[id] = NoStore
  <2>1. UNCHANGED <<cache, index, open>>
    BY <1>1 DEF Drop
  <2>2. TypeOK'
    BY <2>1, DropMoves DEF TypeOK
  <2>3. CacheCoherent'
    BY <2>1 DEF CacheCoherent
  <2>4. SingleFlight'
    BY <2>1, DropMoves DEF SingleFlight
  <2>5. OwnStore'
    BY <2>1, DropMoves DEF OwnStore
  <2>6. OpenTracked'
    BY <2>1, DropMoves DEF OpenTracked
  <2> QED BY <2>2, <2>3, <2>4, <2>5, <2>6
<1>2. CASE index[id] # NoStore
  <2>1. /\ cache' = RemoveAt(cache, Position(cache, id))
        /\ index' = [i \in Ids |-> IF i \in {id} THEN NoStore ELSE index[i]]
        /\ open' = open \ {index[id]}
    BY <1>2 DEF Drop, Forget
  <2>2. /\ cache \in Seq(Entries) /\ index \in [Ids -> Stores \cup {NoStore}]
        /\ Coherent(cache, index)
    BY DEF TypeOK, CacheCoherent, Coherent, Entries
  <2>3. cache' \in Seq(Entries) /\ Len(cache') = Len(cache) - 1 /\ Coherent(cache', index')
    BY <1>2, <2>1, <2>2, RemoveCoherent
  <2>4. \A i \in Ids : index'[i] = IF i = id THEN NoStore ELSE index[i]
    BY <2>1
  <2>5. index' \in [Ids -> Stores \cup {NoStore}]
    BY <2>1, <2>2
  <2>6. TypeOK'
    BY <2>1, <2>3, <2>5, DropMoves DEF TypeOK, Entries
  <2>7. CacheCoherent'
    <3>1. Len(cache') <= MaxOpen
      BY <2>2, <2>3, MaxOpenAssumption DEF CacheCoherent
    <3> QED BY <3>1, <2>3 DEF CacheCoherent, Coherent
  <2>8. SingleFlight'
    BY <2>4, DropMoves DEF SingleFlight, TypeOK
  <2>9. OwnStore'
    BY <2>4, DropMoves DEF OwnStore
  <2>10. ASSUME NEW s \in open'
         PROVE  \/ index'[s[1]] = s
                \/ \E q \in Callers : pc'[q] = "publishing" /\ got'[q] = s /\ arg'[q] = s[1]
    <3>1. s \in open /\ s \in Stores /\ s[1] \in Ids /\ s # index[id]
      BY <2>1 DEF TypeOK, Stores
    <3>2. CASE index[s[1]] = s
      BY <3>1, <3>2, <2>4
    <3>3. CASE \E q \in Callers : pc[q] = "publishing" /\ got[q] = s /\ arg[q] = s[1]
      BY <3>3, DropMoves
    <3> QED BY <3>1, <3>2, <3>3 DEF OpenTracked
  <2>11. \A i \in Ids : index'[i] # NoStore => index'[i] \in open'
    BY <1>2, <2>1, <2>4 DEF OpenTracked, OwnStore
  <2>12. \A q \in Callers : pc'[q] = "publishing" /\ got'[q] # NoStore => got'[q] \in open'
    <3> SUFFICES ASSUME NEW q \in Callers, pc'[q] = "publishing", got'[q] # NoStore
                 PROVE  got'[q] \in open'
      OBVIOUS
    <3>1. got[q] \in open /\ got[q][1] = arg[q] /\ index[arg[q]] = NoStore
      BY DropMoves DEF OpenTracked, OwnStore, SingleFlight
    <3>2. index[id][1] = id
      BY <1>2 DEF OwnStore
    <3> QED BY <3>1, <3>2, <1>2, <2>1, DropMoves
  <2>13. OpenTracked'
    BY <2>10, <2>11, <2>12 DEF OpenTracked
  <2> QED BY <2>6, <2>7, <2>8, <2>9, <2>13
<1> QED BY <1>1, <1>2

\* Close closes exactly the indexed handles: list and map agree.
LEMMA CloseStep ==
    ASSUME IInv, Close
    PROVE  IInv'
<1> USE DEF IInv
<1>1. /\ closed' = TRUE /\ cache' = <<>>
      /\ \A i \in Ids : index'[i] = NoStore
      /\ index' \in [Ids -> Stores \cup {NoStore}]
      /\ open' = open \ {cache[i].store : i \in DOMAIN cache}
      /\ UNCHANGED <<loading, crashed, opens, onDisk, pc, arg, got>>
  BY DEF Close, Forget, pvars
<1>2. cache' \in Seq([id : Ids, store : Stores])
  BY <1>1, EmptySeq
<1>3. TypeOK'
  BY <1>1, <1>2 DEF TypeOK
<1>4. CacheCoherent'
  BY <1>1, MaxOpenAssumption DEF CacheCoherent
<1>5. Callers \subseteq Procs
  BY DEF Procs
<1>6. SingleFlight'
  BY <1>1, <1>5 DEF SingleFlight, TypeOK
<1>7. OwnStore'
  BY <1>1 DEF OwnStore
<1>8. ASSUME NEW s \in open'
      PROVE  \E q \in Callers : pc'[q] = "publishing" /\ got'[q] = s /\ arg'[q] = s[1]
  <2>1. s \in open /\ s \in Stores /\ s[1] \in Ids /\ s # NoStore
    BY <1>1, NoStoreAssumption DEF TypeOK, Stores
  <2>2. index[s[1]] # s
    <3> SUFFICES ASSUME index[s[1]] = s PROVE FALSE
      OBVIOUS
    <3>1. PICK i \in DOMAIN cache : cache[i].id = s[1]
      BY <2>1 DEF CacheCoherent
    <3>2. cache[i].store = s
      BY <3>1 DEF CacheCoherent
    <3> QED BY <3>2, <1>1
  <2> QED BY <2>1, <2>2, <1>1 DEF OpenTracked
<1>9. \A q \in Callers : pc'[q] = "publishing" /\ got'[q] # NoStore => got'[q] \in open'
  <2> SUFFICES ASSUME NEW q \in Callers, pc[q] = "publishing", got[q] # NoStore
               PROVE  got[q] \in open'
    BY <1>1
  <2>1. got[q] \in open /\ got[q][1] = arg[q] /\ index[arg[q]] = NoStore
    BY DEF OpenTracked, OwnStore, SingleFlight
  <2>2. ASSUME NEW i \in DOMAIN cache, cache[i].store = got[q] PROVE FALSE
    <3>1. cache[i] \in [id : Ids, store : Stores]
      <4>1. cache \in Seq(Entries)
        BY DEF TypeOK, Entries
      <4>2. cache[i] \in Entries
        BY <4>1
      <4> QED BY <4>2 DEF Entries
    <3>2. index[cache[i].id] = got[q] /\ cache[i].id \in Ids
      BY <3>1, <2>2 DEF CacheCoherent
    <3>3. cache[i].id = arg[q]
      BY <3>2, <2>1 DEF OwnStore
    <3> QED BY <3>2, <3>3, <2>1
  <2> QED BY <2>1, <2>2, <1>1
<1>10. OpenTracked'
  BY <1>1, <1>8, <1>9 DEF OpenTracked
<1> QED BY <1>3, <1>4, <1>6, <1>7, <1>10

\* A step that changes nothing keeps the invariant.
LEMMA StutterStep ==
    ASSUME IInv, UNCHANGED <<cache, index, loading, closed, dvars, pvars>>, crashed' \in BOOLEAN
    PROVE  IInv'
<1> USE DEF IInv, dvars, pvars
<1>1. TypeOK'
  BY DEF TypeOK
<1>2. CacheCoherent' /\ SingleFlight'
  BY DEF CacheCoherent, SingleFlight
<1>3. OwnStore' /\ OpenTracked'
  BY DEF OwnStore, OpenTracked
<1> QED BY <1>1, <1>2, <1>3

\* Every step of Get, Drop, RemoveOnDisk and Close keeps the invariant.
LEMMA NextIInv ==
    ASSUME IInv, [Next]_vars
    PROVE  IInv'
<1>1. ASSUME NEW c \in Callers, NEW id \in Ids, GetRefused(c, id) PROVE IInv'
  <2>1. c \in Procs
    BY DEF Procs
  <2>2. Goto(c, "failed", id, NoStore) /\ got'[c] = NoStore /\ pc[c] = "idle"
    BY <1>1, <2>1 DEF GetRefused, Calls, Goto, IInv, TypeOK
  <2>3. UNCHANGED <<mvars, open, opens>> /\ onDisk' \subseteq Ids
    BY <1>1 DEF GetRefused, dvars, IInv, TypeOK
  <2> QED BY <2>1, <2>2, <2>3, QuietStep DEF PCs
<1>2. ASSUME NEW c \in Callers, NEW id \in Ids, GetHit(c, id) PROVE IInv'
  BY <1>2, GetHitStep
<1>3. ASSUME NEW c \in Callers, NEW id \in Ids, GetJoin(c, id) PROVE IInv'
  <2>1. c \in Procs
    BY DEF Procs
  <2>2. Goto(c, "waiting", id, NoStore) /\ got'[c] = NoStore /\ pc[c] = "idle"
    BY <1>3, <2>1 DEF GetJoin, Calls, Goto, IInv, TypeOK
  <2>3. UNCHANGED <<mvars, open, opens>> /\ onDisk' \subseteq Ids
    BY <1>3 DEF GetJoin, dvars, IInv, TypeOK
  <2> QED BY <2>1, <2>2, <2>3, QuietStep DEF PCs
<1>4. ASSUME NEW c \in Callers, NEW id \in Ids, GetLead(c, id) PROVE IInv'
  BY <1>4, GetLeadStep
<1>5. ASSUME NEW c \in Callers, OpenOk(c) PROVE IInv'
  BY <1>5, OpenOkStep
<1>6. ASSUME NEW c \in Callers, OpenErr(c) PROVE IInv'
  BY <1>6, OpenErrStep
<1>7. ASSUME NEW c \in Callers, Publish(c) PROVE IInv'
  BY <1>7, PublishErrStep, PublishOkStep
<1>8. ASSUME NEW c \in Callers, PublishPanic(c) PROVE IInv'
  BY <1>8, StutterStep DEF PublishPanic
<1>9. ASSUME NEW c \in Callers, Return(c) PROVE IInv'
  <2>1. c \in Procs
    BY DEF Procs
  <2>2. Goto(c, "idle", NoId, NoStore) /\ got'[c] = NoStore /\ pc[c] \in {"using", "failed"}
    BY <1>9, <2>1 DEF Return, Goto, IInv, TypeOK
  <2>3. UNCHANGED <<mvars, open, opens>> /\ onDisk' \subseteq Ids
    BY <1>9 DEF Return, dvars, IInv, TypeOK
  <2> QED BY <2>1, <2>2, <2>3, QuietStep DEF PCs
<1>10. ASSUME NEW d \in Deleters, NEW id \in Ids, Drop(d, id) PROVE IInv'
  BY <1>10, DropStep
<1>11. ASSUME NEW d \in Deleters, RemoveOnDisk(d) PROVE IInv'
  <2>1. d \in Procs
    BY DEF Procs
  <2>2. Goto(d, "idle", NoId, NoStore) /\ got'[d] = NoStore /\ pc[d] = "dropped"
    BY <1>11, <2>1 DEF RemoveOnDisk, Goto, IInv, TypeOK
  <2>3. UNCHANGED <<mvars, open, opens>> /\ onDisk' \subseteq Ids
    BY <1>11 DEF RemoveOnDisk, IInv, TypeOK
  <2> QED BY <2>1, <2>2, <2>3, QuietStep DEF PCs
<1>12. ASSUME Close PROVE IInv'
  BY <1>12, CloseStep
<1>13. ASSUME UNCHANGED vars PROVE IInv'
  <2>1. UNCHANGED <<cache, index, loading, closed, dvars, pvars>> /\ crashed' = crashed
    BY <1>13 DEF vars, mvars
  <2> QED BY <2>1, StutterStep DEF IInv, TypeOK
<1> QED BY <1>1, <1>2, <1>3, <1>4, <1>5, <1>6, <1>7, <1>8, <1>9, <1>10, <1>11, <1>12, <1>13
        DEF Next, Step

-----------------------------------------------------------------------------
(* Theorems *)

\* IInv is an invariant of the manager.
THEOREM Inductive == Spec => []IInv
<1>1. Init => IInv
  BY InitIInv
<1>2. IInv /\ [Next]_vars => IInv'
  BY NextIInv
<1> QED BY <1>1, <1>2, PTL DEF Spec

\* Every variable keeps its type, and a goroutine in a call has an id.
THEOREM TypeCorrect == Spec => []TypeOK
<1>1. IInv => TypeOK
  BY DEF IInv
<1> QED BY <1>1, Inductive, PTL

\* The LRU list, its map and MaxOpen agree after every critical section.
THEOREM CacheIsCoherent == Spec => []CacheCoherent
<1>1. IInv => CacheCoherent
  BY DEF IInv
<1> QED BY <1>1, Inductive, PTL

\* One open in flight per genealogy, never while it is cached.
THEOREM OpensAreSingleFlight == Spec => []SingleFlight
<1>1. IInv => SingleFlight
  BY DEF IInv
<1> QED BY <1>1, Inductive, PTL

\* No genealogy has two open handles, for any number of goroutines.
THEOREM StoresAreExclusive == Spec => []ExclusiveStore
<1>1. ASSUME IInv PROVE ExclusiveStore
  <2> SUFFICES ASSUME NEW s \in open, NEW t \in open, s[1] = t[1] PROVE s = t
    BY DEF ExclusiveStore
  <2>1. s # NoStore /\ t # NoStore
    BY <1>1, NoStoreAssumption DEF IInv, TypeOK
  <2>2. CASE index[s[1]] = s /\ index[t[1]] = t
    BY <2>2
  <2>3. CASE \E c \in Callers : pc[c] = "publishing" /\ got[c] = s /\ arg[c] = s[1]
    <3>1. PICK c \in Callers : pc[c] = "publishing" /\ got[c] = s /\ arg[c] = s[1]
      BY <2>3
    <3>2. index[s[1]] = NoStore
      BY <3>1, <1>1 DEF IInv, SingleFlight
    <3>3. PICK d \in Callers : pc[d] = "publishing" /\ got[d] = t /\ arg[d] = t[1]
      BY <3>2, <2>1, <1>1 DEF IInv, OpenTracked
    <3> QED BY <3>1, <3>3, <1>1 DEF IInv, SingleFlight
  <2>4. CASE \E c \in Callers : pc[c] = "publishing" /\ got[c] = t /\ arg[c] = t[1]
    <3>1. PICK c \in Callers : pc[c] = "publishing" /\ got[c] = t /\ arg[c] = t[1]
      BY <2>4
    <3>2. index[t[1]] = NoStore
      BY <3>1, <1>1 DEF IInv, SingleFlight
    <3>3. PICK d \in Callers : pc[d] = "publishing" /\ got[d] = s /\ arg[d] = s[1]
      BY <3>2, <2>1, <1>1 DEF IInv, OpenTracked
    <3> QED BY <3>1, <3>3, <1>1 DEF IInv, SingleFlight
  <2> QED BY <2>2, <2>3, <2>4, <1>1 DEF IInv, OpenTracked
<1> QED BY <1>1, Inductive, PTL

\* No handle is leaked and no closed handle is cached.
THEOREM HandlesAccounted == Spec => []OpenAccounted
<1>1. ASSUME IInv PROVE OpenAccounted
  <2>1. ASSUME NEW s \in open
        PROVE  \/ \E i \in Ids : index[i] # NoStore /\ s = index[i]
               \/ \E c \in Callers : pc[c] = "publishing" /\ got[c] # NoStore /\ s = got[c]
    <3>1. s # NoStore /\ s[1] \in Ids
      BY <1>1, NoStoreAssumption DEF IInv, TypeOK, Stores
    <3> QED BY <3>1, <1>1 DEF IInv, OpenTracked
  <2>2. \A i \in Ids : index[i] # NoStore => index[i] \in open
    BY <1>1 DEF IInv, OpenTracked
  <2>3. \A c \in Callers : pc[c] = "publishing" /\ got[c] # NoStore => got[c] \in open
    BY <1>1 DEF IInv, OpenTracked
  <2> QED BY <2>1, <2>2, <2>3 DEF OpenAccounted
<1> QED BY <1>1, Inductive, PTL

\* An open is the abstract Open: no handle on that directory is open.
LEMMA OpenOkRefines ==
    ASSUME IInv, NEW c \in Callers, OpenOk(c)
    PROVE  Table!Open(arg[c])
<1>1. c \in Procs /\ pc[c] = "opening"
  BY DEF OpenOk, Procs
<1>2. ASSUME NEW s \in open, s[1] = arg[c] PROVE FALSE
  <2>1. index[s[1]] = NoStore /\ s # NoStore
    BY <1>1, <1>2, NoStoreAssumption DEF IInv, SingleFlight, TypeOK
  <2>2. PICK q \in Callers : pc[q] = "publishing" /\ arg[q] = s[1]
    BY <2>1 DEF IInv, OpenTracked
  <2> QED BY <1>1, <1>2, <2>2 DEF IInv, SingleFlight
<1> QED BY <1>2 DEF OpenOk, Table!Open

\* Every step of the manager opens one genealogy that has no open handle,
\* closes open handles, or leaves the handles alone.
THEOREM ImplementsStoreTable == Spec => Implements
<1>1. Init => Table!Init
  BY DEF Init, Table!Init
<1>2. ASSUME IInv, [Next]_vars PROVE [Table!Next]_<<open, opens>>
  <2>1. ASSUME NEW c \in Callers, OpenOk(c) PROVE Table!Next
    <3>1. arg[c] \in Ids
      BY <1>2, <2>1 DEF IInv, TypeOK, OpenOk, Procs
    <3> QED BY <3>1, <1>2, <2>1, OpenOkRefines DEF Table!Next
  <2>2. ASSUME open' \subseteq open, opens' = opens PROVE Table!Next
    <3>1. open' = open \ (open \ open')
      BY <2>2
    <3> QED BY <3>1, <2>2 DEF Table!Next, Table!CloseSome
  <2>3. ASSUME NEW c \in Callers, NEW id \in Ids,
               GetRefused(c, id) \/ GetHit(c, id) \/ GetJoin(c, id) \/ GetLead(c, id)
        PROVE  UNCHANGED <<open, opens>>
    BY <2>3 DEF GetRefused, GetHit, GetJoin, GetLead, dvars
  <2>4. ASSUME NEW c \in Callers, OpenErr(c) \/ PublishPanic(c) \/ Return(c)
        PROVE  UNCHANGED <<open, opens>>
    BY <2>4 DEF OpenErr, PublishPanic, Return, dvars
  <2>5. ASSUME NEW c \in Callers, Publish(c) PROVE open' \subseteq open /\ opens' = opens
    BY <2>5 DEF Publish, installLocked, evictLocked
  <2>6. ASSUME NEW d \in Deleters, NEW id \in Ids, Drop(d, id)
        PROVE  open' \subseteq open /\ opens' = opens
    BY <2>6 DEF Drop
  <2>7. ASSUME NEW d \in Deleters, RemoveOnDisk(d) PROVE UNCHANGED <<open, opens>>
    BY <2>7 DEF RemoveOnDisk
  <2>8. ASSUME Close PROVE open' \subseteq open /\ opens' = opens
    BY <2>8 DEF Close
  <2>9. ASSUME UNCHANGED vars PROVE UNCHANGED <<open, opens>>
    BY <2>9 DEF vars, dvars
  <2> QED BY <1>2, <2>1, <2>2, <2>3, <2>4, <2>5, <2>6, <2>7, <2>8, <2>9 DEF Next, Step
<1> QED BY <1>1, <1>2, Inductive, PTL DEF Spec, Implements, Table!Spec

-----------------------------------------------------------------------------
(* What the requests get *)

\* The moves of a single goroutine: what a request is handed is what the
\* goroutine was moved with.
LEMMA GotoIsolated ==
    ASSUME IInv, TenantIsolation, NEW p \in Procs, NEW where \in PCs,
           NEW id \in Ids \cup {NoId}, NEW st \in Stores \cup {NoStore},
           Goto(p, where, id, st),
           where = "using" => st # NoStore /\ st[1] = id,
           where = "failed" => st = NoStore
    PROVE  TenantIsolation'
<1>1. /\ pc'[p] = where /\ arg'[p] = id /\ got'[p] = st
      /\ \A q \in Procs : q # p => pc'[q] = pc[q] /\ arg'[q] = arg[q] /\ got'[q] = got[q]
  BY DEF IInv, TypeOK, Goto
<1>2. Callers \subseteq Procs
  BY DEF Procs
<1> QED BY <1>1, <1>2 DEF TenantIsolation

\* Publish hands the handle to the goroutines that asked for its id only.
LEMMA PublishIsolated ==
    ASSUME IInv, TenantIsolation, NEW c \in Callers, Publish(c)
    PROVE  TenantIsolation'
<1>1. pc[c] = "publishing" /\ arg' = arg /\ Callers \subseteq Procs
  BY DEF Publish, Procs
<1>2. got[c] # NoStore => got[c][1] = arg[c]
  BY <1>1 DEF IInv, OwnStore
<1>3. \A q \in Served(c) : arg[q] = arg[c]
  BY DEF Served
<1>4. \A q \in Procs :
         IF q \in Served(c)
         THEN pc'[q] = (IF got[c] = NoStore THEN "failed" ELSE "using") /\ got'[q] = got[c]
         ELSE pc'[q] = pc[q] /\ got'[q] = got[q]
  BY DEF Publish
<1> SUFFICES ASSUME NEW q \in Callers
             PROVE  /\ pc'[q] = "using" => got'[q] # NoStore /\ got'[q][1] = arg'[q]
                    /\ pc'[q] = "failed" => got'[q] = NoStore
  BY DEF TenantIsolation
<1>5. CASE q \in Served(c)
  BY <1>1, <1>2, <1>3, <1>4, <1>5
<1>6. CASE q \notin Served(c)
  BY <1>1, <1>4, <1>6 DEF TenantIsolation
<1> QED BY <1>5, <1>6

\* Every step keeps requests isolated.
LEMMA IsolationStep ==
    ASSUME IInv, TenantIsolation, [Next]_vars
    PROVE  TenantIsolation'
<1>1. Callers \subseteq Procs /\ Deleters \subseteq Procs
  BY DEF Procs
<1>2. \A p \in Procs : pc[p] # "idle" => arg[p] \in Ids
  BY DEF IInv, TypeOK
<1>3. ASSUME NEW c \in Callers, NEW id \in Ids, GetRefused(c, id) PROVE TenantIsolation'
  BY <1>1, <1>3, GotoIsolated DEF GetRefused, PCs
<1>4. ASSUME NEW c \in Callers, NEW id \in Ids, GetHit(c, id) PROVE TenantIsolation'
  <2>1. index[id] \in Stores /\ index[id] # NoStore /\ index[id][1] = id
    BY <1>4 DEF GetHit, IInv, TypeOK, OwnStore
  <2> QED BY <1>1, <1>4, <2>1, GotoIsolated DEF GetHit, PCs
<1>5. ASSUME NEW c \in Callers, NEW id \in Ids, GetJoin(c, id) PROVE TenantIsolation'
  BY <1>1, <1>5, GotoIsolated DEF GetJoin, PCs
<1>6. ASSUME NEW c \in Callers, NEW id \in Ids, GetLead(c, id) PROVE TenantIsolation'
  BY <1>1, <1>6, GotoIsolated DEF GetLead, PCs
<1>7. ASSUME NEW c \in Callers, OpenOk(c) PROVE TenantIsolation'
  <2>1. arg[c] \in Ids /\ <<arg[c], opens[arg[c]] + 1>> \in Stores
    BY <1>1, <1>2, <1>7 DEF OpenOk, IInv, TypeOK, Stores
  <2> QED BY <1>1, <1>7, <2>1, GotoIsolated DEF OpenOk, PCs
<1>8. ASSUME NEW c \in Callers, OpenErr(c) PROVE TenantIsolation'
  <2>1. arg[c] \in Ids
    BY <1>1, <1>2, <1>8 DEF OpenErr
  <2> QED BY <1>1, <1>8, <2>1, GotoIsolated DEF OpenErr, PCs
<1>9. ASSUME NEW c \in Callers, Publish(c) PROVE TenantIsolation'
  BY <1>9, PublishIsolated
<1>10. ASSUME NEW c \in Callers, Return(c) PROVE TenantIsolation'
  BY <1>1, <1>10, GotoIsolated DEF Return, PCs
<1>11. ASSUME NEW d \in Deleters, NEW id \in Ids, Drop(d, id) PROVE TenantIsolation'
  BY <1>1, <1>11, GotoIsolated DEF Drop, PCs
<1>12. ASSUME NEW d \in Deleters, RemoveOnDisk(d) PROVE TenantIsolation'
  BY <1>1, <1>12, GotoIsolated DEF RemoveOnDisk, PCs
<1>13. ASSUME UNCHANGED pvars PROVE TenantIsolation'
  BY <1>13 DEF pvars, TenantIsolation
<1>14. ASSUME NEW c \in Callers, PublishPanic(c) PROVE TenantIsolation'
  BY <1>13, <1>14 DEF PublishPanic
<1>15. ASSUME Close PROVE TenantIsolation'
  BY <1>13, <1>15 DEF Close
<1>16. ASSUME UNCHANGED vars PROVE TenantIsolation'
  BY <1>13, <1>16 DEF vars
<1> QED BY <1>3, <1>4, <1>5, <1>6, <1>7, <1>8, <1>9, <1>10, <1>11, <1>12, <1>14, <1>15, <1>16
        DEF Next, Step

\* A request is handed the store of the genealogy it asked for, by Get's cache,
\* by its own open or by the open it waited for.
THEOREM RequestsAreIsolated == Spec => []TenantIsolation
<1>1. Init => TenantIsolation
  BY DEF Init, TenantIsolation, Procs
<1>2. IInv /\ TenantIsolation /\ [Next]_vars => TenantIsolation'
  BY IsolationStep
<1> QED BY <1>1, <1>2, Inductive, PTL DEF Spec

-----------------------------------------------------------------------------
(* Shutdown *)

\* What a graceful Close leaves behind: an empty map that nothing can fill, as
\* no goroutine is opening and Get refuses to start.
ShutDown ==
    /\ closed => \A i \in Ids : index[i] = NoStore
    /\ Graceful => ~crashed
    /\ Graceful /\ closed => \A c \in Callers : pc[c] \notin {"opening", "publishing"}

\* Every step keeps ShutDown; the guard of Close establishes its last part.
LEMMA ShutDownStep ==
    ASSUME IInv, ShutDown, [Next]_vars
    PROVE  ShutDown'
<1>1. Callers \subseteq Procs /\ Deleters \subseteq Procs
  BY DEF Procs
<1>2. ASSUME NEW p \in Procs, NEW where \in PCs, NEW id, NEW st, Goto(p, where, id, st),
             UNCHANGED <<closed, crashed>>,
             closed => index' = index /\ where \notin {"opening", "publishing"}
      PROVE  ShutDown'
  <2>1. \A q \in Procs : pc'[q] = IF q = p THEN where ELSE pc[q]
    BY <1>2 DEF Goto, IInv, TypeOK
  <2> QED BY <1>1, <1>2, <2>1 DEF ShutDown
<1>3. ASSUME NEW c \in Callers, NEW id \in Ids, GetRefused(c, id) PROVE ShutDown'
  BY <1>1, <1>2, <1>3 DEF GetRefused, PCs, mvars
<1>4. ASSUME NEW c \in Callers, NEW id \in Ids, GetHit(c, id) PROVE ShutDown'
  BY <1>1, <1>2, <1>4 DEF GetHit, PCs
<1>5. ASSUME NEW c \in Callers, NEW id \in Ids, GetJoin(c, id) PROVE ShutDown'
  BY <1>1, <1>2, <1>5 DEF GetJoin, PCs, mvars
<1>6. ASSUME NEW c \in Callers, NEW id \in Ids, GetLead(c, id) PROVE ShutDown'
  BY <1>1, <1>2, <1>6 DEF GetLead, PCs
<1>7. ASSUME NEW c \in Callers, OpenOk(c) \/ OpenErr(c) PROVE ShutDown'
  <2>1. pc[c] = "opening" /\ UNCHANGED mvars
    BY <1>7 DEF OpenOk, OpenErr
  <2>2. /\ \A q \in Procs : q # c => pc'[q] = pc[q]
    BY <1>1, <1>7 DEF OpenOk, OpenErr, Goto, IInv, TypeOK
  <2> QED BY <1>1, <2>1, <2>2 DEF ShutDown, mvars
<1>8. ASSUME NEW c \in Callers, Publish(c) PROVE ShutDown'
  <2>1. pc[c] = "publishing" /\ UNCHANGED <<closed, crashed>>
    BY <1>8 DEF Publish
  <2>2. closed => index' = index
    BY <1>8 DEF Publish
  <2>3. \A q \in Procs : pc'[q] \in {"opening", "publishing"} => pc'[q] = pc[q]
    BY <1>8, PublishServes
  <2> QED BY <1>1, <2>1, <2>2, <2>3 DEF ShutDown
<1>9. ASSUME NEW c \in Callers, PublishPanic(c) PROVE ShutDown'
  <2>1. ~Graceful
    BY <1>9 DEF PublishPanic, ShutDown
  <2> QED BY <1>9, <2>1 DEF PublishPanic, ShutDown, pvars
<1>10. ASSUME NEW c \in Callers, Return(c) PROVE ShutDown'
  BY <1>1, <1>2, <1>10 DEF Return, PCs, mvars
<1>11. ASSUME NEW d \in Deleters, NEW id \in Ids, Drop(d, id) PROVE ShutDown'
  <2>1. closed => index' = index
    BY <1>11 DEF Drop, ShutDown
  <2> QED BY <1>1, <1>2, <1>11, <2>1 DEF Drop, PCs
<1>12. ASSUME NEW d \in Deleters, RemoveOnDisk(d) PROVE ShutDown'
  BY <1>1, <1>2, <1>12 DEF RemoveOnDisk, PCs, mvars
<1>13. ASSUME Close PROVE ShutDown'
  BY <1>1, <1>13 DEF Close, Forget, ShutDown, pvars
<1>14. ASSUME UNCHANGED vars PROVE ShutDown'
  BY <1>14 DEF vars, mvars, pvars, ShutDown
<1> QED BY <1>3, <1>4, <1>5, <1>6, <1>7, <1>8, <1>9, <1>10, <1>11, <1>12, <1>13, <1>14
        DEF Next, Step

\* If the calls in flight end before Close, as in Server.Close, no Get ever
\* panics and no handle stays open.
THEOREM ShutdownIsClean == Spec => []CleanShutdown
<1>1. Init => ShutDown
  BY DEF Init, ShutDown
<1>2. IInv /\ ShutDown /\ [Next]_vars => ShutDown'
  BY ShutDownStep
<1>3. ASSUME IInv, ShutDown PROVE CleanShutdown
  <2>1. ASSUME Graceful, closed, NEW s \in open PROVE FALSE
    <3>1. s[1] \in Ids /\ s # NoStore
      BY <1>3, <2>1, NoStoreAssumption DEF IInv, TypeOK, Stores
    <3> QED BY <1>3, <2>1, <3>1 DEF IInv, OpenTracked, ShutDown
  <2> QED BY <1>3, <2>1 DEF CleanShutdown, ShutDown
<1> QED BY <1>1, <1>2, <1>3, Inductive, PTL DEF Spec

-----------------------------------------------------------------------------
(* The number of open handles *)

\* A map that tells the members of a set apart bounds its cardinality.
LEMMA AtMost ==
    ASSUME NEW S, NEW T, IsFiniteSet(T), NEW f \in [S -> T],
           \A a, b \in S : f[a] = f[b] => a = b
    PROVE  /\ IsFiniteSet(S)
           /\ Cardinality(S) <= Cardinality(T)
           /\ Cardinality(S) \in Nat
<1>1. f \in Injection(S, T)
  BY DEF Injection, IsInjective
<1>2. IsFiniteSet(S) /\ Cardinality(S) <= Cardinality(T)
  BY <1>1, FS_Injection
<1> QED BY <1>2, FS_CardinalityType

\* The first n positive numbers.
LEMMA UpTo ==
    ASSUME NEW n \in Nat
    PROVE  IsFiniteSet(1..n) /\ Cardinality(1..n) = n
<1>1. IsFiniteSet(1..n) /\ Cardinality(1..n) = IF 1 > n THEN 0 ELSE n - 1 + 1
  BY FS_Interval
<1>2. (IF 1 > n THEN 0 ELSE n - 1 + 1) = n
  OBVIOUS
<1> QED BY <1>1, <1>2

\* An open handle is in the list, which MaxOpen bounds, or with the one goroutine
\* that is about to install it.
THEOREM OpenIsBounded == Spec => []OpenBound
<1>1. ASSUME IInv PROVE OpenBound
  <2> DEFINE Pub == {c \in Callers : pc[c] = "publishing"}
             Listed == {s \in open : index[s[1]] = s}
             Coming == open \ Listed
             at == [s \in Listed |-> Position(cache, s[1])]
             by == [s \in Coming |-> CHOOSE c \in Pub : got[c] = s]
  <2> USE <1>1 DEF IInv
  <2>1. \A s \in open : s \in Stores /\ s[1] \in Ids /\ s # NoStore
    BY NoStoreAssumption DEF TypeOK, Stores
  <2>2. Len(cache) \in Nat /\ DOMAIN cache = 1..Len(cache) /\ Len(cache) <= MaxOpen /\ MaxOpen \in Nat
    <3>1. cache \in Seq(Entries)
      BY DEF TypeOK, Entries
    <3> QED BY <3>1, MaxOpenAssumption DEF CacheCoherent
  <2>3. \A s \in Listed : at[s] \in 1..Len(cache) /\ cache[at[s]].store = s
    <3> TAKE s \in Listed
    <3>1. \E i \in DOMAIN cache : cache[i].id = s[1]
      BY <2>1 DEF CacheCoherent
    <3>2. at[s] \in DOMAIN cache /\ cache[at[s]].id = s[1]
      BY <3>1 DEF Position
    <3> QED BY <3>2, <2>2 DEF CacheCoherent
  <2>4. \A s \in Coming : by[s] \in Pub /\ got[by[s]] = s
    <3> TAKE s \in Coming
    <3>1. \E c \in Pub : got[c] = s
      BY DEF OpenTracked
    <3> QED BY <3>1
  <2>5. at \in [Listed -> 1..Len(cache)] /\ by \in [Coming -> Pub]
    BY <2>3, <2>4
  <2>6. IsFiniteSet(1..Len(cache)) /\ Cardinality(1..Len(cache)) = Len(cache)
    BY <2>2, UpTo
  <2>7. IsFiniteSet(Pub) /\ Cardinality(Pub) \in Nat
    BY CallersAssumption, FS_Subset, FS_CardinalityType
  <2> HIDE DEF at, by
  <2>8. IsFiniteSet(Listed) /\ Cardinality(Listed) <= Len(cache) /\ Cardinality(Listed) \in Nat
    <3>1. \A a, b \in Listed : at[a] = at[b] => a = b
      BY <2>3
    <3> HIDE DEF Listed
    <3> QED BY <3>1, <2>5, <2>6, AtMost
  <2>9. IsFiniteSet(Coming) /\ Cardinality(Coming) <= Cardinality(Pub) /\ Cardinality(Coming) \in Nat
    <3>1. \A a, b \in Coming : by[a] = by[b] => a = b
      BY <2>4
    <3> HIDE DEF Coming, Pub
    <3> QED BY <3>1, <2>5, <2>7, AtMost
  <2>10. open = Listed \cup Coming /\ Listed \cap Coming = {}
    OBVIOUS
  <2> HIDE DEF Listed, Coming
  <2>11. Cardinality(open) = Cardinality(Listed) + Cardinality(Coming)
    <3>1. Cardinality(Listed \cup Coming)
             = Cardinality(Listed) + Cardinality(Coming) - Cardinality(Listed \cap Coming)
      BY <2>8, <2>9, FS_Union
    <3>2. Cardinality(Listed \cap Coming) = 0
      BY <2>10, FS_EmptySet
    <3>3. Cardinality(Listed \cup Coming) = Cardinality(Listed) + Cardinality(Coming)
      BY <2>8, <2>9, <3>1, <3>2
    <3> QED BY <2>10, <3>3
  <2>12. Cardinality(open) <= MaxOpen + Cardinality(Pub)
    BY <2>2, <2>7, <2>8, <2>9, <2>11
  <2> QED BY <2>12 DEF OpenBound
<1> QED BY <1>1, Inductive, PTL

-----------------------------------------------------------------------------
(* Eviction is least recently used first *)

\* The list is in order of use: what is in front of an entry was used since that
\* entry was.
Ordered(c, s) == \A j, k \in DOMAIN c : j < k => c[j].id \in s[c[k].id]

\* The history sets are finite, one id is used at a time.
Recency ==
    /\ since \in [Ids -> SUBSET Ids]
    /\ \A i \in Ids : IsFiniteSet(since[i])
    /\ Ordered(cache, since)

\* A hit brings its id to the front and into the history of every other id.
LEMMA MoveToFrontOrdered ==
    ASSUME NEW c \in Seq(Entries), NEW idx \in [Ids -> Stores \cup {NoStore}],
           NEW id \in Ids, Coherent(c, idx), idx[id] # NoStore,
           NEW s, Ordered(c, s),
           NEW t, \A x \in Ids : x # id => s[x] \subseteq t[x] /\ id \in t[x]
    PROVE  Ordered(MoveToFront(c, id), t)
<1> DEFINE m == MoveToFront(c, id)
<1>1. m \in Seq(Entries) /\ Len(m) = Len(c)
  BY MoveToFrontElements
<1>2. PICK p \in 1..Len(c) :
         /\ c[p].id = id
         /\ \A j \in 1..Len(c) : m[j] = c[IF j = 1 THEN p ELSE IF j - 1 < p THEN j - 1 ELSE j]
  BY MoveToFrontElements
<1> DEFINE from(j) == IF j = 1 THEN p ELSE IF j - 1 < p THEN j - 1 ELSE j
<1> HIDE DEF m
<1>3. Len(c) \in Nat /\ DOMAIN m = 1..Len(c) /\ DOMAIN c = 1..Len(c)
  BY <1>1
<1>4. \A i \in DOMAIN c : c[i].id \in Ids
  <2> TAKE i \in DOMAIN c
  <2>1. c[i] \in Entries
    BY <1>3
  <2> QED BY <2>1 DEF Entries
<1> SUFFICES ASSUME NEW j \in DOMAIN m, NEW k \in DOMAIN m, j < k
             PROVE  m[j].id \in t[m[k].id]
  BY DEF Ordered, m
<1>5. /\ from(k) \in DOMAIN c /\ from(k) # p /\ m[k] = c[from(k)]
      /\ from(j) \in DOMAIN c /\ m[j] = c[from(j)]
      /\ j # 1 => from(j) < from(k)
  BY <1>2, <1>3
<1> HIDE DEF from
<1>6. m[k].id \in Ids /\ m[k].id # id
  BY <1>2, <1>3, <1>4, <1>5 DEF Coherent
<1>7. CASE j = 1
  BY <1>2, <1>3, <1>6, <1>7
<1>8. CASE j # 1
  <2>1. m[j].id \in s[m[k].id]
    BY <1>5, <1>8 DEF Ordered
  <2> QED BY <2>1, <1>6
<1> QED BY <1>7, <1>8

\* list.Remove keeps the order of the others.
LEMMA RemoveOrdered ==
    ASSUME NEW c \in Seq(Entries), NEW p \in 1..Len(c), NEW s, Ordered(c, s)
    PROVE  Ordered(RemoveAt(c, p), s)
<1> DEFINE r == RemoveAt(c, p)
           from(j) == IF j < p THEN j ELSE j + 1
<1>1. /\ r \in Seq(Entries)
      /\ Len(r) = Len(c) - 1
      /\ \A j \in 1..(Len(c) - 1) : r[j] = IF j < p THEN c[j] ELSE c[j + 1]
  BY RemoveAtElements
<1> HIDE DEF r
<1>2. Len(c) \in Nat /\ DOMAIN r = 1..(Len(c) - 1) /\ DOMAIN c = 1..Len(c)
  BY <1>1
<1> SUFFICES ASSUME NEW j \in DOMAIN r, NEW k \in DOMAIN r, j < k
             PROVE  r[j].id \in s[r[k].id]
  BY DEF Ordered, r
<1>3. /\ from(j) \in DOMAIN c /\ from(k) \in DOMAIN c /\ from(j) < from(k)
      /\ r[j] = c[from(j)] /\ r[k] = c[from(k)]
  BY <1>1, <1>2
<1> HIDE DEF from
<1> QED BY <1>3 DEF Ordered

\* PushFront: the new entry is first, the others follow it.
LEMMA PushElements ==
    ASSUME NEW c \in Seq(Entries), NEW id \in Ids, NEW st \in Stores,
           NEW d, d = <<Entry(id, st)>> \o c
    PROVE  /\ DOMAIN d = 1..(Len(c) + 1) /\ DOMAIN c = 1..Len(c) /\ Len(c) \in Nat
           /\ d[1].id = id
           /\ \A j \in DOMAIN d : j # 1 => j - 1 \in DOMAIN c /\ d[j] = c[j - 1]
           /\ \A i \in DOMAIN c : c[i] \in Entries /\ c[i].id \in Ids /\ c[i].store \in Stores
<1> DEFINE e == Entry(id, st)
<1>1. e \in Entries /\ e.id = id
  BY DEF Entry, Entries
<1>2. <<e>> \in Seq(Entries) /\ Len(<<e>>) = 1 /\ <<e>>[1] = e
  BY <1>1
<1>3. /\ d \in Seq(Entries)
      /\ Len(d) = 1 + Len(c)
      /\ \A j \in 1..(1 + Len(c)) : d[j] = IF j <= 1 THEN <<e>>[j] ELSE c[j - 1]
  BY <1>2, ConcatProperties
<1> HIDE DEF e
<1>4. Len(c) \in Nat /\ DOMAIN c = 1..Len(c) /\ DOMAIN d = 1..(Len(c) + 1)
  BY <1>3
<1>5. d[1] = e /\ \A j \in DOMAIN d : j # 1 => j - 1 \in DOMAIN c /\ d[j] = c[j - 1]
  BY <1>2, <1>3, <1>4
<1>6. \A i \in DOMAIN c : c[i] \in Entries /\ c[i].id \in Ids /\ c[i].store \in Stores
  <2> TAKE i \in DOMAIN c
  <2>1. c[i] \in Entries
    BY <1>4
  <2> QED BY <2>1 DEF Entries
<1> QED BY <1>1, <1>4, <1>5, <1>6

\* PushFront of a new id: it is used after everything that is in the list.
LEMMA PushOrdered ==
    ASSUME NEW c \in Seq(Entries), NEW id \in Ids, NEW st \in Stores,
           \A i \in DOMAIN c : c[i].id # id,
           NEW s, Ordered(c, s),
           NEW t, \A x \in Ids : x # id => s[x] \subseteq t[x] /\ id \in t[x],
           NEW d, d = <<Entry(id, st)>> \o c
    PROVE  Ordered(d, t)
<1>1. /\ DOMAIN d = 1..(Len(c) + 1) /\ DOMAIN c = 1..Len(c) /\ Len(c) \in Nat
      /\ d[1].id = id
      /\ \A j \in DOMAIN d : j # 1 => j - 1 \in DOMAIN c /\ d[j] = c[j - 1]
      /\ \A i \in DOMAIN c : c[i].id \in Ids
  BY PushElements
<1> SUFFICES ASSUME NEW j \in DOMAIN d, NEW k \in DOMAIN d, j < k
             PROVE  d[j].id \in t[d[k].id]
  BY DEF Ordered
<1>2. k # 1 /\ k - 1 \in DOMAIN c /\ d[k] = c[k - 1]
  BY <1>1
<1>3. d[k].id \in Ids /\ d[k].id # id
  BY <1>1, <1>2
<1>4. CASE j = 1
  BY <1>1, <1>3, <1>4
<1>5. CASE j # 1
  <2>1. j - 1 \in DOMAIN c /\ d[j] = c[j - 1] /\ j - 1 < k - 1
    BY <1>1, <1>5
  <2>2. d[j].id \in s[d[k].id]
    BY <1>2, <2>1 DEF Ordered
  <2> QED BY <1>3, <2>2
<1> QED BY <1>4, <1>5

\* A caller that finds its id cached is the only one to move.
LEMMA HitUses ==
    ASSUME IInv, NEW c \in Callers, NEW id \in Ids, GetHit(c, id)
    PROVE  Used = {id}
<1>1. Callers \subseteq Procs /\ index' = index
  BY DEF GetHit, Procs
<1>2. /\ pc[c] = "idle" /\ pc'[c] = "using" /\ arg'[c] = id
      /\ \A q \in Callers : q # c => pc'[q] = pc[q]
  BY <1>1 DEF IInv, TypeOK, GetHit, Calls, Goto
<1> QED BY <1>1, <1>2 DEF Used

\* Steps that neither find an id cached nor add one to the map use none.
LEMMA NoneUsed ==
    ASSUME \A q \in Callers : pc[q] = "idle" => pc'[q] # "using",
           \A i \in Ids : index[i] = NoStore => index'[i] = NoStore
    PROVE  Used = {}
BY DEF Used

\* The moves of one goroutine to any place but a cached store.
LEMMA GotoUsesNone ==
    ASSUME IInv, NEW p \in Procs, NEW where \in PCs \ {"using"}, NEW id, NEW st,
           Goto(p, where, id, st),
           \A i \in Ids : index[i] = NoStore => index'[i] = NoStore
    PROVE  Used = {}
<1>1. \A q \in Callers : pc'[q] = IF q = p THEN where ELSE pc[q]
  BY DEF IInv, TypeOK, Goto, Procs
<1> QED BY <1>1, NoneUsed

\* The ids behind the first MaxOpen entries of a list.
Cut(d) == {i \in Ids : \E k \in DOMAIN d : k > MaxOpen /\ d[k].id = i}

\* Publish of a handle: the list as installLocked leaves it to evictLocked, the
\* map afterwards, and the one id that is used.
LEMMA PublishUses ==
    ASSUME IInv, NEW c \in Callers, Publish(c), got[c] # NoStore,
           NEW d, d = <<Entry(arg[c], got[c])>> \o cache
    PROVE  /\ arg[c] \in Ids /\ got[c] \in Stores /\ d \in Seq(Entries)
           /\ \A i \in DOMAIN cache : cache[i].id # arg[c]
           /\ \A j, k \in DOMAIN d : d[j].id = d[k].id => j = k
           /\ cache' = Kept(d)
           /\ \A i \in Ids : index[i] # NoStore /\ index'[i] = NoStore => i \in Cut(d)
           /\ Used = {arg[c]}
<1> DEFINE id == arg[c]
           st == got[c]
           idx == [index EXCEPT ![id] = st]
<1> USE DEF IInv
<1>1. /\ c \in Procs /\ Callers \subseteq Procs /\ id \in Ids /\ st \in Stores
      /\ index[id] = NoStore
  BY PublishServes DEF TypeOK, SingleFlight
<1>2. evictLocked(d, idx)
  BY <1>1 DEF Publish, installLocked
<1>3. /\ cache \in Seq(Entries) /\ index \in [Ids -> Stores \cup {NoStore}]
      /\ Coherent(cache, index)
  BY DEF TypeOK, CacheCoherent, Coherent, Entries
<1>4. d \in Seq(Entries) /\ Coherent(d, idx)
  BY <1>1, <1>3, PushCoherent
<1>5. \A i \in Ids : idx[i] = IF i = id THEN st ELSE index[i]
  BY <1>3
<1> HIDE DEF idx
<1>6. \A i \in DOMAIN cache : cache[i].id # id
  <2>1. \A i \in DOMAIN cache : cache[i].store \in Stores
    BY <1>1, <1>3, PushElements
  <2> QED BY <1>1, <1>3, <2>1, NoStoreAssumption DEF Coherent
<1>7. /\ cache' = Kept(d)
      /\ \A i \in Ids : index'[i] = IF \E e \in Evicted(d) : e.id = i THEN NoStore ELSE idx[i]
  BY <1>2 DEF evictLocked
<1>8. \A e \in Evicted(d) : \E k \in DOMAIN d : k > MaxOpen /\ e = d[k]
  BY DEF Evicted
<1>9. ASSUME NEW i \in Ids, index[i] # NoStore, index'[i] = NoStore
      PROVE  i \in Cut(d)
  <2>1. idx[i] # NoStore
    BY <1>1, <1>5, <1>9
  <2>2. PICK e \in Evicted(d) : e.id = i
    BY <2>1, <1>7, <1>9
  <2> QED BY <2>2, <1>8 DEF Cut
<1>10. index'[id] # NoStore
  <2>1. 1 \in DOMAIN d /\ d[1].id = id
    BY <1>1, <1>3, PushElements
  <2>2. ASSUME NEW e \in Evicted(d), e.id = id PROVE FALSE
    <3>1. PICK k \in DOMAIN d : k > MaxOpen /\ e = d[k]
      BY <2>2, <1>8
    <3>2. k = 1
      BY <2>1, <2>2, <3>1, <1>4 DEF Coherent
    <3> QED BY <3>1, <3>2, MaxOpenAssumption
  <2>3. idx[id] # NoStore
    BY <1>1, <1>5, NoStoreAssumption
  <2> QED BY <2>2, <2>3, <1>1, <1>7
<1>11. \A q \in Callers : pc[q] = "idle" => pc'[q] # "using"
  BY <1>1 DEF Publish, Served
<1>12. Used = {id}
  BY <1>1, <1>5, <1>7, <1>10, <1>11 DEF Used
<1>13. \A j, k \in DOMAIN d : d[j].id = d[k].id => j = k
  BY <1>4 DEF Coherent
<1> QED BY <1>1, <1>4, <1>6, <1>7, <1>9, <1>12, <1>13

\* The history after a step in which one id, or none, is used.
LEMMA HistoryStep ==
    ASSUME Recency, ObserveUse, IsFiniteSet(Used)
    PROVE  /\ since' \in [Ids -> SUBSET Ids]
           /\ \A i \in Ids : IsFiniteSet(since'[i])
           /\ \A i \in Ids : since'[i] = IF i \in Used THEN {} ELSE since[i] \cup Used
<1>1. Used \subseteq Ids
  BY DEF Used
<1>2. \A i \in Ids : since'[i] = IF i \in Used THEN {} ELSE since[i] \cup Used
  BY DEF ObserveUse
<1>3. since' \in [Ids -> SUBSET Ids]
  <2>1. \A i \in Ids : (IF i \in Used THEN {} ELSE since[i] \cup Used) \in SUBSET Ids
    BY <1>1 DEF Recency
  <2> QED BY <2>1 DEF ObserveUse
<1>4. ASSUME NEW i \in Ids PROVE IsFiniteSet(since'[i])
  <2>1. IsFiniteSet(since[i] \cup Used) /\ IsFiniteSet({})
    BY FS_Union, FS_EmptySet DEF Recency
  <2> QED BY <2>1, <1>2
<1> QED BY <1>2, <1>3, <1>4

\* A step that uses no id and keeps the list's order.
LEMMA UnusedRecency ==
    ASSUME Recency, ObserveUse, Used = {}, Ordered(cache', since)
    PROVE  Recency'
<1>1. /\ since' \in [Ids -> SUBSET Ids]
      /\ \A i \in Ids : IsFiniteSet(since'[i])
      /\ \A i \in Ids : since'[i] = since[i]
  BY HistoryStep, FS_EmptySet
<1>2. since' = since
  BY <1>1 DEF Recency
<1> QED BY <1>1, <1>2 DEF Recency

\* Publish: the list before eviction is in order of use, and eviction cuts it.
LEMMA PublishRecency ==
    ASSUME IInv, Recency, ObserveUse, NEW c \in Callers, Publish(c), got[c] # NoStore,
           NEW d, d = <<Entry(arg[c], got[c])>> \o cache
    PROVE  Ordered(d, since') /\ Recency'
<1>1. /\ arg[c] \in Ids /\ got[c] \in Stores /\ d \in Seq(Entries)
      /\ \A i \in DOMAIN cache : cache[i].id # arg[c]
      /\ cache' = Kept(d) /\ Used = {arg[c]}
  BY PublishUses
<1>2. /\ since' \in [Ids -> SUBSET Ids]
      /\ \A i \in Ids : IsFiniteSet(since'[i])
      /\ \A i \in Ids : since'[i] = IF i \in Used THEN {} ELSE since[i] \cup Used
  BY <1>1, HistoryStep, FS_Singleton
<1>3. \A x \in Ids : x # arg[c] => since[x] \subseteq since'[x] /\ arg[c] \in since'[x]
  BY <1>1, <1>2
<1>4. cache \in Seq(Entries) /\ Ordered(cache, since)
  BY DEF IInv, TypeOK, Entries, Recency
<1>5. Ordered(d, since')
  BY <1>1, <1>3, <1>4, PushOrdered
<1>6. DOMAIN cache' \subseteq DOMAIN d /\ \A j \in DOMAIN cache' : cache'[j] = d[j]
  <2>1. CASE Len(d) > MaxOpen
    <3>1. /\ Len(d) \in Nat /\ MaxOpen \in Nat /\ DOMAIN d = 1..Len(d)
          /\ cache' = SubSeq(d, 1, MaxOpen)
      BY <1>1, <2>1, MaxOpenAssumption DEF Kept
    <3>2. /\ Len(SubSeq(d, 1, MaxOpen)) = MaxOpen
          /\ DOMAIN SubSeq(d, 1, MaxOpen) = 1..MaxOpen
          /\ \A j \in 1..MaxOpen : SubSeq(d, 1, MaxOpen)[j] = d[j]
      BY <1>1, <2>1, <3>1
    <3> QED BY <2>1, <3>1, <3>2
  <2>2. CASE ~(Len(d) > MaxOpen)
    BY <1>1, <2>2 DEF Kept
  <2> QED BY <2>1, <2>2
<1>7. Ordered(cache', since')
  BY <1>5, <1>6 DEF Ordered
<1> QED BY <1>2, <1>5, <1>7 DEF Recency

\* Every step keeps the list in order of use.
LEMMA RecencyStep ==
    ASSUME IInv, Recency, Next, ObserveUse
    PROVE  Recency'
<1>1. Callers \subseteq Procs /\ Deleters \subseteq Procs
  BY DEF Procs
<1>2. /\ cache \in Seq(Entries) /\ index \in [Ids -> Stores \cup {NoStore}]
      /\ Coherent(cache, index) /\ Ordered(cache, since)
  BY DEF IInv, TypeOK, CacheCoherent, Coherent, Entries, Recency
<1>3. ASSUME UNCHANGED <<cache, index>>,
             NEW p \in Procs, NEW where \in PCs \ {"using"}, NEW id, NEW st, Goto(p, where, id, st)
      PROVE  Recency'
  <2>1. Used = {}
    BY <1>3, GotoUsesNone
  <2> QED BY <1>2, <1>3, <2>1, UnusedRecency
<1>4. ASSUME NEW c \in Callers, NEW id \in Ids,
             GetRefused(c, id) \/ GetJoin(c, id) \/ GetLead(c, id)
      PROVE  Recency'
  <2>1. UNCHANGED <<cache, index>>
    BY <1>4 DEF GetRefused, GetJoin, GetLead, mvars
  <2>2. \E where \in PCs \ {"using"} : Goto(c, where, id, NoStore)
    BY <1>4 DEF GetRefused, GetJoin, GetLead, PCs
  <2> QED BY <1>1, <1>3, <2>1, <2>2
<1>5. ASSUME NEW c \in Callers, NEW id \in Ids, GetHit(c, id) PROVE Recency'
  <2>1. Used = {id} /\ index[id] # NoStore /\ cache' = MoveToFront(cache, id)
    BY <1>5, HitUses DEF GetHit
  <2>2. /\ since' \in [Ids -> SUBSET Ids]
        /\ \A i \in Ids : IsFiniteSet(since'[i])
        /\ \A i \in Ids : since'[i] = IF i \in Used THEN {} ELSE since[i] \cup Used
    BY <2>1, HistoryStep, FS_Singleton
  <2>3. \A x \in Ids : x # id => since[x] \subseteq since'[x] /\ id \in since'[x]
    BY <2>1, <2>2
  <2>4. Ordered(cache', since')
    BY <1>2, <2>1, <2>3, MoveToFrontOrdered
  <2> QED BY <2>2, <2>4 DEF Recency
<1>6. ASSUME NEW c \in Callers, OpenOk(c) PROVE Recency'
  <2>1. UNCHANGED <<cache, index>> /\ Goto(c, "publishing", arg[c], <<arg[c], opens[arg[c]] + 1>>)
    BY <1>6 DEF OpenOk, mvars
  <2> QED BY <1>1, <1>3, <2>1 DEF PCs
<1>7. ASSUME NEW c \in Callers, OpenErr(c) \/ Return(c) PROVE Recency'
  <2>1. UNCHANGED <<cache, index>>
    BY <1>7 DEF OpenErr, Return, mvars
  <2>2. \E where \in PCs \ {"using"}, id \in {arg[c], NoId} : Goto(c, where, id, NoStore)
    BY <1>7 DEF OpenErr, Return, PCs
  <2> QED BY <1>1, <1>3, <2>1, <2>2
<1>8. ASSUME NEW c \in Callers, Publish(c) PROVE Recency'
  <2>1. CASE got[c] # NoStore
    BY <1>8, <2>1, PublishRecency
  <2>2. CASE got[c] = NoStore
    <3>1. UNCHANGED <<cache, index>>
      BY <1>8, <2>2 DEF Publish
    <3>2. \A q \in Callers : pc[q] = "idle" => pc'[q] # "using"
      BY <1>1, <1>8 DEF Publish, Served
    <3>3. Used = {}
      BY <3>1, <3>2, NoneUsed
    <3> QED BY <1>2, <3>1, <3>3, UnusedRecency
  <2> QED BY <2>1, <2>2
<1>9. ASSUME NEW c \in Callers, PublishPanic(c) PROVE Recency'
  <2>1. UNCHANGED <<cache, index, pc>>
    BY <1>9 DEF PublishPanic, pvars
  <2>2. Used = {}
    BY <2>1, NoneUsed
  <2> QED BY <1>2, <2>1, <2>2, UnusedRecency
<1>10. ASSUME NEW d \in Deleters, NEW id \in Ids, Drop(d, id) PROVE Recency'
  <2>1. Goto(d, "dropped", id, NoStore) /\ "dropped" \in PCs \ {"using"}
    BY <1>10 DEF Drop, PCs
  <2>2. CASE index[id] = NoStore
    <3>1. UNCHANGED <<cache, index>>
      BY <1>10, <2>2 DEF Drop
    <3> QED BY <1>1, <1>3, <2>1, <3>1
  <2>3. CASE index[id] # NoStore
    <3>1. cache' = RemoveAt(cache, Position(cache, id)) /\ index' = Forget({id})
      BY <1>10, <2>3 DEF Drop
    <3>2. \A i \in Ids : index[i] = NoStore => index'[i] = NoStore
      BY <3>1 DEF Forget
    <3>3. Used = {}
      BY <1>1, <2>1, <3>2, GotoUsesNone
    <3>4. Position(cache, id) \in 1..Len(cache)
      BY <1>2, <2>3, PositionCorrect
    <3>5. Ordered(cache', since)
      BY <1>2, <3>1, <3>4, RemoveOrdered
    <3> QED BY <3>3, <3>5, UnusedRecency
  <2> QED BY <2>2, <2>3
<1>11. ASSUME NEW d \in Deleters, RemoveOnDisk(d) PROVE Recency'
  <2>1. UNCHANGED <<cache, index>> /\ Goto(d, "idle", NoId, NoStore)
    BY <1>11 DEF RemoveOnDisk, mvars
  <2> QED BY <1>1, <1>3, <2>1 DEF PCs
<1>12. ASSUME Close PROVE Recency'
  <2>1. cache' = <<>> /\ index' = Forget(Ids) /\ pc' = pc
    BY <1>12 DEF Close, pvars
  <2>2. Used = {}
    BY <2>1, NoneUsed DEF Forget
  <2>3. Ordered(cache', since)
    BY <2>1 DEF Ordered
  <2> QED BY <2>2, <2>3, UnusedRecency
<1> QED BY <1>4, <1>5, <1>6, <1>7, <1>8, <1>9, <1>10, <1>11, <1>12 DEF Next, Step

\* What a Publish evicts is behind MaxOpen ids, all used since.
LEMMA EvictedIsOld ==
    ASSUME IInv, Recency, Next, ObserveUse
    PROVE  EvictsOldest
<1> SUFFICES ASSUME NEW i \in Ids, index[i] # NoStore, index'[i] = NoStore, ~closed', loading # loading'
             PROVE  Cardinality(since'[i]) >= MaxOpen
  BY DEF EvictsOldest
<1>1. PICK c \in Callers : Publish(c)
  BY DEF Next, Step, GetRefused, GetHit, GetJoin, GetLead, OpenOk, OpenErr, PublishPanic, Return,
         Drop, RemoveOnDisk, Close, mvars
<1>2. got[c] # NoStore
  BY <1>1 DEF Publish
<1>3. PICK d : d = <<Entry(arg[c], got[c])>> \o cache
  OBVIOUS
<1>4. i \in Cut(d)
  BY <1>1, <1>2, <1>3, PublishUses
<1>5. PICK k \in DOMAIN d : k > MaxOpen /\ d[k].id = i
  BY <1>4 DEF Cut
<1>6. /\ arg[c] \in Ids /\ got[c] \in Stores /\ d \in Seq(Entries)
      /\ \A j, m \in DOMAIN d : d[j].id = d[m].id => j = m
  BY <1>1, <1>2, <1>3, PublishUses
<1>7. Ordered(d, since') /\ IsFiniteSet(since'[i])
  BY <1>1, <1>2, <1>3, PublishRecency, RecencyStep DEF Recency
<1> DEFINE f == [j \in 1..MaxOpen |-> d[j].id]
<1>8. MaxOpen \in Nat /\ 1..MaxOpen \subseteq DOMAIN d /\ \A j \in 1..MaxOpen : j < k
  BY <1>5, <1>6, MaxOpenAssumption
<1>9. \A j \in 1..MaxOpen : d[j].id \in since'[i]
  BY <1>5, <1>7, <1>8 DEF Ordered
<1>10. f \in [1..MaxOpen -> since'[i]] /\ \A a, b \in 1..MaxOpen : f[a] = f[b] => a = b
  BY <1>6, <1>8, <1>9
<1> HIDE DEF f
<1>11. Cardinality(1..MaxOpen) <= Cardinality(since'[i]) /\ Cardinality(1..MaxOpen) = MaxOpen
  BY <1>7, <1>8, <1>10, AtMost, UpTo
<1>12. Cardinality(since'[i]) \in Nat
  BY <1>7, FS_CardinalityType
<1> QED BY <1>8, <1>11, <1>12

\* A store leaves a full cache only after MaxOpen other genealogies were used
\* since its own last use.
THEOREM EvictionIsLRU == MCSpec => EvictsLRU
<1>1. MCInit => IInv /\ Recency
  <2> SUFFICES ASSUME MCInit PROVE IInv /\ Recency
    OBVIOUS
  <2>1. IInv
    BY InitIInv DEF MCInit
  <2>2. Recency
    BY FS_EmptySet DEF MCInit, Init, Recency, Ordered
  <2> QED BY <2>1, <2>2
<1>2. IInv /\ Recency /\ [Next /\ ObserveUse /\ UNCHANGED served]_MCvars => (IInv /\ Recency)'
  <2>1. IInv /\ Recency /\ Next /\ ObserveUse => (IInv /\ Recency)'
    BY NextIInv, RecencyStep
  <2>2. IInv /\ Recency /\ UNCHANGED MCvars => (IInv /\ Recency)'
    BY NextIInv DEF MCvars, vars, mvars, Recency
  <2> QED BY <2>1, <2>2
<1>3. IInv /\ Recency /\ [Next /\ ObserveUse /\ UNCHANGED served]_MCvars => [EvictsOldest]_MCvars
  BY EvictedIsOld
<1> QED BY <1>1, <1>2, <1>3, PTL DEF MCSpec, EvictsLRU

-----------------------------------------------------------------------------
(* What a deletion outlives *)

\* A handle's number is at most the count of its genealogy's opens.
Known(s) == s \in Stores /\ s[2] <= opens[s[1]]

\* Handles are numbered in the order of the opens, so a closed one never comes
\* back; those that a deletion saw at its Drop are closed.
Outlived ==
    /\ \A s \in open : Known(s)
    /\ \A p \in Procs : got[p] # NoStore => Known(got[p])
    /\ \A d \in Deleters : pc[d] = "dropped" =>
          \A s \in served[d] : Known(s) /\ s \notin open

\* Counting one more open of an id keeps every handle's number in range.
LEMMA KnownGrows ==
    ASSUME TypeOK, NEW s, Known(s),
           opens' = opens \/ \E id \in Ids : opens' = [opens EXCEPT ![id] = @ + 1]
    PROVE  Known(s)'
<1>1. s \in Stores /\ s[1] \in Ids /\ s[2] \in Nat /\ opens[s[1]] \in Nat /\ s[2] <= opens[s[1]]
  BY DEF Known, Stores, TypeOK
<1>2. opens'[s[1]] = opens[s[1]] \/ opens'[s[1]] = opens[s[1]] + 1
  BY <1>1 DEF TypeOK
<1> QED BY <1>1, <1>2 DEF Known

\* The handles a deletion must outlive, as ObserveDrop records them.
LEMMA ServedStep ==
    ASSUME TypeOK, Outlived, ObserveDrop, NEW d \in Deleters, pc'[d] = "dropped"
    PROVE  served'[d] = IF pc[d] = "dropped" THEN served[d] ELSE InService(arg'[d])
BY DEF ObserveDrop

\* A step that opens nothing, starts no deletion and hands out known handles.
LEMMA QuietOutlived ==
    ASSUME TypeOK, Outlived, ObserveDrop, open' \subseteq open, opens' = opens,
           \A p \in Procs : got'[p] # NoStore => Known(got'[p]),
           \A d \in Deleters : pc'[d] = "dropped" => pc[d] = "dropped"
    PROVE  Outlived'
<1>1. \A s : Known(s) => Known(s)'
  BY DEF Known
<1>2. \A s \in open' : Known(s)'
  BY <1>1 DEF Outlived
<1>3. \A p \in Procs : got'[p] # NoStore => Known(got[p])'
  BY DEF Known
<1>4. ASSUME NEW d \in Deleters, pc'[d] = "dropped", NEW s \in served'[d]
      PROVE  Known(s)' /\ s \notin open'
  <2>1. served'[d] = served[d] /\ pc[d] = "dropped"
    BY <1>4, ServedStep
  <2> QED BY <1>1, <1>4, <2>1 DEF Outlived
<1> QED BY <1>2, <1>3, <1>4 DEF Outlived

\* The moves of one goroutine other than Drop.
LEMMA GotoOutlived ==
    ASSUME TypeOK, Outlived, ObserveDrop, UNCHANGED <<open, opens>>,
           NEW p \in Procs, NEW where \in PCs \ {"dropped"}, NEW id,
           NEW st, st # NoStore => Known(st), Goto(p, where, id, st)
    PROVE  Outlived'
<1>1. \A q \in Procs : /\ pc'[q] = IF q = p THEN where ELSE pc[q]
                       /\ got'[q] = IF q = p THEN st ELSE got[q]
  BY DEF TypeOK, Goto
<1>2. \A q \in Procs : got'[q] # NoStore => Known(got'[q])
  BY <1>1 DEF Outlived
<1>3. \A d \in Deleters : pc'[d] = "dropped" => pc[d] = "dropped"
  BY <1>1 DEF Procs
<1> QED BY <1>2, <1>3, QuietOutlived

\* A new handle is none of the handles that a deletion saw: its number is new.
LEMMA OpenOutlived ==
    ASSUME TypeOK, Outlived, ObserveDrop, NEW c \in Callers, OpenOk(c)
    PROVE  Outlived'
<1>1. PICK id, st : id = arg[c] /\ st = <<id, opens[id] + 1>>
  OBVIOUS
<1>2. /\ c \in Procs /\ pc[c] = "opening" /\ opens' = [opens EXCEPT ![id] = @ + 1]
      /\ open' = open \cup {st} /\ Goto(c, "publishing", id, st)
  BY <1>1 DEF OpenOk, Procs
<1>3. id \in Ids /\ opens[id] \in Nat /\ opens'[id] = opens[id] + 1
  BY <1>1, <1>2 DEF TypeOK
<1>4. st \in Stores /\ st[1] = id /\ st[2] = opens[id] + 1
  BY <1>1, <1>3 DEF Stores
<1>5. \A s : Known(s) => Known(s)' /\ s # st
  <2> SUFFICES ASSUME NEW s, Known(s) PROVE Known(s)' /\ s # st
    OBVIOUS
  <2>1. Known(s)'
    BY <1>2, <1>3, KnownGrows
  <2> QED BY <1>3, <1>4, <2>1 DEF Known
<1>6. Known(st)'
  BY <1>3, <1>4 DEF Known
<1>7. \A q \in Procs : /\ pc'[q] = IF q = c THEN "publishing" ELSE pc[q]
                       /\ got'[q] = IF q = c THEN st ELSE got[q]
  BY <1>2 DEF TypeOK, Goto
<1>8. \A s \in open' : Known(s)'
  BY <1>2, <1>5, <1>6 DEF Outlived
<1>9. \A q \in Procs : got'[q] # NoStore => Known(got[q])'
  <2> SUFFICES ASSUME NEW q \in Procs, got'[q] # NoStore PROVE Known(got[q])'
    OBVIOUS
  <2>1. CASE q = c
    BY <2>1, <1>6, <1>7 DEF Known
  <2>2. CASE q # c
    <3>1. Known(got[q]) /\ got'[q] = got[q]
      BY <2>2, <1>7 DEF Outlived
    <3>2. PICK s : s = got[q]
      OBVIOUS
    <3> QED BY <1>5, <3>1, <3>2 DEF Known
  <2> QED BY <2>1, <2>2
<1>10. ASSUME NEW d \in Deleters, pc'[d] = "dropped", NEW s \in served'[d]
       PROVE  Known(s)' /\ s \notin open'
  <2>1. pc[d] = "dropped"
    BY <1>7, <1>10 DEF Procs
  <2>2. served'[d] = served[d]
    BY <1>10, <2>1, ServedStep
  <2>3. Known(s) /\ s \notin open
    BY <1>10, <2>1, <2>2 DEF Outlived
  <2> QED BY <1>2, <1>5, <2>3
<1> QED BY <1>8, <1>9, <1>10 DEF Outlived

\* Drop closes the one handle of its id that the manager holds; another one is
\* closed already or with a goroutine that has yet to install it.
LEMMA DropOutlived ==
    ASSUME IInv, TenantIsolation, Outlived, ObserveDrop,
           NEW d \in Deleters, NEW id \in Ids, Drop(d, id)
    PROVE  Outlived'
<1>1. TypeOK /\ d \in Procs /\ opens' = opens /\ open' \subseteq open
  BY DEF IInv, Drop, Procs
<1>2. \A q \in Procs : /\ pc'[q] = IF q = d THEN "dropped" ELSE pc[q]
                       /\ arg'[q] = IF q = d THEN id ELSE arg[q]
                       /\ got'[q] = IF q = d THEN NoStore ELSE got[q]
  BY <1>1 DEF TypeOK, Drop, Goto
<1>3. \A s : Known(s) => Known(s)'
  BY <1>1 DEF Known
<1>4. \A s \in open' : Known(s)'
  BY <1>1, <1>3 DEF Outlived
<1>5. \A q \in Procs : got'[q] # NoStore => Known(got[q])'
  BY <1>1, <1>2 DEF Outlived, Known
<1>6. ASSUME NEW s \in InService(id) PROVE Known(s) /\ s \notin open'
  <2>1. /\ s \in open \/ \E c \in Callers : pc[c] = "using" /\ s = got[c]
        /\ s[1] = id
        /\ \A c \in Callers : pc[c] = "publishing" => s # got[c]
    BY <1>6 DEF InService
  <2>2. s # NoStore
    <3>1. CASE s \in open
      BY <1>1, <3>1, NoStoreAssumption DEF TypeOK
    <3>2. ASSUME NEW c \in Callers, pc[c] = "using", s = got[c] PROVE s # NoStore
      BY <3>2 DEF TenantIsolation
    <3> QED BY <2>1, <3>1, <3>2
  <2>3. Known(s)
    BY <2>1, <2>2 DEF Outlived, Procs
  <2>4. ASSUME s \in open' PROVE FALSE
    <3>1. s \in open
      BY <1>1, <2>4
    <3>2. index[id] = s
      BY <2>1, <3>1 DEF IInv, OpenTracked
    <3>3. open' = open \ {index[id]}
      BY <2>2, <3>2 DEF Drop
    <3> QED BY <2>4, <3>2, <3>3
  <2> QED BY <2>3, <2>4
<1>7. ASSUME NEW e \in Deleters, pc'[e] = "dropped", NEW s \in served'[e]
      PROVE  Known(s)' /\ s \notin open'
  <2>1. CASE e = d
    <3>1. served'[d] = InService(id)
      BY <1>1, <1>2, <1>7, <2>1, ServedStep DEF Drop, Calls
    <3> QED BY <1>3, <1>6, <1>7, <2>1, <3>1
  <2>2. CASE e # d
    <3>1. pc[e] = "dropped"
      BY <1>2, <1>7, <2>2 DEF Procs
    <3>2. served'[e] = served[e]
      BY <1>1, <1>7, <3>1, ServedStep
    <3> QED BY <1>1, <1>3, <1>7, <3>1, <3>2 DEF Outlived
  <2> QED BY <2>1, <2>2
<1> QED BY <1>4, <1>5, <1>7 DEF Outlived

\* Every step keeps what deletions rely on.
LEMMA OutlivedStep ==
    ASSUME IInv, TenantIsolation, Outlived, Next, ObserveDrop
    PROVE  Outlived'
<1>1. TypeOK /\ Callers \subseteq Procs /\ Deleters \subseteq Procs /\ Callers \cap Deleters = {}
  BY ProcsAssumption DEF IInv, Procs
<1>2. ASSUME NEW c \in Callers, NEW id \in Ids,
             GetRefused(c, id) \/ GetJoin(c, id) \/ GetLead(c, id)
      PROVE  Outlived'
  <2>1. UNCHANGED <<open, opens>>
    BY <1>2 DEF GetRefused, GetJoin, GetLead, dvars
  <2>2. \E where \in PCs \ {"dropped"} : Goto(c, where, id, NoStore)
    BY <1>2 DEF GetRefused, GetJoin, GetLead, PCs
  <2> QED BY <1>1, <2>1, <2>2, GotoOutlived
<1>3. ASSUME NEW c \in Callers, NEW id \in Ids, GetHit(c, id) PROVE Outlived'
  <2>1. UNCHANGED <<open, opens>> /\ Goto(c, "using", id, index[id]) /\ index[id] # NoStore
    BY <1>3 DEF GetHit, dvars
  <2>2. Known(index[id])
    BY <2>1 DEF IInv, OpenTracked, Outlived
  <2> QED BY <1>1, <2>1, <2>2, GotoOutlived DEF PCs
<1>4. ASSUME NEW c \in Callers, OpenOk(c) PROVE Outlived'
  BY <1>1, <1>4, OpenOutlived
<1>5. ASSUME NEW c \in Callers, OpenErr(c) \/ Return(c) PROVE Outlived'
  <2>1. UNCHANGED <<open, opens>>
    BY <1>5 DEF OpenErr, Return, dvars
  <2>2. \E where \in PCs \ {"dropped"}, id \in {arg[c], NoId} : Goto(c, where, id, NoStore)
    BY <1>5 DEF OpenErr, Return, PCs
  <2> QED BY <1>1, <2>1, <2>2, GotoOutlived
<1>6. ASSUME NEW c \in Callers, Publish(c) PROVE Outlived'
  <2>1. open' \subseteq open /\ opens' = opens
    BY <1>6 DEF Publish, installLocked, evictLocked
  <2>2. \A q \in Procs : IF q \in Served(c) THEN got'[q] = got[c] ELSE got'[q] = got[q]
    BY <1>6 DEF Publish
  <2>3. \A q \in Procs : got'[q] # NoStore => Known(got'[q])
    BY <1>1, <2>2 DEF Outlived
  <2>4. \A e \in Deleters : pc'[e] = "dropped" => pc[e] = "dropped"
    BY <1>1, <1>6 DEF Publish, Served
  <2> QED BY <1>1, <2>1, <2>3, <2>4, QuietOutlived
<1>7. ASSUME open' \subseteq open, UNCHANGED <<opens, pc, got>> PROVE Outlived'
  BY <1>1, <1>7, QuietOutlived DEF Outlived
<1>8. ASSUME NEW c \in Callers, PublishPanic(c) PROVE Outlived'
  BY <1>7, <1>8 DEF PublishPanic, dvars, pvars
<1>9. ASSUME NEW d \in Deleters, NEW id \in Ids, Drop(d, id) PROVE Outlived'
  BY <1>9, DropOutlived
<1>10. ASSUME NEW d \in Deleters, RemoveOnDisk(d) PROVE Outlived'
  BY <1>1, <1>10, GotoOutlived DEF RemoveOnDisk, PCs
<1>11. ASSUME Close PROVE Outlived'
  BY <1>7, <1>11 DEF Close, pvars
<1> QED BY <1>2, <1>3, <1>4, <1>5, <1>6, <1>8, <1>9, <1>10, <1>11 DEF Next, Step

\* os.RemoveAll never runs under a handle that was in service at the Drop before
\* it, for any number of requests and deletions of any genealogies.
THEOREM DropsAreSafe == MCLiveSpec => DropProtects
<1> DEFINE Inv == IInv /\ TenantIsolation /\ Outlived
<1>1. MCInit => Inv
  <2> SUFFICES ASSUME MCInit PROVE Inv
    OBVIOUS
  <2>1. IInv
    BY InitIInv DEF MCInit
  <2>2. TenantIsolation /\ Outlived
    BY DEF MCInit, Init, TenantIsolation, Outlived, Procs
  <2> QED BY <2>1, <2>2
<1>2. Inv /\ [Next /\ ObserveDrop /\ UNCHANGED since]_MCvars => Inv'
  <2>1. Inv /\ Next /\ ObserveDrop => Inv'
    BY NextIInv, IsolationStep, OutlivedStep
  <2>2. ASSUME Inv, UNCHANGED MCvars PROVE Inv'
    <3>1. UNCHANGED <<vars, served>>
      BY <2>2 DEF MCvars
    <3>2. IInv' /\ TenantIsolation'
      BY <2>2, <3>1, NextIInv, IsolationStep
    <3>3. Outlived'
      BY <2>2, <3>1 DEF vars, dvars, pvars, Outlived, Known
    <3> QED BY <3>2, <3>3
  <2> QED BY <2>1, <2>2
<1>3. Inv => RemovesClosed
  BY DEF Outlived, RemovesClosed
<1> QED BY <1>1, <1>2, <1>3, PTL DEF MCLiveSpec, DropProtects
=============================================================================
