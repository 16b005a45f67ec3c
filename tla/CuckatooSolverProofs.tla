------------------------- MODULE CuckatooSolverProofs ------------------------
(***************************************************************************)
(* Theorems about CuckatooGraph and CuckatooSolver, for tables, buckets,   *)
(* partitions and numbers of rounds of any size and any set of edges: the  *)
(* tables stay consistent, every entry can be found, rounds and pruning    *)
(* remove exactly what no cycle needs, the search comes to every cycle,    *)
(* and what is handed out are the cycles the device's edges have.          *)
(***************************************************************************)
EXTENDS CuckatooSolver, FiniteSetTheorems, TLAPS

-----------------------------------------------------------------------------
(* Least elements, of which the definitions with CHOOSE make use.          *)

LEMMA LeastNat ==
    ASSUME NEW T, T \subseteq Nat, T # {}
    PROVE  \E m \in T : \A n \in T : m <= n
  <1> DEFINE R == OpToRel(<, Nat)
  <1>1. \E m \in T : \A n \in T : <<n, m>> \notin R
    <2>1. IsWellFoundedOn(R, Nat)
      BY NatLessThanWellFounded
    <2> HIDE DEF R
    <2>2. QED
      BY <2>1, WFMin
  <1>2. \A m \in Nat : \A n \in Nat : n < m => <<n, m>> \in R
    BY DEF OpToRel
  <1>3. QED
    <2>1. PICK m \in T : \A n \in T : <<n, m>> \notin R
      BY <1>1
    <2>2. \A n \in T : ~(n < m)
      BY <2>1, <1>2
    <2>3. m \in Nat /\ \A n \in T : n \in Nat
      OBVIOUS
    <2>4. QED
      BY <2>2, <2>3

LEMMA LeastPair ==
    ASSUME NEW S, S \subseteq Nat, S # {}, NEW f \in [S -> Nat]
    PROVE  \E i \in S : \A j \in S : f[i] < f[j] \/ (f[i] = f[j] /\ i <= j)
  <1> DEFINE T == {f[i] : i \in S}
  <1>1. T \subseteq Nat /\ T # {}
    OBVIOUS
  <1>2. PICK m \in T : \A n \in T : m <= n
    BY <1>1, LeastNat
  <1> DEFINE U == {i \in S : f[i] = m}
  <1>3. U \subseteq Nat /\ U # {}
    OBVIOUS
  <1>4. PICK i \in U : \A j \in U : i <= j
    BY <1>3, LeastNat
  <1>5. ASSUME NEW j \in S
        PROVE  f[i] < f[j] \/ (f[i] = f[j] /\ i <= j)
    <2>1. f[i] = m /\ f[j] \in T /\ f[i] \in Nat /\ f[j] \in Nat /\ m <= f[j]
      BY <1>2
    <2>2. CASE f[j] = m
      BY <2>1, <2>2, <1>4
    <2>3. CASE f[j] # m
      BY <2>1, <2>3
    <2>4. QED
      BY <2>2, <2>3
  <1>6. QED
    BY <1>5

-----------------------------------------------------------------------------
(* Nodes and buckets.                                                      *)

LEMMA PartnerOf ==
    ASSUME NEW k \in Int
    PROVE  /\ Partner(k) \in Int
           /\ Partner(Partner(k)) = k
           /\ Pair(Partner(k)) = Pair(k)
           /\ Pair(k) \in Int
  BY DEF Partner, Pair

LEMMA SamePair ==
    ASSUME NEW j \in Int, NEW k \in Int, Pair(j) = Pair(k)
    PROVE  j = k \/ j = Partner(k)
  BY DEF Partner, Pair

LEMMA QuotientInt ==
    ASSUME NEW p \in Int, NEW n \in Nat \ {0}
    PROVE  p \div n \in Int
  OBVIOUS

LEMMA RemainderRange ==
    ASSUME NEW p \in Int, NEW n \in Nat \ {0}
    PROVE  p % n \in 0 .. n - 1
  OBVIOUS

LEMMA AtBucket ==
    ASSUME NEW k \in Int, NEW d \in Int
    PROVE  At(k, d) \in Buckets
  <1>1. Pair(k) \in Int
    BY PartnerOf
  <1>2. Home(k) \in Int
    BY <1>1, QuotientInt, CuckatooGraphAssumption DEF CuckatooGraphAssumption, Home
  <1>3. Home(k) + d \in Int
    BY <1>2
  <1>4. (Home(k) + d) % NumBuckets \in 0 .. NumBuckets - 1
    BY <1>3, RemainderRange, CuckatooGraphAssumption DEF CuckatooGraphAssumption
  <1>5. QED
    BY <1>4 DEF At, Buckets

(* Partners are looked for in the same buckets.                            *)
LEMMA SameBuckets ==
    ASSUME NEW j, NEW k, Pair(j) = Pair(k)
    PROVE  Home(j) = Home(k)
  BY DEF Home

LEMMA NodesAreInts == \A k \in Nodes : k \in Int
  BY DEF Nodes

LEMMA EdgeFacts ==
    ASSUME TypeOK
    PROVE  \A i \in Ids : \A t \in Tables : edges[i][t] \in Nodes /\ edges[i][t] \in Int
  <1>1. edges \in Seq(Edges) /\ Edges \subseteq [Tables -> Nodes]
    BY CuckatooGraphAssumption DEF CuckatooGraphAssumption, TypeOK
  <1>2. \A i \in Ids : edges[i] \in Edges
    BY <1>1 DEF Ids
  <1>3. \A i \in Ids : edges[i] \in [Tables -> Nodes]
    BY <1>1, <1>2
  <1>4. QED
    BY <1>3, NodesAreInts

LEMMA AwayFacts ==
    ASSUME TypeOK
    PROVE  /\ Len(edges) \in Nat
           /\ \A t \in Tables : \A i \in Ids : away[t][i] \in Nat
  <1>1. /\ Len(edges) \in Nat
        /\ \A t \in Tables : away[t] \in Seq(Buckets) /\ Len(away[t]) = Len(edges)
    BY DEF TypeOK
  <1>2. \A t \in Tables : \A i \in Ids : away[t][i] \in Buckets
    BY <1>1 DEF Ids
  <1>3. Buckets \subseteq Nat
    BY DEF Buckets
  <1>4. QED
    BY <1>1, <1>2, <1>3

LEMMA FirstFacts ==
    ASSUME TypeOK, NEW t \in Tables, NEW S, S \subseteq Ids, S # {}
    PROVE  /\ First(t, S) \in S
           /\ \A j \in S : \/ away[t][First(t, S)] < away[t][j]
                           \/ away[t][First(t, S)] = away[t][j] /\ First(t, S) <= j
  <1> DEFINE f == [i \in S |-> away[t][i]]
  <1>1. S \subseteq Nat /\ f \in [S -> Nat]
    BY AwayFacts DEF Ids
  <1>2. \E i \in S : \A j \in S : f[i] < f[j] \/ (f[i] = f[j] /\ i <= j)
    <2> HIDE DEF f
    <2>1. QED
      BY <1>1, LeastPair
  <1>3. \E i \in S : \A j \in S :
            away[t][i] < away[t][j] \/ (away[t][i] = away[t][j] /\ i <= j)
    BY <1>2
  <1>4. QED
    BY <1>3 DEF First

LEMMA NextEntryFacts ==
    ASSUME TypeOK, NEW t \in Tables, todo # {}
    PROVE  NextEntry(t) \in todo /\ NextEntry(t) \in Ids /\ NextNode(t) \in Nodes
  <1> DEFINE f == [i \in todo |-> At(edges[i][t], away[t][i])]
  <1>1. todo \subseteq Ids /\ todo \subseteq Nat
    BY DEF TypeOK, Ids
  <1>2. \A i \in todo : At(edges[i][t], away[t][i]) \in Nat
    <2>1. \A i \in todo : edges[i][t] \in Int /\ away[t][i] \in Int
      BY <1>1, EdgeFacts, AwayFacts
    <2>2. Buckets \subseteq Nat
      BY DEF Buckets
    <2>3. QED
      BY <2>1, <2>2, AtBucket
  <1>3. f \in [todo -> Nat]
    BY <1>2
  <1>4. \E i \in todo : \A j \in todo : f[i] < f[j] \/ (f[i] = f[j] /\ i <= j)
    <2> HIDE DEF f
    <2>1. QED
      BY <1>1, <1>3, LeastPair
  <1>5. NextEntry(t) \in todo
    BY <1>4 DEF NextEntry
  <1>6. QED
    BY <1>5, <1>1, EdgeFacts DEF NextNode

LEMMA DistanceFacts ==
    ASSUME TypeOK, NEW t \in Tables, NEW k \in Nodes, HasRoom(t, k)
    PROVE  /\ Distance(t, k) \in Buckets
           /\ insertions[t][At(k, Distance(t, k))] < Capacity
           /\ \A c \in 0 .. Distance(t, k) - 1 : insertions[t][At(k, c)] >= Capacity
  <1> DEFINE T == {d \in Buckets : insertions[t][At(k, d)] < Capacity}
  <1>1. Buckets \subseteq Nat /\ T \subseteq Buckets /\ T # {}
    BY DEF HasRoom, Buckets
  <1>2. PICK d \in T : \A n \in T : d <= n
    BY <1>1, LeastNat
  <1>3. ASSUME NEW c \in 0 .. d - 1
        PROVE  insertions[t][At(k, c)] >= Capacity
    <2>1. d \in Nat /\ d <= NumBuckets - 1 /\ NumBuckets \in Nat
      BY <1>1, CuckatooGraphAssumption DEF CuckatooGraphAssumption, Buckets
    <2>2. c \in Buckets /\ ~(d <= c) /\ c \in Int
      BY <2>1 DEF Buckets
    <2>3. c \notin T
      BY <1>2, <2>2
    <2>4. At(k, c) \in Buckets
      BY <2>2, AtBucket, NodesAreInts
    <2>5. insertions[t][At(k, c)] \in Nat /\ Capacity \in Nat
      BY <2>4, CuckatooGraphAssumption DEF TypeOK, CuckatooGraphAssumption
    <2>6. ~(insertions[t][At(k, c)] < Capacity)
      BY <2>2, <2>3
    <2>7. QED
      BY <2>5, <2>6
  <1>4. d \in Buckets /\ insertions[t][At(k, d)] < Capacity
    OBVIOUS
  <1> HIDE DEF T
  <1>5. \E e \in Buckets : /\ insertions[t][At(k, e)] < Capacity
                          /\ \A c \in 0 .. e - 1 : insertions[t][At(k, c)] >= Capacity
    BY <1>3, <1>4
  <1>6. QED
    BY <1>5, Zenon DEF Distance
-----------------------------------------------------------------------------
(* The tables.                                                             *)

LEMMA InitIInv == Init => IInv
  <1> SUFFICES ASSUME Init PROVE IInv
    OBVIOUS
  <1>1. edges = <<>> /\ Ids = {} /\ full = [t \in Tables |-> {}]
    BY DEF Init, Ids
  <1>2. task \in [table : Tables, node : Nodes]
    BY CuckatooGraphAssumption DEF Init, Tables, Nodes, CuckatooGraphAssumption
  <1>3. TypeOK
    BY <1>1, <1>2 DEF Init, TypeOK, Tables
  <1>4. SomeRoom
    <2>1. 0 \in Buckets /\ ~(0 > Capacity)
      BY CuckatooGraphAssumption DEF CuckatooGraphAssumption, Buckets
    <2>2. QED
      BY <2>1 DEF Init, SomeRoom, Overflow
  <1>5. Findable /\ InOrder /\ TablesAgree /\ AllActive
    BY <1>1 DEF Findable, InOrder, TablesAgree, AllActive, Tables
  <1>6. SparedInv /\ CoveredInv
    BY DEF Init, SparedInv, CoveredInv, NothingToPop
  <1>7. QED
    BY <1>3, <1>4, <1>5, <1>6 DEF IInv

(* Only AddEdge changes what is stored where.                              *)
LEMMA SameTables ==
    ASSUME IInv, UNCHANGED <<edges, insertions, away>>
    PROVE  Findable' /\ SomeRoom' /\ InOrder' /\ Ids' = Ids
  <1>1. Ids' = Ids
    BY DEF Ids
  <1>2. \A t \in Tables : \A i \in Ids : Reached(t, i)' = Reached(t, i)
    BY DEF Reached, Overflow
  <1>3. Findable'
    BY <1>1, <1>2 DEF IInv, Findable, Reached, Overflow
  <1>4. SomeRoom' /\ InOrder'
    BY <1>1 DEF IInv, SomeRoom, InOrder, Overflow
  <1>5. QED
    BY <1>1, <1>3, <1>4

LEMMA AddEdgeIInv ==
    ASSUME IInv, NEW e \in Edges, AddEdge(e)
    PROVE  IInv'
  <1> DEFINE n == Len(edges) + 1
  <1>1. /\ edges' \in Seq(Edges) /\ Len(edges') = n /\ Len(edges) \in Nat
        /\ edges'[n] = e
        /\ \A i \in Ids : edges'[i] = edges[i]
        /\ Ids' = Ids \cup {n} /\ n \notin Ids
    <2>1. edges \in Seq(Edges) /\ edges' = Append(edges, e)
      BY DEF IInv, TypeOK, AddEdge
    <2>2. QED
      BY <2>1 DEF Ids
  <1>2. \A t \in Tables : e[t] \in Nodes /\ e[t] \in Int /\ HasRoom(t, e[t])
    BY CuckatooGraphAssumption, NodesAreInts DEF CuckatooGraphAssumption, AddEdge
  <1>3. ASSUME NEW t \in Tables
        PROVE  /\ Distance(t, e[t]) \in Buckets
               /\ insertions[t][At(e[t], Distance(t, e[t]))] < Capacity
               /\ \A c \in 0 .. Distance(t, e[t]) - 1 : insertions[t][At(e[t], c)] >= Capacity
    BY <1>2, DistanceFacts DEF IInv
  <1>4. ASSUME NEW t \in Tables
        PROVE  /\ away'[t] \in Seq(Buckets) /\ Len(away'[t]) = n
               /\ away'[t][n] = Distance(t, e[t])
               /\ \A i \in Ids : away'[t][i] = away[t][i]
    <2>1. /\ away[t] \in Seq(Buckets) /\ Len(away[t]) = Len(edges)
          /\ away'[t] = Append(away[t], Distance(t, e[t]))
      BY DEF IInv, TypeOK, AddEdge
    <2>2. QED
      BY <2>1, <1>1, <1>3 DEF Ids
  <1>5. ASSUME NEW t \in Tables, NEW b \in Buckets
        PROVE  /\ insertions[t][b] \in Nat /\ insertions'[t][b] \in Nat
               /\ insertions'[t][b] >= insertions[t][b]
               /\ insertions'[t][b] <= insertions[t][b] + 1
               /\ b \in Tried(t, e[t]) => insertions'[t][b] = insertions[t][b] + 1
    <2>1. insertions[t][b] \in Nat
      BY DEF IInv, TypeOK
    <2>2. insertions'[t][b] = insertions[t][b] + IF b \in Tried(t, e[t]) THEN 1 ELSE 0
      BY DEF AddEdge
    <2>3. QED
      BY <2>1, <2>2
  <1>6. TypeOK'
    <2>1. insertions' \in [Tables -> [Buckets -> Nat]]
      <3>1. insertions' = [t \in Tables |-> [b \in Buckets |->
                              insertions[t][b] + IF b \in Tried(t, e[t]) THEN 1 ELSE 0]]
        BY DEF AddEdge
      <3>2. \A t \in Tables : \A b \in Buckets :
                insertions[t][b] + (IF b \in Tried(t, e[t]) THEN 1 ELSE 0) \in Nat
        BY DEF IInv, TypeOK
      <3>3. QED
        BY <3>1, <3>2
    <2>2. away' \in [Tables -> Seq(Buckets)] /\ \A t \in Tables : Len(away[t])' = Len(edges)'
      <3>1. away' = [t \in Tables |-> Append(away[t], Distance(t, e[t]))]
        BY DEF AddEdge
      <3>2. \A t \in Tables : away'[t] \in Seq(Buckets) /\ Len(away'[t]) = n
        BY <1>4
      <3>3. QED
        BY <3>1, <3>2, <1>1
    <2>3. full' \in [Tables -> SUBSET Ids'] /\ todo' \in SUBSET Ids'
      BY <1>1 DEF IInv, TypeOK, AddEdge
    <2>4. QED
      BY <1>1, <2>1, <2>2, <2>3 DEF IInv, TypeOK, AddEdge
  <1>7. Findable'
    <2> SUFFICES ASSUME NEW t \in Tables, NEW i \in Ids', NEW d \in 0 .. away'[t][i] - 1
                 PROVE  insertions'[t][At(edges'[i][t], d)] > Capacity
      BY DEF Findable, Reached, Overflow
    <2>1. CASE i \in Ids
      <3>1. d \in 0 .. away[t][i] - 1 /\ edges'[i][t] = edges[i][t] /\ edges[i][t] \in Int
        BY <2>1, <1>1, <1>4, EdgeFacts DEF IInv
      <3>2. insertions[t][At(edges[i][t], d)] > Capacity
        BY <2>1, <3>1 DEF IInv, Findable, Reached, Overflow
      <3>3. At(edges[i][t], d) \in Buckets
        BY <3>1, AtBucket
      <3>4. QED
        BY <3>1, <3>2, <3>3, <1>5, CuckatooGraphAssumption DEF CuckatooGraphAssumption
    <2>2. CASE i = n
      <3> DEFINE b == At(e[t], d)
      <3>1. /\ edges'[i][t] = e[t] /\ Distance(t, e[t]) \in Nat
            /\ d \in 0 .. Distance(t, e[t]) - 1 /\ d \in 0 .. Distance(t, e[t])
        BY <2>2, <1>1, <1>3, <1>4 DEF Buckets
      <3>2. b \in Buckets /\ b \in Tried(t, e[t])
        BY <3>1, <1>2, AtBucket DEF Tried
      <3>3. insertions[t][b] >= Capacity
        BY <3>1, <1>3
      <3> HIDE DEF b
      <3>4. insertions'[t][b] > Capacity
        BY <3>2, <3>3, <1>5, CuckatooGraphAssumption DEF CuckatooGraphAssumption
      <3>5. QED
        BY <3>1, <3>4 DEF b
    <2>3. QED
      BY <2>1, <2>2, <1>1
  <1>8. SomeRoom'
    <2> SUFFICES ASSUME NEW t \in Tables
                 PROVE  \E b \in Buckets : ~(insertions'[t][b] > Capacity)
      BY DEF SomeRoom, Overflow
    <2>1. Distance(t, e[t]) \in Int
      BY <1>3 DEF Buckets
    <2>2. At(e[t], Distance(t, e[t])) \in Buckets
      BY <2>1, <1>2, AtBucket
    <2>3. ~(insertions'[t][At(e[t], Distance(t, e[t]))] > Capacity)
      BY <2>2, <1>3, <1>5, CuckatooGraphAssumption DEF CuckatooGraphAssumption
    <2>4. QED
      BY <2>2, <2>3
  <1>9. InOrder'
    <2> SUFFICES ASSUME NEW t \in Tables, NEW i \in Ids', NEW j \in Ids', i < j,
                        Home(edges'[i][t]) = Home(edges'[j][t])
                 PROVE  away'[t][i] <= away'[t][j]
      BY DEF InOrder
    <2>1. i \in Ids
      BY <1>1 DEF Ids
    <2>2. CASE j \in Ids
      BY <2>1, <2>2, <1>1, <1>4 DEF IInv, InOrder
    <2>3. CASE j = n
      <3> DEFINE D == Distance(t, e[t])
      <3>1. D \in Nat /\ away[t][i] \in Nat /\ away'[t][i] = away[t][i] /\ away'[t][j] = D
        BY <2>1, <2>3, <1>3, <1>4, AwayFacts DEF IInv, Buckets
      <3>2. Home(edges[i][t]) = Home(e[t])
        BY <2>1, <2>3, <1>1
      <3>3. insertions[t][At(edges[i][t], D)] < Capacity
        BY <3>2, <1>3 DEF At
      <3>4. insertions[t][At(edges[i][t], D)] \in Nat
        BY <3>1, <2>1, EdgeFacts, AtBucket, <1>5 DEF IInv
      <3>5. \A d \in 0 .. away[t][i] - 1 : insertions[t][At(edges[i][t], d)] > Capacity
        BY <2>1 DEF IInv, Findable, Reached, Overflow
      <3> HIDE DEF D
      <3>6. D \notin 0 .. away[t][i] - 1
        BY <3>3, <3>4, <3>5, CuckatooGraphAssumption DEF CuckatooGraphAssumption
      <3>7. QED
        BY <3>1, <3>6
    <2>4. QED
      BY <2>2, <2>3, <1>1
  <1>10. TablesAgree' /\ AllActive'
    BY <1>1 DEF IInv, TypeOK, TablesAgree, AllActive, AddEdge, Tables
  <1>11. SparedInv' /\ CoveredInv'
    BY DEF IInv, AddEdge, SparedInv, CoveredInv, NothingToPop
  <1>12. QED
    BY <1>6, <1>7, <1>8, <1>9, <1>10, <1>11 DEF IInv
-----------------------------------------------------------------------------
(* What a search for a node or its pair finds.                             *)

LEMMA StackFacts ==
    ASSUME TypeOK, NEW t \in Tables
    PROVE  /\ stack[t] \in Seq(Nodes)
           /\ Len(stack[t]) \in Nat
           /\ stack[t] # <<>> => Len(stack[t]) \in 1 .. Len(stack[t])
           /\ \A n \in 1 .. Len(stack[t]) : stack[t][n] \in Nodes
  BY DEF TypeOK

LEMMA ActiveFacts ==
    ASSUME IInv, NEW t \in Tables, NEW k
    PROVE  /\ Active(t, k) = {i \in full[t] : edges[i][t] = k}
           /\ ActivePair(t, k) = {i \in full[t] : Pair(edges[i][t]) = Pair(k)}
           /\ full[t] \subseteq Ids
  <1>1. full[t] \subseteq Ids
    BY DEF IInv, TypeOK
  <1>2. \A i \in full[t] : Reached(t, i)
    BY <1>1 DEF IInv, Findable
  <1>3. QED
    BY <1>1, <1>2 DEF Active, ActivePair

LEMMA ReverseFacts ==
    ASSUME NEW t \in Tables
    PROVE  /\ Reverse(t) \in Tables /\ Reverse(t) # t
           /\ \A x \in Tables : x = t \/ x = Reverse(t)
  BY DEF Tables, Reverse

(* removeEdge takes out of the other table the entry of the same edge,     *)
(* although all that it has to go by is the two nodes: equal edges are met *)
(* in the same order in both tables.                                       *)
LEMMA TwinIsSame ==
    ASSUME IInv, NEW t \in Tables, NEW k, ActivePair(t, k) # {},
           NEW i, i = First(t, ActivePair(t, k))
    PROVE  Twin(t, i) = {i} /\ i \in ActivePair(t, k)
  <1> DEFINE r == Reverse(t)
             same == {j \in Active(r, edges[i][r]) : edges[j][t] = edges[i][t]}
  <1>1. r \in Tables /\ full[r] = full[t]
    BY ReverseFacts DEF IInv, TablesAgree, Tables, Reverse
  <1>2. ActivePair(t, k) \subseteq Ids /\ full[t] \subseteq Ids
    BY ActiveFacts
  <1>3. /\ i \in ActivePair(t, k)
        /\ \A j \in ActivePair(t, k) : \/ away[t][i] < away[t][j]
                                       \/ away[t][i] = away[t][j] /\ i <= j
    BY <1>2, FirstFacts DEF IInv
  <1>4. same = {j \in full[t] : edges[j][r] = edges[i][r] /\ edges[j][t] = edges[i][t]}
    BY <1>1, ActiveFacts
  <1>5. i \in same /\ same \subseteq Ids /\ i \in Ids
    BY <1>2, <1>3, <1>4, ActiveFacts
  <1> HIDE DEF same
  <1>6. ASSUME NEW j \in same
        PROVE  i <= j
    <2>1. j \in ActivePair(t, k) /\ edges[j][t] = edges[i][t]
      BY <1>3, <1>4, ActiveFacts
    <2>2. i \in Nat /\ j \in Nat /\ away[t][i] \in Nat /\ away[t][j] \in Nat
      BY <1>5, AwayFacts DEF IInv, Ids
    <2>3. j < i => away[t][j] <= away[t][i]
      BY <2>1, <1>5 DEF IInv, InOrder
    <2>4. QED
      BY <2>1, <2>2, <2>3, <1>3
  <1>7. First(r, same) = i
    <2> DEFINE m == First(r, same)
    <2>1. /\ m \in same
          /\ \A j \in same : away[r][m] < away[r][j] \/ (away[r][m] = away[r][j] /\ m <= j)
      BY <1>1, <1>5, FirstFacts DEF IInv
    <2> HIDE DEF m
    <2>2. i <= m /\ (away[r][m] < away[r][i] \/ (away[r][m] = away[r][i] /\ m <= i))
      BY <2>1, <1>5, <1>6
    <2>3. m \in Ids /\ edges[m][r] = edges[i][r]
      BY <2>1, <1>4, <1>5
    <2>4. i \in Nat /\ m \in Nat /\ away[r][i] \in Nat /\ away[r][m] \in Nat
      BY <1>1, <1>5, <2>3, AwayFacts DEF IInv, Ids
    <2>5. i < m => away[r][i] <= away[r][m]
      BY <1>1, <1>5, <2>3 DEF IInv, InOrder
    <2>6. QED
      BY <2>2, <2>4, <2>5 DEF m
  <1>8. QED
    BY <1>3, <1>5, <1>7 DEF Twin, same

(* A set without dead ends that has an edge at a pair of nodes has edges   *)
(* at both.                                                                *)
LEMMA BothNodes ==
    ASSUME TypeOK, NEW S, S \subseteq Ids, NoDeadEnds(S), NEW t \in Tables,
           NEW i \in S, NEW k \in Nodes, Pair(edges[i][t]) = Pair(k)
    PROVE  (\E j \in S : edges[j][t] = k) /\ (\E j \in S : edges[j][t] = Partner(k))
  <1>1. edges[i][t] \in Int /\ k \in Int
    BY EdgeFacts, NodesAreInts
  <1>2. PICK j \in S : edges[j][t] = Partner(edges[i][t])
    BY DEF NoDeadEnds
  <1>3. edges[i][t] = k \/ edges[i][t] = Partner(k)
    BY <1>1, SamePair
  <1>4. QED
    BY <1>1, <1>2, <1>3, PartnerOf
-----------------------------------------------------------------------------
(* The steps of prune.                                                     *)

LEMMA SparedFrom ==
    ASSUME edges' = edges,
           \A S \in SUBSET Ids : NoDeadEnds(S) =>
               /\ S \subseteq full'["u"]
               /\ pc' = "remove" => Spared(S, task'.table, task'.node)
               /\ \A t \in Tables : \A n \in 1 .. Len(stack'[t]) : Spared(S, t, stack'[t][n])
    PROVE  SparedInv'
  <1>1. Ids' = Ids
    BY DEF Ids
  <1>2. ASSUME NEW S \in SUBSET Ids, NoDeadEnds(S)'
        PROVE  NoDeadEnds(S)
    BY <1>2 DEF NoDeadEnds
  <1> SUFFICES ASSUME NEW S \in SUBSET Ids, NoDeadEnds(S)
               PROVE  /\ S \subseteq full'["u"]
                      /\ pc' = "remove" => \A i \in S : Pair(edges[i][task'.table]) # Pair(task'.node)
                      /\ \A t \in Tables : \A n \in 1 .. Len(stack'[t]) :
                             \A i \in S : Pair(edges[i][t]) # Pair(stack'[t][n])
    BY <1>1, <1>2 DEF SparedInv, Spared
  <1>3. QED
    BY DEF Spared

LEMMA PruneIInv ==
    ASSUME IInv, NEW t \in Tables, Prune(t)
    PROVE  IInv'
  <1>1. Findable' /\ SomeRoom' /\ InOrder' /\ Ids' = Ids
    BY SameTables DEF Prune
  <1>2. TypeOK'
    BY <1>1 DEF IInv, TypeOK, Prune, CleanSides
  <1>3. TablesAgree' /\ AllActive'
    BY DEF IInv, TablesAgree, AllActive, Prune
  <1>4. NothingToPop /\ NothingToPop'
    BY DEF IInv, CoveredInv, NothingToPop, Prune
  <1>5. SparedInv'
    <2>1. ASSUME NEW S \in SUBSET Ids, NoDeadEnds(S)
          PROVE  S \subseteq full["u"]
      <3>1. CASE pc = "build"
        BY <3>1 DEF IInv, AllActive, Tables
      <3>2. CASE pc = "scan"
        BY <3>2, <2>1 DEF IInv, SparedInv
      <3>3. QED
        BY <3>1, <3>2 DEF Prune
    <2>2. \A S : NoDeadEnds(S)' <=> NoDeadEnds(S)
      BY DEF NoDeadEnds, Prune
    <2>3. pc' = "scan" /\ full' = full /\ \A x \in Tables : stack'[x] = <<>>
      BY <1>4 DEF Prune, NothingToPop
    <2>4. QED
      BY <1>1, <2>1, <2>2, <2>3 DEF SparedInv
  <1>6. CoveredInv'
    <2>1. ASSUME NEW x \in clean', NEW i \in full'[x]
          PROVE  Covered(x, i)'
      <3>1. x = t => side' = x /\ i \in todo'
        BY <2>1 DEF IInv, TypeOK, Prune
      <3>2. x \in CleanSides => HasPartner(x, i)'
        BY <2>1 DEF CleanSides, HasPartner, Prune
      <3>3. QED
        BY <2>1, <3>1, <3>2 DEF Prune, Covered
    <2>2. QED
      BY <2>1, <1>4 DEF CoveredInv
  <1>7. QED
    BY <1>1, <1>2, <1>3, <1>5, <1>6 DEF IInv

LEMMA SkipNodeIInv ==
    ASSUME IInv, SkipNode
    PROVE  IInv'
  <1>1. Findable' /\ SomeRoom' /\ InOrder' /\ Ids' = Ids
    BY SameTables DEF SkipNode
  <1>2. TypeOK'
    BY <1>1 DEF IInv, TypeOK, SkipNode
  <1>3. TablesAgree' /\ AllActive' /\ SparedInv'
    <2>1. TablesAgree' /\ AllActive'
      BY DEF IInv, TablesAgree, AllActive, SkipNode
    <2>2. SparedInv'
      BY SparedFrom DEF IInv, SparedInv, SkipNode
    <2>3. QED
      BY <2>1, <2>2
  <1>4. CoveredInv'
    <2> DEFINE n == NextEntry(side)
    <2>1. n \in todo /\ side \in Tables /\ edges[n][side] \in Int
      BY NextEntryFacts, EdgeFacts DEF IInv, TypeOK, SkipNode
    <2>2. n \in full[side] => HasPartner(side, n)
      <3> SUFFICES ASSUME n \in full[side]
                   PROVE  HasPartner(side, n)
        OBVIOUS
      <3>1. Active(side, edges[n][side]) # {}
        BY <2>1, ActiveFacts
      <3>2. Active(side, Partner(edges[n][side])) # {}
        BY <3>1 DEF SkipNode, hasSingleActive, NextNode
      <3>3. QED
        BY <2>1, <3>2, ActiveFacts DEF HasPartner
    <2> HIDE DEF n
    <2>3. ASSUME NEW t \in clean, NEW i \in full[t]
          PROVE  Covered(t, i)'
      <3>1. Covered(t, i)
        BY DEF IInv, CoveredInv, SkipNode
      <3>2. HasPartner(t, i) => Covered(t, i)'
        BY DEF HasPartner, Covered, SkipNode
      <3>3. t = side /\ i \in todo /\ i # n => Covered(t, i)'
        BY DEF Covered, SkipNode, n
      <3>4. t = side /\ i = n => HasPartner(t, i)
        BY <2>2, <2>3
      <3>5. NothingToPop /\ t \in Tables
        BY DEF IInv, TypeOK, CoveredInv, SkipNode
      <3>6. QED
        BY <3>1, <3>2, <3>3, <3>4, <3>5 DEF Covered, NothingToPop, SkipNode
    <2>4. QED
      BY <2>3 DEF IInv, CoveredInv, NothingToPop, SkipNode
  <1>5. QED
    BY <1>1, <1>2, <1>3, <1>4 DEF IInv

LEMMA StartRemoveIInv ==
    ASSUME IInv, StartRemove
    PROVE  IInv'
  <1>1. Findable' /\ SomeRoom' /\ InOrder' /\ Ids' = Ids
    BY SameTables DEF StartRemove
  <1> DEFINE n == NextEntry(side)
             k == NextNode(side)
  <1>2. side \in Tables /\ n \in todo /\ k \in Nodes /\ k = edges[n][side]
    BY NextEntryFacts DEF IInv, TypeOK, StartRemove, NextNode
  <1>3. task' = [table |-> side, node |-> k] /\ hasSingleActive(side, k) /\ pc' = "remove"
    BY DEF StartRemove
  <1>4. todo' = todo \ {n} /\ pc = "scan"
    BY DEF StartRemove
  <1> HIDE DEF n, k
  <1>5. TypeOK'
    <2>1. task' \in [table : Tables, node : Nodes] /\ todo' \in SUBSET Ids'
      BY <1>1, <1>2, <1>3, <1>4 DEF IInv, TypeOK
    <2>2. QED
      BY <1>1, <1>3, <2>1 DEF IInv, TypeOK, StartRemove
  <1>6. TablesAgree' /\ AllActive'
    BY DEF IInv, TablesAgree, AllActive, StartRemove
  <1>7. ASSUME NEW S \in SUBSET Ids, NoDeadEnds(S)
        PROVE  S \subseteq full["u"] /\ Spared(S, side, k)
    <2>1. S \subseteq full["u"] /\ S \subseteq full[side]
      BY <1>2, <1>4, <1>7 DEF IInv, SparedInv, TablesAgree, Tables
    <2>2. ASSUME NEW i \in S, Pair(edges[i][side]) = Pair(k)
          PROVE  FALSE
      <3>1. (\E j \in S : edges[j][side] = k) /\ (\E j \in S : edges[j][side] = Partner(k))
        BY <1>2, <1>7, <2>2, BothNodes DEF IInv
      <3>2. Active(side, k) # {} /\ Active(side, Partner(k)) # {}
        BY <1>2, <2>1, <3>1, ActiveFacts
      <3>3. QED
        BY <1>3, <3>2 DEF hasSingleActive
    <2>3. QED
      BY <2>1, <2>2 DEF Spared
  <1>8. SparedInv'
    <2> SUFFICES ASSUME NEW S \in SUBSET Ids, NoDeadEnds(S)
                 PROVE  /\ S \subseteq full'["u"]
                        /\ Spared(S, task'.table, task'.node)
                        /\ \A t \in Tables : \A m \in 1 .. Len(stack'[t]) : Spared(S, t, stack'[t][m])
      BY SparedFrom DEF StartRemove
    <2>1. Spared(S, task'.table, task'.node)
      BY <1>3, <1>7
    <2>2. \A t \in Tables : stack'[t] = <<>>
      BY DEF IInv, CoveredInv, NothingToPop, StartRemove
    <2>3. QED
      BY <1>7, <2>1, <2>2 DEF StartRemove
  <1>9. CoveredInv'
    <2>1. ASSUME NEW t \in clean, NEW i \in full[t]
          PROVE  Covered(t, i)'
      <3>1. Covered(t, i) /\ pc = "scan"
        BY DEF IInv, CoveredInv, StartRemove
      <3>2. HasPartner(t, i) => Covered(t, i)'
        BY DEF HasPartner, Covered, StartRemove
      <3>3. t = side /\ i \in todo /\ i # n => Covered(t, i)'
        BY <1>4 DEF Covered, StartRemove
      <3>4. t = side /\ i = n => Covered(t, i)'
        BY <1>2, <1>3 DEF Covered, StartRemove
      <3>5. NothingToPop /\ t \in Tables
        BY DEF IInv, TypeOK, CoveredInv, StartRemove
      <3>6. QED
        BY <3>1, <3>2, <3>3, <3>4, <3>5 DEF Covered, NothingToPop
    <2>2. QED
      BY <1>3, <2>1 DEF CoveredInv, StartRemove
  <1>10. QED
    BY <1>1, <1>5, <1>6, <1>8, <1>9 DEF IInv

LEMMA PopDeactivatedIInv ==
    ASSUME IInv, NEW t \in Tables, PopDeactivated(t)
    PROVE  IInv'
  <1>1. Findable' /\ SomeRoom' /\ InOrder' /\ Ids' = Ids
    BY SameTables DEF PopDeactivated
  <1> DEFINE l == Len(stack[t])
             k == stack[t][l]
  <1>2. /\ stack[t] \in Seq(Nodes) /\ l \in Nat /\ l >= 1 /\ l \in 1 .. l /\ k \in Nodes
    BY StackFacts DEF IInv, PopDeactivated, MayPop
  <1>3. /\ stack'[t] \in Seq(Nodes) /\ Len(stack'[t]) = l - 1
        /\ \A m \in 1 .. l - 1 : stack'[t][m] = stack[t][m]
    <2>1. stack'[t] = SubSeq(stack[t], 1, l - 1)
      BY DEF IInv, TypeOK, PopDeactivated
    <2>2. QED
      BY <1>2, <2>1
  <1>4. \A x \in Tables : x # t => stack'[x] = stack[x]
    BY DEF IInv, TypeOK, PopDeactivated
  <1>5. task' = [table |-> t, node |-> k] /\ pc = "remove" /\ pc' = "remove" /\ Doomed = {}
    BY DEF PopDeactivated
  <1>6. TypeOK'
    <2>1. stack' \in [Tables -> Seq(Nodes)]
      BY <1>2, <1>3 DEF IInv, TypeOK, PopDeactivated
    <2>2. task' \in [table : Tables, node : Nodes]
      BY <1>2, <1>5
    <2>3. QED
      BY <1>1, <2>1, <2>2 DEF IInv, TypeOK, PopDeactivated
  <1>7. TablesAgree' /\ AllActive'
    BY DEF IInv, TablesAgree, AllActive, PopDeactivated
  <1> HIDE DEF l, k
  <1>8. SparedInv'
    <2> SUFFICES ASSUME NEW S \in SUBSET Ids, NoDeadEnds(S)
                 PROVE  /\ S \subseteq full["u"]
                        /\ Spared(S, t, k)
                        /\ \A x \in Tables : \A m \in 1 .. Len(stack'[x]) : Spared(S, x, stack'[x][m])
      BY <1>5, SparedFrom DEF PopDeactivated
    <2>1. /\ S \subseteq full["u"]
          /\ \A x \in Tables : \A m \in 1 .. Len(stack[x]) : Spared(S, x, stack[x][m])
      BY <1>5 DEF IInv, SparedInv
    <2>2. Spared(S, t, k)
      BY <1>2, <2>1 DEF l, k
    <2>3. ASSUME NEW m \in 1 .. Len(stack'[t])
          PROVE  Spared(S, t, stack'[t][m])
      BY <1>2, <1>3, <2>1 DEF l
    <2>4. QED
      BY <1>4, <2>1, <2>2, <2>3
  <1>9. CoveredInv'
    <2> SUFFICES ASSUME NEW x \in clean, NEW i \in full[x]
                 PROVE  Covered(x, i)'
      BY <1>5 DEF CoveredInv, PopDeactivated
    <2>1. Covered(x, i) /\ x \in Tables
      BY <1>5 DEF IInv, TypeOK, CoveredInv
    <2>2. ~(x = task.table /\ Pair(edges[i][x]) = Pair(task.node))
      BY <1>5, <2>1, ActiveFacts DEF Doomed
    <2>3. HasPartner(x, i) => HasPartner(x, i)'
      BY DEF HasPartner, PopDeactivated
    <2>4. x = side /\ i \in todo => Covered(x, i)'
      BY DEF Covered, PopDeactivated
    <2>5. ASSUME NEW m \in 1 .. Len(stack[x]), Pair(edges[i][x]) = Pair(stack[x][m])
          PROVE  Covered(x, i)'
      <3>1. CASE x # t
        BY <3>1, <2>1, <2>5, <1>4 DEF Covered, PopDeactivated
      <3>2. CASE x = t /\ m = l
        BY <3>2, <2>5, <1>5 DEF Covered, PopDeactivated, k
      <3>3. CASE x = t /\ m # l
        <4>1. m \in 1 .. Len(stack'[x]) /\ stack'[x][m] = stack[x][m]
          BY <3>3, <1>2, <1>3 DEF l
        <4>2. QED
          BY <4>1, <2>5 DEF Covered, PopDeactivated
      <3>4. QED
        BY <3>1, <3>2, <3>3
    <2>6. QED
      BY <2>1, <2>2, <2>3, <2>4, <2>5 DEF Covered
  <1>10. QED
    BY <1>1, <1>6, <1>7, <1>8, <1>9 DEF IInv

LEMMA RemoveReturnsIInv ==
    ASSUME IInv, RemoveReturns
    PROVE  IInv'
  <1>1. Findable' /\ SomeRoom' /\ InOrder' /\ Ids' = Ids
    BY SameTables DEF RemoveReturns
  <1>2. TypeOK'
    BY <1>1 DEF IInv, TypeOK, RemoveReturns
  <1>3. TablesAgree' /\ AllActive'
    BY DEF IInv, TablesAgree, AllActive, RemoveReturns
  <1>4. SparedInv'
    BY SparedFrom DEF IInv, SparedInv, RemoveReturns
  <1>5. CoveredInv'
    <2>1. ASSUME NEW x \in clean, NEW i \in full[x]
          PROVE  Covered(x, i)'
      <3>1. Covered(x, i) /\ x \in Tables
        BY DEF IInv, TypeOK, CoveredInv, RemoveReturns
      <3>2. ~(x = task.table /\ Pair(edges[i][x]) = Pair(task.node))
        BY <3>1, ActiveFacts DEF Doomed, RemoveReturns
      <3>3. HasPartner(x, i) => HasPartner(x, i)'
        BY DEF HasPartner, RemoveReturns
      <3>4. QED
        BY <3>1, <3>2, <3>3 DEF Covered, NothingToPop, RemoveReturns
    <2>2. QED
      BY <2>1 DEF CoveredInv, NothingToPop, RemoveReturns
  <1>6. QED
    BY <1>1, <1>2, <1>3, <1>4, <1>5 DEF IInv
LEMMA AppendFacts ==
    ASSUME NEW q \in Seq(Nodes), NEW k \in Nodes
    PROVE  /\ q \o <<k>> \in Seq(Nodes) /\ q \o <<>> = q
           /\ Len(q) \in Nat /\ Len(q \o <<k>>) = Len(q) + 1
           /\ (q \o <<k>>)[Len(q) + 1] = k
           /\ \A n \in 1 .. Len(q) : (q \o <<k>>)[n] = q[n]
  OBVIOUS

LEMMA RemoveEdgeIInv ==
    ASSUME IInv, RemoveEdge
    PROVE  IInv'
  <1> DEFINE t == task.table
             r == Reverse(t)
             i == First(t, Doomed)
             v == edges[i][r]
  <1>1. Findable' /\ SomeRoom' /\ InOrder' /\ Ids' = Ids
    BY SameTables DEF RemoveEdge
  <1>2. /\ t \in Tables /\ r \in Tables /\ r # t
        /\ \A x \in Tables : x = t \/ x = r
    BY ReverseFacts DEF IInv, TypeOK
  <1>3. Twin(t, i) = {i} /\ i \in Doomed
    BY <1>2, TwinIsSame DEF Doomed, RemoveEdge
  <1>4. i \in full[t] /\ i \in Ids /\ Pair(edges[i][t]) = Pair(task.node)
    BY <1>2, <1>3, ActiveFacts DEF Doomed
  <1>5. v \in Nodes /\ v \in Int
    BY <1>2, <1>4, EdgeFacts DEF IInv
  <1>6. full' = [x \in Tables |-> full[x] \ {i}]
    BY <1>2, <1>3 DEF RemoveEdge
  <1>7. stack' = [stack EXCEPT ![r] = stack[r] \o Deactivated(t, i)]
    BY DEF RemoveEdge
  <1>8. \/ Deactivated(t, i) = <<>> /\ (pc = "erase" \/ Active(r, v) \ {i} # {})
        \/ Deactivated(t, i) = <<v>> /\ pc # "erase" /\ Active(r, v) \ {i} = {}
    BY <1>3 DEF Deactivated, StillActive
  <1>9. UNCHANGED <<pc, edges, side, todo, task, clean>> /\ pc \in {"remove", "erase"}
    BY DEF RemoveEdge
  <1> HIDE DEF i, r, t
  <1>10. /\ stack \in [Tables -> Seq(Nodes)] /\ stack[r] \in Seq(Nodes)
         /\ stack'[t] = stack[t]
         /\ stack'[r] = stack[r] \o Deactivated(t, i)
    BY <1>2, <1>7 DEF IInv, TypeOK
  <1>11. TypeOK'
    <2>1. stack' \in [Tables -> Seq(Nodes)]
      BY <1>2, <1>5, <1>7, <1>8, <1>10, AppendFacts
    <2>2. full' \in [Tables -> SUBSET Ids']
      BY <1>1, <1>6 DEF IInv, TypeOK
    <2>3. QED
      BY <1>1, <1>9, <2>1, <2>2 DEF IInv, TypeOK, RemoveEdge
  <1>12. TablesAgree' /\ AllActive'
    BY <1>6, <1>9 DEF IInv, TablesAgree, AllActive, Tables
  <1>13. SparedInv'
    <2>1. CASE pc = "erase"
      BY <2>1, <1>9 DEF SparedInv
    <2>2. CASE pc = "remove"
      <3> SUFFICES ASSUME NEW S \in SUBSET Ids, NoDeadEnds(S)
                   PROVE  /\ S \subseteq full'["u"]
                          /\ Spared(S, task.table, task.node)
                          /\ \A x \in Tables : \A m \in 1 .. Len(stack'[x]) : Spared(S, x, stack'[x][m])
        BY <1>9, SparedFrom
      <3>1. /\ S \subseteq full["u"] /\ S \subseteq full["v"]
            /\ Spared(S, task.table, task.node)
            /\ \A x \in Tables : \A m \in 1 .. Len(stack[x]) : Spared(S, x, stack[x][m])
        BY <2>2 DEF IInv, SparedInv, TablesAgree
      <3>2. i \notin S
        BY <3>1, <1>4 DEF Spared, t
      <3>3. S \subseteq full'["u"]
        BY <3>1, <3>2, <1>6 DEF Tables
      <3>4. ASSUME NEW m \in 1 .. Len(stack'[r])
            PROVE  Spared(S, r, stack'[r][m])
        <4>1. CASE Deactivated(t, i) = <<>>
          BY <4>1, <3>1, <1>2, <1>5, <1>10, AppendFacts
        <4>2. CASE Deactivated(t, i) = <<v>> /\ Active(r, v) \ {i} = {}
          <5>1. Spared(S, r, v)
            <6> SUFFICES ASSUME NEW j \in S, Pair(edges[j][r]) = Pair(v)
                         PROVE  FALSE
              BY DEF Spared
            <6>1. PICK h \in S : edges[h][r] = v
              BY <1>2, <1>5, BothNodes DEF IInv
            <6>2. h \in full[r]
              BY <3>1, <1>2 DEF Tables
            <6>3. h \in Active(r, v) /\ h # i
              BY <6>1, <6>2, <3>2, <1>2, ActiveFacts
            <6>4. QED
              BY <6>3, <4>2
          <5>2. CASE m = Len(stack[r]) + 1
            BY <5>1, <5>2, <4>2, <1>5, <1>10, AppendFacts
          <5>3. CASE m \in 1 .. Len(stack[r])
            BY <5>3, <4>2, <3>1, <1>2, <1>5, <1>10, AppendFacts
          <5>4. QED
            BY <5>2, <5>3, <4>2, <1>5, <1>10, AppendFacts
        <4>3. QED
          BY <4>1, <4>2, <1>8
      <3>5. QED
        BY <3>1, <3>3, <3>4, <1>2, <1>10
    <2>3. QED
      BY <2>1, <2>2, <1>9
  <1>14. CoveredInv'
    <2>1. CASE pc = "erase"
      <3>1. stack'[r] = stack[r]
        BY <2>1, <1>5, <1>8, <1>10, AppendFacts
      <3>2. \A x \in Tables : stack'[x] = stack[x]
        BY <3>1, <1>2, <1>10
      <3>3. QED
        BY <2>1, <3>2, <1>9 DEF IInv, CoveredInv, NothingToPop
    <2>2. CASE pc = "remove"
      <3>1. ASSUME NEW x \in Tables, NEW m \in 1 .. Len(stack[x])
            PROVE  m \in 1 .. Len(stack'[x]) /\ stack'[x][m] = stack[x][m]
        <4>1. CASE x = t
          BY <4>1, <3>1, <1>10
        <4>2. CASE x = r
          BY <4>2, <3>1, <1>5, <1>8, <1>10, AppendFacts
        <4>3. QED
          BY <4>1, <4>2, <1>2
      <3>2. ASSUME NEW x \in clean, NEW j \in full'[x]
            PROVE  Covered(x, j)'
        <4>1. x \in Tables /\ j \in full[x] /\ j # i /\ j \in Ids /\ Covered(x, j)
          BY <2>2, <1>6 DEF IInv, TypeOK, CoveredInv
        <4>2. CASE HasPartner(x, j)
          <5>1. PICK h \in full[x] : edges[h][x] = Partner(edges[j][x])
            BY <4>2 DEF HasPartner
          <5>2. CASE h # i
            BY <5>1, <5>2, <4>1, <1>6, <1>9 DEF Covered, HasPartner
          <5>3. CASE h = i
            <6>1. edges[j][x] \in Int /\ edges[i][x] \in Int
              BY <4>1, <1>4, EdgeFacts DEF IInv
            <6>2. Pair(edges[i][x]) = Pair(edges[j][x]) /\ edges[i][x] = Partner(edges[j][x])
              BY <5>1, <5>3, <6>1, PartnerOf
            <6>3. CASE x = t
              BY <6>2, <6>3, <1>4, <1>9, <2>2 DEF Covered, t
            <6>4. CASE x = r /\ Active(r, v) \ {i} # {}
              <7>1. PICK g \in Active(r, v) : g # i
                BY <6>4
              <7>2. g \in full'[x] /\ edges[g][x] = Partner(edges[j][x])
                BY <7>1, <6>2, <6>4, <4>1, <1>2, <1>6, ActiveFacts
              <7>3. QED
                BY <7>2, <1>9 DEF Covered, HasPartner
            <6>5. CASE x = r /\ Deactivated(t, i) = <<v>>
              <7>1. /\ Len(stack[r]) + 1 \in 1 .. Len(stack'[x])
                    /\ stack'[x][Len(stack[r]) + 1] = v
                BY <6>5, <1>5, <1>10, AppendFacts
              <7>2. Pair(edges[j][x]) = Pair(stack'[x][Len(stack[r]) + 1])
                BY <7>1, <6>2, <6>5
              <7>3. QED
                BY <7>1, <7>2, <1>9 DEF Covered
            <6>6. QED
              BY <6>3, <6>4, <6>5, <4>1, <1>2, <1>8, <2>2
          <5>4. QED
            BY <5>2, <5>3
        <4>3. CASE \E m \in 1 .. Len(stack[x]) : Pair(edges[j][x]) = Pair(stack[x][m])
          <5>1. PICK m \in 1 .. Len(stack[x]) : Pair(edges[j][x]) = Pair(stack[x][m])
            BY <4>3
          <5>2. m \in 1 .. Len(stack'[x]) /\ stack'[x][m] = stack[x][m]
            BY <3>1, <4>1
          <5>3. QED
            BY <5>1, <5>2, <1>9 DEF Covered
        <4>4. CASE x = side /\ j \in todo
          BY <4>4, <1>9 DEF Covered
        <4>5. CASE pc = "remove" /\ x = task.table /\ Pair(edges[j][x]) = Pair(task.node)
          BY <4>5, <1>9 DEF Covered
        <4>6. QED
          BY <4>1, <4>2, <4>3, <4>4, <4>5 DEF Covered
      <3>3. QED
        BY <3>2, <2>2, <1>9 DEF CoveredInv
    <2>3. QED
      BY <2>1, <2>2, <1>9
  <1>15. QED
    BY <1>1, <1>11, <1>12, <1>13, <1>14 DEF IInv

-----------------------------------------------------------------------------
(* The search for cycles uses nothing of what pruning has left, so all     *)
(* that has to be seen is that it keeps types and tables.                  *)
LEMMA SearchIInv ==
    ASSUME IInv,
           UNCHANGED <<edges, insertions, away, full, side, stack, clean>>,
           pc # "remove", pc' \in {"search", "erase", "done"},
           todo' \in SUBSET Ids, task' \in [table : Tables, node : Nodes]
    PROVE  IInv'
  <1>1. Findable' /\ SomeRoom' /\ InOrder' /\ Ids' = Ids
    BY SameTables
  <1>2. TypeOK'
    BY <1>1 DEF IInv, TypeOK
  <1>3. TablesAgree' /\ AllActive' /\ SparedInv' /\ CoveredInv'
    BY DEF IInv, TablesAgree, AllActive, SparedInv, CoveredInv, NothingToPop
  <1>4. QED
    BY <1>1, <1>2, <1>3 DEF IInv

LEMMA StutterIInv ==
    ASSUME IInv, UNCHANGED vars
    PROVE  IInv'
  <1>1. Findable' /\ SomeRoom' /\ InOrder' /\ Ids' = Ids
    BY SameTables DEF vars
  <1>2. TypeOK' /\ TablesAgree' /\ AllActive'
    BY <1>1 DEF IInv, TypeOK, TablesAgree, AllActive, vars
  <1>3. SparedInv'
    BY SparedFrom DEF IInv, SparedInv, vars
  <1>4. CoveredInv'
    BY DEF IInv, CoveredInv, Covered, HasPartner, NothingToPop, vars
  <1>5. QED
    BY <1>1, <1>2, <1>3, <1>4 DEF IInv

LEMMA NextIInv == IInv /\ [Next]_vars => IInv'
  <1> SUFFICES ASSUME IInv, [Next]_vars
               PROVE  IInv'
    OBVIOUS
  <1>1. ASSUME NEW e \in Edges, AddEdge(e) PROVE IInv'
    BY <1>1, AddEdgeIInv
  <1>2. ASSUME NEW t \in Tables, Prune(t) PROVE IInv'
    BY <1>2, PruneIInv
  <1>3. ASSUME NEW t \in Tables, PopDeactivated(t) PROVE IInv'
    BY <1>3, PopDeactivatedIInv
  <1>4. CASE SkipNode \/ StartRemove \/ RemoveEdge \/ RemoveReturns
    BY <1>4, SkipNodeIInv, StartRemoveIInv, RemoveEdgeIInv, RemoveReturnsIInv
  <1>5. CASE findCycles
    <2>1. todo' \in SUBSET Ids /\ task' \in [table : Tables, node : Nodes]
      BY <1>5 DEF findCycles, IInv, TypeOK
    <2>2. QED
      BY <1>5, <2>1, SearchIInv DEF findCycles
  <1>6. CASE AppendFromU
    <2>1. NextNode("u") \in Nodes /\ todo \in SUBSET Ids
      BY <1>6, NextEntryFacts DEF AppendFromU, IInv, TypeOK, Tables
    <2>2. todo' \in SUBSET Ids /\ task' \in [table : Tables, node : Nodes]
      BY <1>6, <2>1 DEF AppendFromU, Tables
    <2>3. QED
      BY <1>6, <2>2, SearchIInv DEF AppendFromU
  <1>7. CASE EraseReturns \/ CyclesReturned
    <2>1. todo' \in SUBSET Ids /\ task' \in [table : Tables, node : Nodes]
      BY <1>7 DEF EraseReturns, CyclesReturned, IInv, TypeOK
    <2>2. QED
      BY <1>7, <2>1, SearchIInv DEF EraseReturns, CyclesReturned
  <1>8. CASE Done \/ UNCHANGED vars
    BY <1>8, StutterIInv DEF Done
  <1>9. QED
    BY <1>1, <1>2, <1>3, <1>4, <1>5, <1>6, <1>7, <1>8 DEF Next

(* Every step of building, pruning and searching keeps the tables          *)
(* consistent, finds every entry and keeps track of all dead ends.         *)
THEOREM InductiveInvariant == Spec => []IInv
  BY InitIInv, NextIInv, PTL DEF Spec

(* Pruning never removes an edge of a cycle, whatever its length.          *)
THEOREM NoCycleIsLost == Spec => []CyclesSurvive
  <1>1. IInv => CyclesSurvive
    BY DEF IInv, SparedInv, CyclesSurvive
  <1>2. QED
    BY <1>1, InductiveInvariant, PTL

(* What prune leaves has no dead end at the side it began with, nor at one *)
(* that had none.                                                          *)
THEOREM PruneLeavesNoDeadEnd == Spec => []PruneIsComplete
  <1>1. IInv => PruneIsComplete
    <2> SUFFICES ASSUME IInv, pc = "scan", todo = {}, NEW t \in clean, NEW i \in full[t]
                 PROVE  HasPartner(t, i)
      BY DEF PruneIsComplete
    <2>1. Covered(t, i) /\ NothingToPop /\ t \in Tables
      BY DEF IInv, TypeOK, CoveredInv
    <2>2. QED
      BY <2>1 DEF Covered, NothingToPop
  <1>2. QED
    BY <1>1, InductiveInvariant, PTL

-----------------------------------------------------------------------------
(* The search. A closed walk can be begun at any of its edges: forwards    *)
(* from those the search comes to from u, backwards from the others.       *)

LEMMA LengthFacts ==
    /\ CycleLength \in Nat /\ CycleLength >= 2 /\ CycleLength % 2 = 0
    /\ 1 \in 1 .. CycleLength /\ CycleLength \in 1 .. CycleLength
  BY CuckatooGraphAssumption, CuckatooSolverAssumption
  DEF CuckatooGraphAssumption, CuckatooSolverAssumption

LEMMA WalkFacts ==
    ASSUME TypeOK, NEW w \in ClosedWalks
    PROVE  /\ \A n \in 1 .. CycleLength : w[n] \in Ids
           /\ \A n \in 1 .. CycleLength : \A t \in Tables : edges[w[n]][t] \in Int
           /\ \A n \in 2 .. CycleLength :
                 /\ edges[w[n]][SideAt(n)] = Partner(edges[w[n - 1]][SideAt(n)])
                 /\ edges[w[n - 1]][SideAt(n)] = Partner(edges[w[n]][SideAt(n)])
           /\ edges[w[CycleLength]]["u"] = Partner(edges[w[1]]["u"])
           /\ edges[w[1]]["u"] = Partner(edges[w[CycleLength]]["u"])
           /\ EdgesOn(w) \subseteq Ids
  <1>1. /\ w \in [1 .. CycleLength -> Ids] /\ Closes(w)
        /\ \A n \in 2 .. CycleLength :
               edges[w[n]][SideAt(n)] = Partner(edges[w[n - 1]][SideAt(n)])
    BY DEF ClosedWalks
  <1>2. \A n \in 1 .. CycleLength : w[n] \in Ids /\ \A t \in Tables : edges[w[n]][t] \in Int
    BY <1>1, EdgeFacts
  <1>3. \A n \in 2 .. CycleLength : n - 1 \in 1 .. CycleLength /\ SideAt(n) \in Tables
    BY LengthFacts DEF SideAt, Tables
  <1>4. \A n \in 2 .. CycleLength :
            edges[w[n - 1]][SideAt(n)] = Partner(edges[w[n]][SideAt(n)])
    BY <1>1, <1>2, <1>3, PartnerOf
  <1>5. /\ edges[w[CycleLength]]["u"] = Partner(edges[w[1]]["u"])
        /\ edges[w[1]]["u"] = Partner(edges[w[CycleLength]]["u"])
    BY <1>1, <1>2, LengthFacts, PartnerOf DEF Closes, Tables
  <1>6. QED
    BY <1>1, <1>2, <1>4, <1>5 DEF EdgesOn

(* The edges of a closed walk are never pruned.                            *)
LEMMA WalkHasNoDeadEnds ==
    ASSUME TypeOK, NEW w \in ClosedWalks
    PROVE  NoDeadEnds(EdgesOn(w))
  <1> SUFFICES ASSUME NEW n \in 1 .. CycleLength, NEW t \in Tables
               PROVE  \E m \in 1 .. CycleLength : edges[w[m]][t] = Partner(edges[w[n]][t])
    BY DEF NoDeadEnds, EdgesOn
  <1>1. CASE n > 1 /\ t = SideAt(n)
    BY <1>1, WalkFacts, LengthFacts
  <1>2. CASE n = 1 /\ t = SideAt(n)
    BY <1>2, WalkFacts, LengthFacts DEF SideAt
  <1>3. CASE n < CycleLength /\ t # SideAt(n)
    <2>1. n + 1 \in 2 .. CycleLength /\ n + 1 \in 1 .. CycleLength /\ t = SideAt(n + 1)
      BY <1>3, LengthFacts DEF SideAt, Tables
    <2>2. edges[w[n + 1]][SideAt(n + 1)] = Partner(edges[w[(n + 1) - 1]][SideAt(n + 1)])
      BY <2>1, WalkFacts
    <2>3. QED
      BY <2>1, <2>2
  <1>4. CASE n = CycleLength /\ t # SideAt(n)
    <2>1. t = "u"
      BY <1>4, LengthFacts DEF SideAt, Tables
    <2>2. QED
      BY <1>4, <2>1, WalkFacts, LengthFacts
  <1>5. QED
    BY <1>1, <1>2, <1>3, <1>4, LengthFacts

LEMMA BeginForwards ==
    ASSUME TypeOK, NEW w \in ClosedWalks, NEW j \in 1 .. CycleLength, j % 2 = 1
    PROVE  \E x \in ClosedWalks : x[1] = w[j] /\ EdgesOn(x) = EdgesOn(w)
  <1> DEFINE at(n) == IF j + n - 1 <= CycleLength THEN j + n - 1 ELSE j + n - 1 - CycleLength
             x == [n \in 1 .. CycleLength |-> w[at(n)]]
  <1>1. /\ \A n \in 1 .. CycleLength : at(n) \in 1 .. CycleLength
        /\ \A n \in 1 .. CycleLength : at(n) % 2 = n % 2
        /\ at(1) = j
    BY LengthFacts
  <1>2. \A n \in 2 .. CycleLength :
            \/ at(n) = at(n - 1) + 1 /\ at(n) \in 2 .. CycleLength
            \/ at(n) = 1 /\ at(n - 1) = CycleLength
    BY LengthFacts
  <1>3. \/ at(CycleLength) = j - 1 /\ j \in 2 .. CycleLength
        \/ at(CycleLength) = CycleLength /\ j = 1
    BY LengthFacts
  <1>4. \A m \in 1 .. CycleLength : \E n \in 1 .. CycleLength : at(n) = m
    <2> SUFFICES ASSUME NEW m \in 1 .. CycleLength
                 PROVE  \E n \in 1 .. CycleLength : at(n) = m
      OBVIOUS
    <2>1. CASE m >= j
      <3>1. m - j + 1 \in 1 .. CycleLength /\ at(m - j + 1) = m
        BY <2>1, LengthFacts
      <3>2. QED
        BY <3>1
    <2>2. CASE m < j
      <3>1. m - j + 1 + CycleLength \in 1 .. CycleLength /\ at(m - j + 1 + CycleLength) = m
        BY <2>2, LengthFacts
      <3>2. QED
        BY <3>1
    <2>3. QED
      BY <2>1, <2>2
  <1> HIDE DEF at
  <1>5. x \in [1 .. CycleLength -> Ids]
    BY <1>1, WalkFacts
  <1>6. ASSUME NEW n \in 2 .. CycleLength
        PROVE  edges[x[n]][SideAt(n)] = Partner(edges[x[n - 1]][SideAt(n)])
    <2>1. n \in 1 .. CycleLength /\ n - 1 \in 1 .. CycleLength
      BY LengthFacts
    <2>2. x[n] = w[at(n)] /\ x[n - 1] = w[at(n - 1)] /\ SideAt(n) = SideAt(at(n))
      BY <2>1, <1>1 DEF SideAt
    <2>3. CASE at(n) = at(n - 1) + 1 /\ at(n) \in 2 .. CycleLength
      <3>1. at(n) - 1 = at(n - 1)
        BY <2>1, <2>3, <1>1
      <3>2. QED
        BY <2>2, <2>3, <3>1, WalkFacts
    <2>4. CASE at(n) = 1 /\ at(n - 1) = CycleLength
      <3>1. SideAt(n) = "u"
        BY <2>2, <2>4 DEF SideAt
      <3>2. QED
        BY <2>2, <2>4, <3>1, WalkFacts
    <2>5. QED
      BY <1>2, <2>3, <2>4
  <1>7. Closes(x)
    <2>1. x[CycleLength] = w[at(CycleLength)] /\ x[1] = w[j]
      BY <1>1, LengthFacts
    <2>2. CASE at(CycleLength) = j - 1 /\ j \in 2 .. CycleLength
      <3>1. SideAt(j) = "u"
        BY DEF SideAt
      <3>2. QED
        BY <2>1, <2>2, <3>1, WalkFacts DEF Closes
    <2>3. CASE at(CycleLength) = CycleLength /\ j = 1
      BY <2>1, <2>3, WalkFacts DEF Closes
    <2>4. QED
      BY <1>3, <2>2, <2>3
  <1>8. EdgesOn(x) = EdgesOn(w)
    BY <1>1, <1>4 DEF EdgesOn
  <1>9. x \in ClosedWalks /\ x[1] = w[j]
    BY <1>1, <1>5, <1>6, <1>7, LengthFacts DEF ClosedWalks
  <1>10. QED
    BY <1>8, <1>9

LEMMA BeginBackwards ==
    ASSUME TypeOK, NEW w \in ClosedWalks, NEW j \in 1 .. CycleLength, j % 2 = 0
    PROVE  \E x \in ClosedWalks : x[1] = w[j] /\ EdgesOn(x) = EdgesOn(w)
  <1> DEFINE at(n) == IF n <= j THEN j - n + 1 ELSE j - n + 1 + CycleLength
             x == [n \in 1 .. CycleLength |-> w[at(n)]]
  <1>1. /\ \A n \in 1 .. CycleLength : at(n) \in 1 .. CycleLength
        /\ \A n \in 1 .. CycleLength : at(n) % 2 # n % 2
        /\ at(1) = j
    BY LengthFacts
  <1>2. \A n \in 2 .. CycleLength :
            \/ at(n - 1) = at(n) + 1 /\ at(n - 1) \in 2 .. CycleLength
            \/ at(n - 1) = 1 /\ at(n) = CycleLength
    BY LengthFacts
  <1>3. \/ at(CycleLength) = j + 1 /\ j + 1 \in 2 .. CycleLength
        \/ at(CycleLength) = 1 /\ j = CycleLength
    BY LengthFacts
  <1>4. \A m \in 1 .. CycleLength : \E n \in 1 .. CycleLength : at(n) = m
    <2> SUFFICES ASSUME NEW m \in 1 .. CycleLength
                 PROVE  \E n \in 1 .. CycleLength : at(n) = m
      OBVIOUS
    <2>1. CASE m <= j
      <3>1. j - m + 1 \in 1 .. CycleLength /\ at(j - m + 1) = m
        BY <2>1, LengthFacts
      <3>2. QED
        BY <3>1
    <2>2. CASE m > j
      <3>1. j - m + 1 + CycleLength \in 1 .. CycleLength /\ at(j - m + 1 + CycleLength) = m
        BY <2>2, LengthFacts
      <3>2. QED
        BY <3>1
    <2>3. QED
      BY <2>1, <2>2
  <1> HIDE DEF at
  <1>5. x \in [1 .. CycleLength -> Ids]
    BY <1>1, WalkFacts
  <1>6. ASSUME NEW n \in 2 .. CycleLength
        PROVE  edges[x[n]][SideAt(n)] = Partner(edges[x[n - 1]][SideAt(n)])
    <2>1. n \in 1 .. CycleLength /\ n - 1 \in 1 .. CycleLength /\ (n - 1) % 2 # n % 2
      BY LengthFacts
    <2>2. /\ x[n] = w[at(n)] /\ x[n - 1] = w[at(n - 1)]
          /\ at(n) \in 1 .. CycleLength /\ at(n - 1) \in 1 .. CycleLength
      BY <2>1, <1>1
    <2>3. SideAt(n) = SideAt(at(n - 1))
      <3>1. at(n - 1) % 2 # (n - 1) % 2
        BY <2>1, <1>1
      <3>2. at(n - 1) % 2 = n % 2
        BY <3>1, <2>1, <2>2
      <3>3. QED
        BY <3>2 DEF SideAt
    <2>4. CASE at(n - 1) = at(n) + 1 /\ at(n - 1) \in 2 .. CycleLength
      <3>1. at(n - 1) - 1 = at(n)
        BY <2>2, <2>4
      <3>2. edges[w[at(n - 1) - 1]][SideAt(at(n - 1))]
                = Partner(edges[w[at(n - 1)]][SideAt(at(n - 1))])
        BY <2>4, WalkFacts
      <3>3. QED
        BY <2>2, <2>3, <3>1, <3>2
    <2>5. CASE at(n - 1) = 1 /\ at(n) = CycleLength
      <3>1. SideAt(n) = "u"
        BY <2>3, <2>5 DEF SideAt
      <3>2. QED
        BY <2>2, <2>5, <3>1, WalkFacts
    <2>6. QED
      BY <1>2, <2>4, <2>5
  <1>7. Closes(x)
    <2>1. x[CycleLength] = w[at(CycleLength)] /\ x[1] = w[j]
      BY <1>1, LengthFacts
    <2>2. CASE at(CycleLength) = j + 1 /\ j + 1 \in 2 .. CycleLength
      <3>1. SideAt(j + 1) = "u"
        BY DEF SideAt
      <3>2. edges[w[j + 1]][SideAt(j + 1)] = Partner(edges[w[(j + 1) - 1]][SideAt(j + 1)])
        BY <2>2, WalkFacts
      <3>3. (j + 1) - 1 = j
        OBVIOUS
      <3>4. QED
        BY <2>1, <2>2, <3>1, <3>2, <3>3 DEF Closes
    <2>3. CASE at(CycleLength) = 1 /\ j = CycleLength
      BY <2>1, <2>3, WalkFacts DEF Closes
    <2>4. QED
      BY <1>3, <2>2, <2>3
  <1>8. EdgesOn(x) = EdgesOn(w)
    BY <1>1, <1>4 DEF EdgesOn
  <1>9. x \in ClosedWalks /\ x[1] = w[j]
    BY <1>1, <1>5, <1>6, <1>7, LengthFacts DEF ClosedWalks
  <1>10. QED
    BY <1>8, <1>9

(* From whichever node of a cycle the search comes to first, it walks      *)
(* round that cycle.                                                       *)
LEMMA VisitFinds ==
    ASSUME IInv, NEW w \in ClosedWalks, EdgesOn(w) \subseteq full["u"],
           NEW k \in Nodes, ~Spared(EdgesOn(w), "u", k)
    PROVE  \E x \in Walks(k) : EdgesOn(x) = EdgesOn(w)
  <1>1. TypeOK /\ "u" \in Tables /\ EdgesOn(w) \subseteq Ids /\ NoDeadEnds(EdgesOn(w))
    BY WalkFacts, WalkHasNoDeadEnds DEF IInv, Tables
  <1>2. PICK i \in EdgesOn(w) : Pair(edges[i]["u"]) = Pair(k)
    BY DEF Spared
  <1>3. PICK i2 \in EdgesOn(w) : edges[i2]["u"] = k
    BY <1>1, <1>2, BothNodes
  <1>4. PICK j \in 1 .. CycleLength : edges[w[j]]["u"] = k
    BY <1>3 DEF EdgesOn
  <1>5. PICK x \in ClosedWalks : x[1] = w[j] /\ EdgesOn(x) = EdgesOn(w)
    <2>1. j % 2 = 0 \/ j % 2 = 1
      OBVIOUS
    <2>2. QED
      BY <1>1, <2>1, BeginForwards, BeginBackwards
  <1>6. /\ x \in [1 .. CycleLength -> Ids] /\ Closes(x)
        /\ \A n \in 2 .. CycleLength :
               edges[x[n]][SideAt(n)] = Partner(edges[x[n - 1]][SideAt(n)])
    BY DEF ClosedWalks
  <1>7. \A n \in 1 .. CycleLength : \A t \in Tables : x[n] \in full[t]
    <2>1. \A n \in 1 .. CycleLength : x[n] \in full["u"]
      BY <1>5 DEF EdgesOn
    <2>2. QED
      BY <2>1 DEF IInv, TablesAgree, Tables
  <1>8. x[1] \in Active("u", k)
    BY <1>1, <1>4, <1>5, <1>7, ActiveFacts, LengthFacts
  <1>9. ASSUME NEW n \in 2 .. CycleLength
        PROVE  x[n] \in Active(SideAt(n), Partner(edges[x[n - 1]][SideAt(n)]))
    <2>1. SideAt(n) \in Tables /\ n \in 1 .. CycleLength
      BY LengthFacts DEF SideAt, Tables
    <2>2. QED
      BY <2>1, <1>6, <1>7, ActiveFacts
  <1>10. x \in [1 .. CycleLength -> full["u"] \cup full["v"]]
    BY <1>6, <1>7 DEF Tables
  <1>11. x \in Walks(k)
    BY <1>6, <1>8, <1>9, <1>10 DEF Walks
  <1>12. QED
    BY <1>5, <1>11

LEMMA SameWalks ==
    ASSUME UNCHANGED edges
    PROVE  /\ ClosedWalks' = ClosedWalks
           /\ \A w : EdgesOn(w)' = EdgesOn(w)
           /\ \A S, k : (\A i \in S : Pair(edges[i]["u"]) # Pair(k)) <=> Spared(S, "u", k)
           /\ \A S, k : Spared(S, "u", k)' <=> Spared(S, "u", k)
  BY DEF ClosedWalks, Closes, Ids, EdgesOn, Spared

LEMMA SearchBegins ==
    ASSUME IInv, findCycles
    PROVE  SearchInv'
  <1>1. UNCHANGED <<edges, full>> /\ pc' = "search" /\ todo' = Ids /\ pc \in {"build", "scan"}
    BY DEF findCycles
  <1>2. ASSUME NEW w \in ClosedWalks
        PROVE  EdgesOn(w) \subseteq full["u"] /\ w[1] \in Ids
    <2>1. EdgesOn(w) \subseteq Ids /\ w[1] \in Ids /\ NoDeadEnds(EdgesOn(w))
      BY WalkFacts, WalkHasNoDeadEnds, LengthFacts DEF IInv
    <2>2. QED
      BY <2>1, <1>1 DEF IInv, AllActive, SparedInv, Tables
  <1>3. QED
    BY <1>1, <1>2, SameWalks DEF SearchInv

LEMMA SearchVisits ==
    ASSUME IInv, SearchInv, AppendFromU
    PROVE  SearchInv'
  <1>1. PICK e \in todo, k \in Nodes :
            /\ e = NextEntry("u") /\ k = NextNode("u") /\ e \in Ids
            /\ k = edges[e]["u"]
    BY NextEntryFacts DEF AppendFromU, NextNode, IInv, Tables
  <1>2. /\ UNCHANGED <<edges, full>> /\ pc = "search" /\ pc' = "erase"
        /\ found' = found \cup Walks(k) /\ todo' = todo \ {e}
        /\ task' = [table |-> "u", node |-> k]
    BY <1>1 DEF AppendFromU
  <1>3. ASSUME NEW w \in ClosedWalks
        PROVE  \/ \E x \in found' : EdgesOn(x) = EdgesOn(w)
               \/ /\ EdgesOn(w) \subseteq full["u"]
                  /\ w[1] \in todo'
                  /\ Spared(EdgesOn(w), "u", k)
    <2>1. CASE IsFound(w)
      BY <2>1, <1>2 DEF IsFound
    <2>2. CASE EdgesOn(w) \subseteq full["u"] /\ w[1] \in todo
      <3>1. CASE Spared(EdgesOn(w), "u", k)
        <4>1. w[1] \in EdgesOn(w)
          BY LengthFacts DEF EdgesOn
        <4>2. w[1] # e
          BY <3>1, <4>1, <1>1 DEF Spared
        <4>3. QED
          BY <2>2, <3>1, <4>2, <1>2
      <3>2. CASE ~Spared(EdgesOn(w), "u", k)
        BY <2>2, <3>2, <1>2, VisitFinds
      <3>3. QED
        BY <3>1, <3>2
    <2>3. QED
      BY <2>1, <2>2, <1>2 DEF SearchInv
  <1>4. task'.table = "u" /\ task'.node = k
    BY <1>2
  <1>5. QED
    BY <1>2, <1>3, <1>4, SameWalks DEF SearchInv, IsFound

LEMMA SearchErases ==
    ASSUME IInv, SearchInv, RemoveEdge, pc = "erase"
    PROVE  SearchInv'
  <1>1. PICK i \in Ids :
            /\ Pair(edges[i]["u"]) = Pair(task.node)
            /\ full' = [x \in Tables |-> full[x] \ {i}]
    <2>1. PICK i : i = First("u", Doomed)
      OBVIOUS
    <2>2. /\ task.table = "u" /\ "u" \in Tables
          /\ Doomed = ActivePair("u", task.node) /\ Doomed # {}
      BY DEF SearchInv, Doomed, RemoveEdge, Tables
    <2>3. Twin("u", i) = {i} /\ i \in Doomed
      BY <2>1, <2>2, TwinIsSame
    <2>4. i \in full["u"] /\ i \in Ids /\ Pair(edges[i]["u"]) = Pair(task.node)
      BY <2>2, <2>3, ActiveFacts
    <2>5. full' = [x \in Tables |-> full[x] \ {i}]
      BY <2>1, <2>2, <2>3 DEF RemoveEdge
    <2>6. QED
      BY <2>4, <2>5
  <1>2. UNCHANGED <<pc, edges, todo, task, found>>
    BY DEF RemoveEdge
  <1>3. ASSUME NEW w \in ClosedWalks
        PROVE  \/ IsFound(w)
               \/ /\ EdgesOn(w) \subseteq full'["u"]
                  /\ w[1] \in todo
                  /\ Spared(EdgesOn(w), "u", task.node)
    BY <1>1 DEF SearchInv, Spared, Tables
  <1>4. QED
    BY <1>2, <1>3, SameWalks DEF SearchInv, IsFound

LEMMA SearchGoesOn ==
    ASSUME SearchInv, UNCHANGED <<edges, full, todo, task, found>>,
           pc \in {"search", "erase", "done"},
           pc' = pc \/ pc' = "search" \/ (pc' = "done" /\ todo = {})
    PROVE  SearchInv'
  BY SameWalks DEF SearchInv, IsFound

LEMMA NextSearchInv == IInv /\ SearchInv /\ [Next]_vars => SearchInv'
  <1> SUFFICES ASSUME IInv, SearchInv, [Next]_vars
               PROVE  SearchInv'
    OBVIOUS
  <1>1. CASE \/ \E e \in Edges : AddEdge(e)
             \/ \E t \in Tables : Prune(t) \/ PopDeactivated(t)
             \/ SkipNode \/ StartRemove \/ RemoveReturns
    <2>1. pc' \in {"build", "scan", "remove"}
      BY <1>1 DEF AddEdge, Prune, PopDeactivated, SkipNode, StartRemove, RemoveReturns
    <2>2. QED
      BY <2>1 DEF SearchInv
  <1>2. CASE RemoveEdge
    <2>1. CASE pc = "erase"
      BY <1>2, <2>1, SearchErases
    <2>2. CASE pc = "remove"
      BY <1>2, <2>2 DEF RemoveEdge, SearchInv
    <2>3. QED
      BY <1>2, <2>1, <2>2 DEF RemoveEdge
  <1>3. CASE findCycles
    BY <1>3, SearchBegins
  <1>4. CASE AppendFromU
    BY <1>4, SearchVisits
  <1>5. CASE EraseReturns \/ CyclesReturned
    BY <1>5, SearchGoesOn DEF EraseReturns, CyclesReturned
  <1>6. CASE Done \/ UNCHANGED vars
    <2>1. UNCHANGED vars
      BY <1>6 DEF Done
    <2>2. CASE pc \in {"search", "erase", "done"}
      BY <2>1, <2>2, SearchGoesOn DEF vars
    <2>3. CASE pc \notin {"search", "erase", "done"}
      BY <2>1, <2>3 DEF vars, SearchInv
    <2>4. QED
      BY <2>2, <2>3
  <1>7. QED
    BY <1>1, <1>2, <1>3, <1>4, <1>5, <1>6 DEF Next

(* What Walks finds are closed walks over active edges.                    *)
LEMMA WalksAreClosed ==
    ASSUME IInv, NEW k
    PROVE  \A w \in Walks(k) :
               /\ w \in ClosedWalks
               /\ EdgesOn(w) \subseteq full["u"] /\ w[1] \in EdgesOn(w)
               /\ edges[w[1]]["u"] = k
  <1> SUFFICES ASSUME NEW w \in Walks(k)
               PROVE  /\ w \in ClosedWalks
                      /\ EdgesOn(w) \subseteq full["u"] /\ w[1] \in EdgesOn(w)
                      /\ edges[w[1]]["u"] = k
    OBVIOUS
  <1>1. full["u"] = full["v"] /\ full["u"] \subseteq Ids /\ "u" \in Tables
    BY DEF IInv, TablesAgree, TypeOK, Tables
  <1>2. /\ w \in [1 .. CycleLength -> full["u"]] /\ Closes(w)
        /\ w[1] \in Active("u", k)
        /\ \A n \in 2 .. CycleLength :
               w[n] \in Active(SideAt(n), Partner(edges[w[n - 1]][SideAt(n)]))
    BY <1>1 DEF Walks
  <1>3. ASSUME NEW n \in 2 .. CycleLength
        PROVE  edges[w[n]][SideAt(n)] = Partner(edges[w[n - 1]][SideAt(n)])
    <2>1. SideAt(n) \in Tables
      BY DEF SideAt, Tables
    <2>2. QED
      BY <2>1, <1>2, ActiveFacts
  <1>4. w \in [1 .. CycleLength -> Ids]
    BY <1>1, <1>2
  <1>5. w \in ClosedWalks
    BY <1>2, <1>3, <1>4 DEF ClosedWalks
  <1>6. edges[w[1]]["u"] = k
    BY <1>1, <1>2, ActiveFacts
  <1>7. QED
    BY <1>2, <1>5, <1>6, LengthFacts DEF EdgesOn

LEMMA VisitFoundInv ==
    ASSUME IInv, FoundInv, AppendFromU
    PROVE  FoundInv'
  <1>1. PICK k \in Nodes : k = NextNode("u")
    BY NextEntryFacts DEF AppendFromU, NextNode, IInv, Tables
  <1>2. /\ UNCHANGED <<edges, full>> /\ pc = "search" /\ pc' = "erase"
        /\ found' = found \cup Walks(k) /\ task'.node = k
    BY <1>1 DEF AppendFromU
  <1>3. found' \subseteq ClosedWalks
    BY <1>2, WalksAreClosed DEF FoundInv
  <1>4. ASSUME NEW w \in found', w[1] \in full["u"]
        PROVE  edges[w[1]]["u"] = k
    <2>1. w \notin found
      BY <1>2, <1>4 DEF FoundInv
    <2>2. QED
      BY <2>1, <1>2, WalksAreClosed
  <1>5. ASSUME NEW w \in found', NEW x \in found', EdgesOn(w) = EdgesOn(x)
        PROVE  edges[w[1]]["u"] = edges[x[1]]["u"]
    <2>1. CASE w \in found /\ x \in found
      BY <2>1, <1>5 DEF FoundInv
    <2>2. CASE w \in Walks(k) \/ x \in Walks(k)
      <3>1. EdgesOn(w) \subseteq full["u"]
        BY <2>2, <1>5, WalksAreClosed
      <3>2. w[1] \in EdgesOn(w) /\ x[1] \in EdgesOn(x)
        BY LengthFacts DEF EdgesOn
      <3>3. QED
        BY <3>1, <3>2, <1>4, <1>5
    <2>3. QED
      BY <2>1, <2>2, <1>2
  <1>6. QED
    BY <1>2, <1>3, <1>4, <1>5, SameWalks DEF FoundInv

LEMMA NextFoundInv == IInv /\ SearchInv /\ FoundInv /\ [Next]_vars => FoundInv'
  <1> SUFFICES ASSUME IInv, SearchInv, FoundInv, [Next]_vars
               PROVE  FoundInv'
    OBVIOUS
  <1>1. CASE \/ \E e \in Edges : AddEdge(e)
             \/ \E t \in Tables : Prune(t) \/ PopDeactivated(t)
             \/ SkipNode \/ StartRemove \/ RemoveReturns \/ findCycles
             \/ RemoveEdge /\ pc = "remove"
    <2>1. pc \in {"build", "scan", "remove"} /\ found' = found
      BY <1>1 DEF AddEdge, Prune, PopDeactivated, SkipNode, StartRemove, RemoveReturns,
                  findCycles, RemoveEdge
    <2>2. found' = {}
      BY <2>1 DEF FoundInv
    <2>3. QED
      BY <2>2 DEF FoundInv
  <1>2. CASE RemoveEdge /\ pc = "erase"
    <2>1. UNCHANGED <<edges, pc, task, found>> /\ pc = "erase" /\ full'["u"] \subseteq full["u"]
      BY <1>2 DEF RemoveEdge, SearchInv, IInv, TypeOK, Tables
    <2>2. QED
      BY <2>1, SameWalks DEF FoundInv
  <1>3. CASE AppendFromU
    BY <1>3, VisitFoundInv
  <1>4. CASE EraseReturns \/ CyclesReturned
    <2>1. UNCHANGED <<edges, full, found>> /\ pc' \in {"search", "done"}
      BY <1>4 DEF EraseReturns, CyclesReturned
    <2>2. ASSUME NEW w \in found
          PROVE  w[1] \notin full["u"]
      <3>1. CASE EraseReturns
        <4>1. ActivePair("u", task.node) = {} /\ pc = "erase"
          BY <3>1 DEF EraseReturns, Doomed, SearchInv
        <4>2. QED
          BY <4>1, ActiveFacts DEF FoundInv, Tables
      <3>2. CASE CyclesReturned
        BY <3>2 DEF CyclesReturned, FoundInv
      <3>3. QED
        BY <1>4, <3>1, <3>2
    <2>3. QED
      BY <2>1, <2>2, SameWalks DEF FoundInv
  <1>5. CASE Done \/ UNCHANGED vars
    <2>1. UNCHANGED vars
      BY <1>5 DEF Done
    <2>2. QED
      BY <2>1, SameWalks DEF FoundInv, vars
  <1>6. QED
    BY <1>1, <1>2, <1>3, <1>4, <1>5 DEF Next, RemoveEdge

(* What findCycles promises: when it returns, every closed walk over edges  *)
(* of the graph has been found, and no two of those found that have the    *)
(* same edges begin at different nodes.                                    *)
SearchIsComplete ==
    pc = "done" =>
        /\ \A w \in ClosedWalks : IsFound(w)
        /\ \A w, x \in found : EdgesOn(w) = EdgesOn(x) => edges[w[1]]["u"] = edges[x[1]]["u"]

(* Every way round a cycle is found, although the search erases nodes it   *)
(* has begun at, and no cycle is found again from another of its nodes.    *)
THEOREM SearchComesToEveryCycle == Spec => []SearchIsComplete
  <1>1. Init => IInv /\ SearchInv /\ FoundInv
    BY InitIInv DEF Init, SearchInv, FoundInv
  <1>2. IInv /\ SearchInv /\ FoundInv /\ [Next]_vars => (IInv /\ SearchInv /\ FoundInv)'
    BY NextIInv, NextSearchInv, NextFoundInv
  <1>3. IInv /\ SearchInv /\ FoundInv => SearchIsComplete
    BY DEF SearchInv, FoundInv, SearchIsComplete
  <1>4. QED
    BY <1>1, <1>2, <1>3, PTL DEF Spec

-----------------------------------------------------------------------------
(* The solver. Words and partitions.                                       *)

LEMMA QuotientFacts ==
    ASSUME NEW a \in Nat, NEW b \in Nat \ {0}
    PROVE  a \div b \in Nat /\ (a \div b) * b <= a /\ a < (a \div b) * b + b
  OBVIOUS

LEMMA TimesMonotone ==
    ASSUME NEW p \in Nat, NEW q \in Nat, NEW w \in Nat, p <= q
    PROVE  p * w \in Nat /\ p * w <= q * w
  <1>1. q = p + (q - p) /\ q - p \in Nat
    OBVIOUS
  <1>2. \A d \in Nat : (p + d) * w = p * w + d * w /\ d * w >= 0
    OBVIOUS
  <1>3. QED
    BY <1>1, <1>2

LEMMA QuotientBelow ==
    ASSUME NEW a \in Nat, NEW b \in Nat \ {0}, NEW n \in Nat, a < n * b
    PROVE  a \div b < n
  <1>1. a \div b \in Nat /\ (a \div b) * b <= a
    BY QuotientFacts
  <1> DEFINE q == a \div b
  <1> HIDE DEF q
  <1>2. CASE n <= q
    <2>1. n * b <= q * b
      BY <1>1, <1>2, TimesMonotone DEF q
    <2>2. q * b <= a /\ n * b \in Nat /\ q * b \in Nat
      BY <1>1 DEF q
    <2>3. QED
      BY <2>1, <2>2
  <1>3. QED
    BY <1>1, <1>2 DEF q

LEMMA PartitionFacts ==
    ASSUME NEW r \in Nat
    PROVE  /\ NodePartitions(r) \in Nat \ {0}
           /\ WorkPerPartition(r) \in Nat
  <1>1. Least(7, r) \in 0 .. 7
    BY DEF Least
  <1>2. remainingEdges[Least(7, r)] \in Nat /\ nodeCapacity \in Nat \ {0}
    BY <1>1, CuckatooSolverAssumption DEF CuckatooSolverAssumption
  <1>3. NodePartitions(r) \in Nat \ {0}
    BY <1>2, QuotientFacts DEF NodePartitions
  <1>4. TotalWork \in Nat /\ Granule \in Nat \ {0}
    BY CuckatooSolverAssumption DEF CuckatooSolverAssumption
  <1>5. (TotalWork \div NodePartitions(r)) \div Granule \in Nat
    BY <1>3, <1>4, QuotientFacts
  <1>6. WorkPerPartition(r) \in Nat
    BY <1>4, <1>5 DEF WorkPerPartition
  <1>7. QED
    BY <1>3, <1>6

(* The partitions of a round are all of the edges, whatever the rounding.  *)
LEMMA EveryEdgeInPartition ==
    ASSUME NEW r \in Nat, NEW e \in DeviceEdges
    PROVE  \E p \in 0 .. NodePartitions(r) - 1 : e \div WordSize \in WordsOf(r, p)
  <1> DEFINE x == e \div WordSize
             w == WorkPerPartition(r)
             last == NodePartitions(r) - 1
  <1>1. w \in Nat /\ last \in Nat /\ TotalWork \in Nat
    BY PartitionFacts, CuckatooSolverAssumption DEF CuckatooSolverAssumption
  <1>2. x \in Nat /\ x < TotalWork
    <2>1. /\ e \in Nat /\ e < TotalWork * WordSize
          /\ WordSize \in Nat \ {0} /\ TotalWork \in Nat
      BY CuckatooSolverAssumption DEF CuckatooSolverAssumption, DeviceEdges
    <2>2. QED
      BY <2>1, QuotientFacts, QuotientBelow
  <1> HIDE DEF x, w, last
  <1>3. CASE last * w <= x
    <2>1. Offset(r, last) = last * w /\ Work(r, last) = TotalWork - last * w
      BY DEF Offset, Work, w, last
    <2>2. last * w \in Nat
      BY <1>1
    <2>3. x \in WordsOf(r, last)
      BY <1>1, <1>2, <1>3, <2>1, <2>2 DEF WordsOf
    <2>4. last \in 0 .. last
      BY <1>1
    <2>5. QED
      BY <2>3, <2>4 DEF x, last
  <1>4. CASE x < last * w
    <2>1. w \in Nat \ {0}
      BY <1>1, <1>2, <1>4
    <2>2. PICK p \in Nat : p = x \div w /\ p * w <= x /\ x < p * w + w /\ p < last
      BY <1>1, <1>2, <1>4, <2>1, QuotientFacts, QuotientBelow
    <2>3. Offset(r, p) = p * w /\ Work(r, p) = w
      BY <1>1, <2>2 DEF Offset, Work, w, last
    <2>4. p * w \in Nat
      BY <1>1
    <2>5. x \in WordsOf(r, p)
      BY <1>1, <1>2, <2>2, <2>3, <2>4 DEF WordsOf
    <2>6. p \in 0 .. last
      BY <1>1, <2>2
    <2>7. QED
      BY <2>5, <2>6 DEF x, last
  <1>5. last * w \in Nat
    BY <1>1
  <1>6. QED
    BY <1>2, <1>3, <1>4, <1>5

LEMMA SolverFacts ==
    ASSUME SolverTypeOK
    PROVE  /\ round \in Nat /\ partition \in Nat
           /\ uorv \in Tables /\ Reverse(uorv) \in Tables
           /\ \A e \in DeviceEdges : \A t \in Tables : hash[e][t] \in Nodes /\ hash[e][t] \in Int
           /\ activeEdges \subseteq DeviceEdges
           /\ \A e \in EdgesDone : e \in DeviceEdges
           /\ pruneRounds \in Nat \ {0, 1}
  <1>1. pruneRounds \in Nat \ {0, 1}
    BY CuckatooSolverAssumption DEF SolverTypeOK, CuckatooSolverAssumption
  <1>2. round \in Nat
    BY <1>1 DEF SolverTypeOK
  <1>3. partition \in Nat
    BY <1>2, PartitionFacts DEF SolverTypeOK
  <1>4. \A e \in DeviceEdges : hash[e] \in [Tables -> Nodes]
    BY CuckatooGraphAssumption DEF SolverTypeOK, CuckatooGraphAssumption
  <1>5. QED
    BY <1>1, <1>2, <1>3, <1>4, NodesAreInts DEF SolverTypeOK, uorv, Reverse, Tables, EdgesDone

(* What foreachActiveEdge comes to next.                                   *)
LEMMA NextActiveEdgeFacts ==
    ASSUME unread \subseteq DeviceEdges, unread # {}
    PROVE  NextActiveEdge \in unread
  <1> DEFINE word(e) == e \div WordSize
             W == {word(e) : e \in unread}
  <1>1. /\ EdgeCount \in Nat /\ unread \subseteq Nat
        /\ \A e \in unread : e < EdgeCount /\ word(e) \in Nat
    <2>1. WordSize \in Nat \ {0} /\ TotalWork \in Nat /\ EdgeCount = TotalWork * WordSize
      BY CuckatooSolverAssumption DEF CuckatooSolverAssumption
    <2>2. EdgeCount \in Nat
      BY <2>1
    <2>3. QED
      BY <2>1, <2>2, QuotientFacts DEF DeviceEdges
  <1>2. PICK m \in W : \A n \in W : m <= n
    BY <1>1, LeastNat
  <1> DEFINE D == {EdgeCount - e : e \in {d \in unread : word(d) = m}}
  <1>3. D \subseteq Nat /\ D # {}
    BY <1>1
  <1>4. PICK l \in D : \A n \in D : l <= n
    BY <1>3, LeastNat
  <1>5. PICK e \in unread : word(e) = m /\ l = EdgeCount - e
    OBVIOUS
  <1>6. ASSUME NEW d \in unread \ {e}
        PROVE  ComesBefore(e, d)
    <2>1. word(e) <= word(d) /\ word(d) \in Nat /\ word(e) \in Nat /\ d \in Nat /\ e \in Nat
      BY <1>1, <1>2, <1>5
    <2>2. CASE word(d) = word(e)
      <3>1. EdgeCount - d \in D
        BY <2>2, <1>5
      <3>2. EdgeCount - e <= EdgeCount - d
        BY <3>1, <1>4, <1>5
      <3>3. d < e
        BY <3>2, <2>1, <1>1
      <3>4. QED
        BY <2>2, <3>3, <2>1 DEF ComesBefore
    <2>3. CASE word(d) # word(e)
      BY <2>1, <2>3 DEF ComesBefore
    <2>4. QED
      BY <2>2, <2>3
  <1>7. \E x \in unread : \A d \in unread \ {x} : ComesBefore(x, d)
    BY <1>5, <1>6
  <1>8. QED
    BY <1>7 DEF NextActiveEdge

(* What the solver does to the graph is a step of the graph.               *)
LEMMA StepsOfTheGraph ==
    ASSUME SolverTypeOK, [SolverNext]_<<vars, solverVars>>
    PROVE  [Next]_vars
  <1>1. CASE AddToGraph
    <2>1. NextActiveEdge \in DeviceEdges
      BY <1>1, NextActiveEdgeFacts DEF AddToGraph, SolverTypeOK
    <2>2. hash[NextActiveEdge] \in Edges
      BY <2>1 DEF SolverTypeOK
    <2>3. QED
      BY <1>1, <2>2 DEF AddToGraph, Next
  <1>2. CASE PruneGraph
    BY <1>2 DEF PruneGraph, Next, PruneSide, Tables
  <1>3. CASE GraphStep
    BY <1>3 DEF GraphStep, Next
  <1>4. CASE CyclesFound
    BY <1>4 DEF CyclesFound, Next
  <1>5. CASE GatherNodes
    BY <1>5 DEF GatherNodes
  <1>6. CASE CombineActiveNodes \/ ReadEdges \/ Resolve \/ Solved \/ UNCHANGED <<vars, solverVars>>
    BY <1>6 DEF CombineActiveNodes, ReadEdges, Resolve, Solved
  <1>7. QED
    BY <1>1, <1>2, <1>3, <1>4, <1>5, <1>6 DEF SolverNext

LEMMA GraphInvariants ==
    ASSUME SolverInv, [SolverNext]_<<vars, solverVars>>
    PROVE  IInv' /\ SearchInv' /\ FoundInv'
  BY StepsOfTheGraph, NextIInv, NextSearchInv, NextFoundInv DEF SolverInv

LEMMA NextResultInv ==
    ASSUME SolverInv, [SolverNext]_<<vars, solverVars>>
    PROVE  ResultInv'
  <1>1. CASE GatherNodes \/ CombineActiveNodes \/ ReadEdges \/ AddToGraph \/ PruneGraph \/ GraphStep
    <2>1. stage' \in {"rounds", "add", "graph"}
      BY <1>1 DEF GatherNodes, CombineActiveNodes, ReadEdges, AddToGraph, PruneGraph, GraphStep,
                  solverVars
    <2>2. QED
      BY <2>1 DEF ResultInv
  <1>2. CASE CyclesFound
    <2>1. stage' = "resolve" /\ pc' = "done"
      BY <1>2 DEF CyclesFound, CyclesReturned
    <2>2. QED
      BY <2>1 DEF ResultInv
  <1>3. CASE Resolve \/ Solved \/ UNCHANGED <<vars, solverVars>>
    <2>1. UNCHANGED <<pc, found, edges, hash, activeEdges>>
      BY <1>3 DEF Resolve, Solved, vars, solverVars, inputVars, deviceVars
    <2>2. \A w : NotFullLength(w)' <=> NotFullLength(w)
      BY <2>1 DEF NotFullLength, Smallest, resolved, EdgeOf
    <2>3. \/ stage' = stage /\ result' = result
          \/ stage = "resolve" /\ result' = {w \in found : ~NotFullLength(w)}
      BY <1>3 DEF Resolve, Solved, solverVars
    <2>4. stage' \in {"resolve", "solved"} => stage \in {"resolve", "solved"}
      BY <1>3 DEF Resolve, Solved, solverVars
    <2>5. QED
      BY <2>1, <2>2, <2>3, <2>4 DEF SolverInv, ResultInv
  <1>4. QED
    BY <1>1, <1>2, <1>3 DEF SolverNext

-----------------------------------------------------------------------------
(* The rounds.                                                             *)

LEMMA InitSolverInv == SolverInit => SolverInv
  <1> SUFFICES ASSUME SolverInit PROVE SolverInv
    OBVIOUS
  <1>1. IInv /\ edges = <<>> /\ pc = "build" /\ Ids = {}
    BY InitIInv DEF SolverInit, Init, Ids
  <1>2. pruneRounds \in Nat \ {0, 1} /\ hash \in [DeviceEdges -> Edges]
    BY CuckatooSolverAssumption DEF SolverInit, CuckatooSolverAssumption
  <1>3. 0 \in 0 .. NodePartitions(0)
    BY PartitionFacts
  <1>4. SolverTypeOK
    <2>1. TypeOK /\ origin \in Seq(DeviceEdges) /\ Len(origin) = Len(edges)
      BY <1>1 DEF SolverInit, IInv
    <2>2. partition \in 0 .. NodePartitions(round) /\ round \in 0 .. pruneRounds
      BY <1>2, <1>3 DEF SolverInit
    <2>3. result \subseteq found /\ unread \subseteq activeEdges
      BY DEF SolverInit
    <2>4. QED
      BY <1>2, <2>1, <2>2, <2>3 DEF SolverInit, SolverTypeOK
  <1>5. RoundsInv /\ RoundsSpare
    BY <1>2 DEF SolverInit, RoundsInv, RoundsSpare
  <1>6. GraphInv
    BY <1>1 DEF SolverInit, GraphInv
  <1>7. SearchInv /\ FoundInv /\ ResultInv
    BY DEF SolverInit, Init, SearchInv, FoundInv, ResultInv
  <1>8. QED
    BY <1>1, <1>4, <1>5, <1>6, <1>7 DEF SolverInv

LEMMA GatherSolverInv ==
    ASSUME SolverInv, GatherNodes
    PROVE  SolverInv'
  <1> DEFINE mine == activeEdges \cap EdgesOf(partition)
             left == Survivors(mine)
             t == uorv
             r == Reverse(uorv)
  <1>1. /\ round \in Nat /\ partition \in Nat /\ t \in Tables /\ r \in Tables
        /\ \A e \in DeviceEdges : \A x \in Tables : hash[e][x] \in Nodes
        /\ activeEdges \subseteq DeviceEdges
    BY SolverFacts DEF SolverInv
  <1>2. /\ stage = "rounds" /\ round < pruneRounds /\ partition < NodePartitions(round)
        /\ activeEdges' = (activeEdges \ mine) \cup left
        /\ partition' = partition + 1 /\ round' = round /\ hash' = hash
        /\ combined' = combined /\ pruneRounds' = pruneRounds
        /\ UNCHANGED <<vars, stage, inputVars, unread, origin, result>>
    BY DEF GatherNodes, inputVars
  <1>3. PICK K \in SUBSET left :
            /\ activeNodes' = KeptNodes \cup {hash[e][t] : e \in K}
            /\ overflowed' = (overflowed \/ K # left)
    BY DEF GatherNodes
  <1>4. /\ uorv' = t /\ \A p : EdgesOf(p)' = EdgesOf(p)
        /\ \A k : isActive(k)' <=> isActive(k)
    BY <1>2 DEF uorv, EdgesOf, isActive
  <1>5. \A e : e \in EdgesDone' <=> (e \in EdgesDone \/ e \in EdgesOf(partition))
    <2>1. \A p : p \in 0 .. partition' - 1 <=> (p \in 0 .. partition - 1 \/ p = partition)
      BY <1>1, <1>2
    <2>2. \A e \in EdgesOf(partition) : e \in DeviceEdges
      BY DEF EdgesOf
    <2>3. QED
      BY <1>4, <2>1, <2>2 DEF EdgesDone
  <1>6. /\ left \subseteq mine
        /\ round = 0 => left = mine
        /\ round > 0 => \A e \in mine : e \in left <=> isActive(hash[e][r])
    BY <1>1 DEF Survivors
  <1> HIDE DEF mine, left, t, r
  <1>7. /\ activeEdges' \subseteq activeEdges
        /\ round = 0 => activeEdges' = activeEdges
        /\ round > 0 => \A e \in activeEdges : isActive(hash[e][r]) => e \in activeEdges'
    BY <1>2, <1>6 DEF mine
  <1>8. IInv'
    BY <1>2, StutterIInv DEF SolverInv
  <1>9. SolverTypeOK'
    <2>1. activeNodes' \subseteq Nodes
      <3>1. K \subseteq DeviceEdges
        BY <1>1, <1>6 DEF mine
      <3>2. QED
        BY <1>1, <1>3, <3>1 DEF SolverInv, SolverTypeOK, KeptNodes
    <2>2. partition' \in 0 .. NodePartitions(round)'
      BY <1>1, <1>2, PartitionFacts DEF NodePartitions
    <2>3. TypeOK' /\ overflowed' \in BOOLEAN
      BY <1>3, <1>8 DEF IInv, SolverInv, SolverTypeOK
    <2>4. unread' \subseteq activeEdges' /\ unread' = {}
      BY <1>2 DEF SolverInv, GraphInv, SolverTypeOK
    <2>5. QED
      BY <1>1, <1>2, <1>7, <2>1, <2>2, <2>3, <2>4 DEF SolverInv, SolverTypeOK, vars, inputVars
  <1>10. RoundsInv'
    <2>1. ASSUME round > 0, NEW k \in Nodes, isActive(k)
          PROVE  \E e \in activeEdges' : hash[e][r] = k
      <3>1. PICK e \in activeEdges : hash[e][r] = k
        BY <2>1 DEF SolverInv, RoundsInv, r
      <3>2. QED
        BY <2>1, <3>1, <1>7
    <2>2. ASSUME round > 0, NEW e \in activeEdges', e \in EdgesDone'
          PROVE  isActive(hash[e][r])
      <3>1. CASE e \in EdgesDone
        BY <2>2, <3>1, <1>7 DEF SolverInv, RoundsInv, r
      <3>2. CASE e \in EdgesOf(partition)
        BY <2>2, <3>2, <1>2, <1>6, <1>7 DEF mine
      <3>3. QED
        BY <2>2, <3>1, <3>2, <1>5
    <2>3. ASSUME NEW k \in activeNodes'
          PROVE  \E e \in activeEdges' \cap EdgesDone' : hash[e][t] = k
      <3>1. CASE k \in KeptNodes
        <4>1. partition > 0 /\ k \in activeNodes
          BY <3>1, <1>1 DEF KeptNodes
        <4>2. PICK e \in activeEdges \cap EdgesDone : hash[e][t] = k
          BY <4>1 DEF SolverInv, RoundsInv, t
        <4>3. round > 0 => isActive(hash[e][r])
          BY <4>2 DEF SolverInv, RoundsInv, r
        <4>4. QED
          BY <4>2, <4>3, <1>1, <1>5, <1>7
      <3>2. CASE \E e \in K : k = hash[e][t]
        <4>1. PICK e \in K : k = hash[e][t]
          BY <3>2
        <4>2. e \in activeEdges' /\ e \in EdgesDone'
          BY <4>1, <1>2, <1>5, <1>6 DEF mine
        <4>3. QED
          BY <4>1, <4>2
      <3>3. QED
        BY <3>1, <3>2, <1>3
    <2>4. ~(round' = pruneRounds')
      BY <1>1, <1>2
    <2>5. QED
      BY <2>1, <2>2, <2>3, <2>4, <1>2, <1>4 DEF RoundsInv, t, r
  <1>11. RoundsSpare'
    <2> SUFFICES ASSUME ~overflowed', NEW S \in SUBSET DeviceEdges, Unprunable(S)
                 PROVE  /\ S \subseteq activeEdges'
                        /\ round > 0 => \A e \in S : isActive(hash[e][r])
                        /\ \A e \in S \cap EdgesDone' : hash[e][t] \in activeNodes'
      <3>1. \A S : Unprunable(S)' <=> Unprunable(S)
        BY <1>2 DEF Unprunable, PairedOn
      <3>2. partition' > 0
        BY <1>1, <1>2
      <3>3. QED
        BY <3>1, <3>2, <1>2, <1>4 DEF RoundsSpare, t, r
    <2>1. ~overflowed /\ K = left
      BY <1>3
    <2>2. /\ S \subseteq activeEdges
          /\ round > 0 => \A e \in S : isActive(hash[e][r])
          /\ partition > 0 => \A e \in S \cap EdgesDone : hash[e][t] \in activeNodes
      BY <2>1 DEF SolverInv, RoundsSpare, t, r
    <2>3. S \subseteq activeEdges'
      BY <1>1, <1>7, <2>2
    <2>4. ASSUME NEW e \in S, e \in EdgesDone'
          PROVE  hash[e][t] \in activeNodes'
      <3>1. CASE e \in EdgesDone
        <4>1. partition > 0
          BY <3>1, <1>1 DEF EdgesDone
        <4>2. QED
          BY <3>1, <4>1, <1>1, <1>3, <2>2 DEF KeptNodes
      <3>2. CASE e \in EdgesOf(partition)
        BY <3>2, <1>1, <1>3, <1>6, <2>1, <2>2 DEF mine
      <3>3. QED
        BY <2>4, <3>1, <3>2, <1>5
    <2>5. QED
      BY <2>2, <2>3, <2>4
  <1>12. GraphInv'
    <2>1. pc' = "build" /\ edges' = <<>> /\ Ids' = {} /\ unread' = {}
      BY <1>2 DEF SolverInv, GraphInv, vars, Ids
    <2>2. QED
      BY <2>1, <1>2 DEF GraphInv
  <1>13. QED
    BY <1>8, <1>9, <1>10, <1>11, <1>12, GraphInvariants, NextResultInv DEF SolverInv, SolverNext

LEMMA PartnerIsNode ==
    ASSUME NEW k \in Nodes
    PROVE  Partner(k) \in Nodes
  <1>1. PICK m \in Nat : m = NumBuckets * PairsPerBucket /\ Nodes = 0 .. 2 * m - 1
    <2>1. NumBuckets * PairsPerBucket \in Nat
      BY CuckatooGraphAssumption DEF CuckatooGraphAssumption
    <2>2. 2 * NumBuckets * PairsPerBucket = 2 * (NumBuckets * PairsPerBucket)
      BY CuckatooGraphAssumption DEF CuckatooGraphAssumption
    <2>3. QED
      BY <2>1, <2>2 DEF Nodes
  <1>2. QED
    BY <1>1 DEF Partner

LEMMA CombineSolverInv ==
    ASSUME SolverInv, CombineActiveNodes
    PROVE  SolverInv'
  <1> DEFINE t == uorv
             r == Reverse(uorv)
  <1>1. /\ round \in Nat /\ partition \in Nat /\ t \in Tables /\ r \in Tables
        /\ \A e \in DeviceEdges : \A x \in Tables : hash[e][x] \in Nodes /\ hash[e][x] \in Int
        /\ activeEdges \subseteq DeviceEdges /\ pruneRounds \in Nat \ {0, 1}
    BY SolverFacts DEF SolverInv
  <1>2. /\ stage = "rounds" /\ partition = NodePartitions(round)
        /\ combined' = {Pair(k) : k \in {n \in activeNodes : Partner(n) \in activeNodes}}
        /\ partition' = 0 /\ round' = round + 1
        /\ UNCHANGED <<vars, stage, inputVars, activeEdges, activeNodes, unread, origin,
                       result, overflowed>>
        /\ hash' = hash /\ pruneRounds' = pruneRounds
    BY DEF CombineActiveNodes, inputVars
  <1>3. partition > 0 /\ round < pruneRounds
    <2>1. NodePartitions(round) \in Nat \ {0}
      BY <1>1, PartitionFacts
    <2>2. QED
      BY <2>1, <1>1, <1>2 DEF SolverInv, RoundsInv, SolverTypeOK
  <1>4. \A e \in DeviceEdges : e \in EdgesDone
    BY <1>1, <1>2, EveryEdgeInPartition DEF EdgesDone, EdgesOf
  <1>5. uorv' = r /\ Reverse(uorv)' = t
    <2>1. (round + 1) % 2 = 0 <=> round % 2 # 0
      BY <1>1
    <2>2. QED
      BY <2>1, <1>2 DEF uorv, Reverse
  <1> HIDE DEF t, r
  <1>6. ASSUME NEW k \in Nodes
        PROVE  isActive(k)' <=> k \in activeNodes /\ Partner(k) \in activeNodes
    <2>1. ASSUME NEW n \in activeNodes, Partner(n) \in activeNodes, Pair(k) = Pair(n)
          PROVE  k \in activeNodes /\ Partner(k) \in activeNodes
      <3>1. k \in Int /\ n \in Int
        BY NodesAreInts DEF SolverInv, SolverTypeOK
      <3>2. k = n \/ k = Partner(n)
        BY <2>1, <3>1, SamePair
      <3>3. Partner(Partner(n)) = n
        BY <3>1, PartnerOf
      <3>4. QED
        BY <2>1, <3>2, <3>3
    <2>2. QED
      BY <2>1, <1>2 DEF isActive
  <1>7. IInv'
    BY <1>2, StutterIInv DEF SolverInv
  <1>8. SolverTypeOK'
    <2>1. round' \in 0 .. pruneRounds'
      BY <1>1, <1>2, <1>3
    <2>2. partition' \in 0 .. NodePartitions(round')
      <3>1. NodePartitions(round') \in Nat \ {0}
        BY <1>1, <1>2, PartitionFacts
      <3>2. QED
        BY <3>1, <1>2
    <2>3. combined' \subseteq {Pair(k) : k \in Nodes}
      BY <1>2 DEF SolverInv, SolverTypeOK
    <2>4. TypeOK'
      BY <1>7 DEF IInv
    <2>5. QED
      BY <2>1, <2>2, <2>3, <2>4, <1>2 DEF SolverInv, SolverTypeOK, vars, NodePartitions
  <1>9. \A k \in activeNodes : \E e \in activeEdges : hash[e][t] = k
    BY <1>3 DEF SolverInv, RoundsInv, t
  <1>10. RoundsInv'
    <2>1. ASSUME NEW k \in Nodes, isActive(k)'
          PROVE  \E e \in activeEdges : hash[e][t] = k
      BY <2>1, <1>6, <1>9
    <2>2. EdgesDone' = {}
      BY <1>2 DEF EdgesDone
    <2>3. ASSUME round > 0, NEW e \in activeEdges
          PROVE  \E d \in activeEdges : hash[d][r] = Partner(hash[e][r])
      <3>1. isActive(hash[e][r])
        BY <2>3, <1>1, <1>4 DEF SolverInv, RoundsInv, r
      <3>2. hash[e][r] \in Int /\ Pair(Partner(hash[e][r])) = Pair(hash[e][r])
        BY <1>1, PartnerOf
      <3>3. isActive(Partner(hash[e][r]))
        BY <3>1, <3>2 DEF isActive
      <3>4. Partner(hash[e][r]) \in Nodes
        BY <3>3, <3>2, <1>1, PartnerIsNode
      <3>5. QED
        BY <2>3, <3>3, <3>4 DEF SolverInv, RoundsInv, r
    <2>4. ASSUME round' = pruneRounds
          PROVE  PairedOn(activeEdges, FromTheOtherSide)
      <3>1. round > 0 /\ FromTheOtherSide = uorv'
        BY <2>4, <1>1, <1>2 DEF FromTheOtherSide, uorv
      <3>2. QED
        BY <3>1, <2>3, <1>5 DEF PairedOn
    <2>5. PairedOn(activeEdges, FromTheOtherSide)' <=> PairedOn(activeEdges, FromTheOtherSide)
      BY <1>2 DEF PairedOn, FromTheOtherSide
    <2>6. QED
      BY <2>1, <2>2, <2>4, <2>5, <1>2, <1>5 DEF RoundsInv
  <1>11. RoundsSpare'
    <2> SUFFICES ASSUME ~overflowed, NEW S \in SUBSET DeviceEdges, Unprunable(S)
                 PROVE  /\ S \subseteq activeEdges
                        /\ \A e \in S : Pair(hash[e][t]) \in combined'
      <3>1. \A S : Unprunable(S)' <=> Unprunable(S)
        BY <1>2 DEF Unprunable, PairedOn
      <3>2. ~(partition' > 0)
        BY <1>2
      <3>3. QED
        BY <3>1, <3>2, <1>2, <1>5 DEF RoundsSpare, isActive
    <2>1. /\ S \subseteq activeEdges
          /\ \A e \in S : hash[e][t] \in activeNodes
      BY <1>3, <1>4 DEF SolverInv, RoundsSpare, t
    <2>2. ASSUME NEW e \in S
          PROVE  Partner(hash[e][t]) \in activeNodes
      <3>1. PICK d \in S : hash[d][t] = Partner(hash[e][t])
        BY <1>1 DEF Unprunable, PairedOn
      <3>2. QED
        BY <3>1, <2>1
    <2>3. \A e \in S : hash[e][t] \in Nodes
      BY <1>1
    <2>4. ASSUME NEW e \in S
          PROVE  Pair(hash[e][t]) \in combined'
      <3>1. PICK k \in Nodes : k = hash[e][t]
        BY <2>3
      <3>2. isActive(k)'
        BY <3>1, <1>6, <2>1, <2>2
      <3>3. QED
        BY <3>1, <3>2 DEF isActive
    <2>5. QED
      BY <2>1, <2>4
  <1>12. GraphInv'
    <2>1. pc' = "build" /\ edges' = <<>> /\ Ids' = {} /\ unread' = {}
      BY <1>2 DEF SolverInv, GraphInv, vars, Ids
    <2>2. QED
      BY <2>1, <1>2 DEF GraphInv
  <1>13. QED
    BY <1>7, <1>8, <1>10, <1>11, <1>12, GraphInvariants, NextResultInv DEF SolverInv, SolverNext

-----------------------------------------------------------------------------
(* The graph that is made of the edges left.                               *)

LEMMA SameRounds ==
    ASSUME SolverInv, UNCHANGED <<inputVars, deviceVars>>
    PROVE  RoundsInv' /\ RoundsSpare'
  <1> USE DEF inputVars, deviceVars
  <1>1. /\ uorv' = uorv /\ FromTheOtherSide' = FromTheOtherSide /\ EdgesDone' = EdgesDone
        /\ \A k : isActive(k)' <=> isActive(k)
        /\ \A S : Unprunable(S)' <=> Unprunable(S)
    BY DEF uorv, FromTheOtherSide, EdgesDone, EdgesOf, isActive, Unprunable, PairedOn
  <1>2. RoundsInv'
    BY <1>1 DEF SolverInv, RoundsInv, PairedOn, isActive
  <1>3. RoundsSpare'
    BY <1>1 DEF SolverInv, RoundsSpare, isActive
  <1>4. QED
    BY <1>2, <1>3

LEMMA ReadEdgesSolverInv ==
    ASSUME SolverInv, ReadEdges
    PROVE  SolverInv'
  <1>1. IInv' /\ RoundsInv' /\ RoundsSpare'
    BY SameRounds, StutterIInv DEF SolverInv, ReadEdges
  <1>2. SolverTypeOK'
    <2>1. TypeOK'
      BY <1>1 DEF IInv
    <2>2. QED
      BY <2>1 DEF SolverInv, SolverTypeOK, ReadEdges, vars, inputVars, deviceVars, NodePartitions
  <1>3. GraphInv'
    BY DEF SolverInv, GraphInv, ReadEdges, vars, inputVars, deviceVars, Ids
  <1>4. QED
    BY <1>1, <1>2, <1>3, GraphInvariants, NextResultInv DEF SolverInv, SolverNext

LEMMA AddToGraphSolverInv ==
    ASSUME SolverInv, AddToGraph
    PROVE  SolverInv'
  <1> DEFINE e == NextActiveEdge
             n == Len(edges) + 1
  <1>1. e \in unread /\ e \in activeEdges /\ e \in DeviceEdges /\ hash[e] \in Edges
    BY NextActiveEdgeFacts DEF SolverInv, SolverTypeOK, AddToGraph
  <1>2. /\ AddEdge(hash[e]) /\ origin' = Append(origin, e) /\ unread' = unread \ {e}
        /\ UNCHANGED <<stage, inputVars, deviceVars, result>>
        /\ stage = "add" /\ edges' = Append(edges, hash[e]) /\ pc' = pc /\ found' = found
    BY DEF AddToGraph, AddEdge
  <1> HIDE DEF e
  <1>3. IInv' /\ RoundsInv' /\ RoundsSpare'
    BY <1>1, <1>2, SameRounds, AddEdgeIInv DEF SolverInv
  <1>4. /\ edges \in Seq(Edges) /\ origin \in Seq(DeviceEdges) /\ Len(origin) = Len(edges)
        /\ Len(edges) \in Nat
    BY DEF SolverInv, IInv, TypeOK, SolverTypeOK
  <1>5. /\ origin' \in Seq(DeviceEdges) /\ Len(origin') = n
        /\ origin'[n] = e /\ \A i \in Ids : origin'[i] = origin[i]
    BY <1>1, <1>2, <1>4 DEF Ids
  <1>6. /\ Len(edges') = n /\ Ids' = Ids \cup {n}
        /\ edges'[n] = hash[e] /\ \A i \in Ids : edges'[i] = edges[i]
    BY <1>1, <1>2, <1>4 DEF Ids
  <1>7. SolverTypeOK'
    <2>1. TypeOK'
      BY <1>3 DEF IInv
    <2>2. QED
      BY <1>2, <1>5, <1>6, <2>1 DEF SolverInv, SolverTypeOK, inputVars, deviceVars, NodePartitions
  <1>8. GraphInv'
    <2>1. ASSUME NEW d \in activeEdges \ unread'
          PROVE  \E i \in Ids' : origin'[i] = d
      <3>1. CASE d = e
        BY <3>1, <1>5, <1>6
      <3>2. CASE d # e
        <4>1. PICK i \in Ids : origin[i] = d
          BY <3>2, <1>2 DEF SolverInv, GraphInv
        <4>2. QED
          BY <4>1, <1>5, <1>6
      <3>3. QED
        BY <3>1, <3>2
    <2>2. ASSUME NEW i \in Ids'
          PROVE  origin'[i] \in activeEdges \ unread' /\ edges'[i] = hash[origin'[i]]
      <3>1. CASE i \in Ids
        BY <3>1, <1>2, <1>5, <1>6 DEF SolverInv, GraphInv
      <3>2. CASE i = n
        BY <3>2, <1>1, <1>2, <1>5, <1>6
      <3>3. QED
        BY <3>1, <3>2, <1>6
    <2>3. ASSUME NEW i \in Ids', NEW j \in Ids', origin'[i] = origin'[j]
          PROVE  i = j
      BY <2>3, <1>1, <1>5, <1>6 DEF SolverInv, GraphInv
    <2>4. hash' = hash /\ activeEdges' = activeEdges /\ round' = round /\ pruneRounds' = pruneRounds
      BY <1>2 DEF inputVars, deviceVars
    <2>5. QED
      BY <1>2, <2>1, <2>2, <2>3, <2>4 DEF SolverInv, GraphInv
  <1>9. QED
    BY <1>3, <1>7, <1>8, GraphInvariants, NextResultInv DEF SolverInv, SolverNext

(* The rounds end with a side that has no dead ends, and the graph is of   *)
(* the same edges: prune begins on the other one.                          *)
LEMMA PruneGraphSolverInv ==
    ASSUME SolverInv, PruneGraph
    PROVE  SolverInv'
  <1>1. /\ stage = "add" /\ unread = {} /\ Prune(PruneSide) /\ stage' = "graph"
        /\ UNCHANGED <<inputVars, deviceVars, unread, origin, result>>
        /\ PruneSide \in Tables
    BY DEF PruneGraph, PruneSide, Tables
  <1>2. /\ edges' = edges /\ pc' = "scan" /\ full' = full /\ found' = found
        /\ clean' = CleanSides \cup {PruneSide} /\ Ids' = Ids
    BY <1>1 DEF Prune, Ids
  <1>3. IInv' /\ RoundsInv' /\ RoundsSpare'
    BY <1>1, SameRounds, PruneIInv DEF SolverInv
  <1>4. SolverTypeOK'
    <2>1. TypeOK'
      BY <1>3 DEF IInv
    <2>2. QED
      BY <1>1, <1>2, <2>1 DEF SolverInv, SolverTypeOK, inputVars, deviceVars, NodePartitions
  <1>5. PICK s \in Tables : s = FromTheOtherSide /\ Tables = {s, PruneSide}
    BY DEF FromTheOtherSide, PruneSide, Tables
  <1>6. s \in CleanSides
    <2>1. full[s] = Ids
      BY <1>1 DEF SolverInv, GraphInv, IInv, AllActive
    <2>2. ASSUME NEW i \in Ids
          PROVE  \E j \in Ids : edges[j][s] = Partner(edges[i][s])
      <3>1. origin[i] \in activeEdges /\ edges[i] = hash[origin[i]]
        BY DEF SolverInv, GraphInv
      <3>2. PICK d \in activeEdges : hash[d][s] = Partner(hash[origin[i]][s])
        BY <1>1, <1>5, <3>1 DEF SolverInv, GraphInv, RoundsInv, PairedOn
      <3>3. PICK j \in Ids : origin[j] = d
        BY <1>1 DEF SolverInv, GraphInv
      <3>4. edges[j] = hash[d]
        BY <3>3 DEF SolverInv, GraphInv
      <3>5. QED
        BY <3>1, <3>2, <3>4
    <2>3. QED
      BY <2>1, <2>2 DEF CleanSides, HasPartner
  <1>7. clean' = Tables
    BY <1>2, <1>5, <1>6 DEF CleanSides
  <1>8. GraphInv'
    BY <1>1, <1>2, <1>7 DEF SolverInv, GraphInv, inputVars, deviceVars
  <1>9. QED
    BY <1>3, <1>4, <1>8, GraphInvariants, NextResultInv DEF SolverInv, SolverNext

LEMMA GraphStepSolverInv ==
    ASSUME SolverInv, GraphStep
    PROVE  SolverInv'
  <1>1. /\ stage = "graph" /\ UNCHANGED solverVars
        /\ UNCHANGED <<stage, inputVars, deviceVars, unread, origin, result>>
    BY DEF GraphStep, solverVars
  <1>2. /\ Next /\ edges' = edges /\ clean' = clean /\ pc' # "build" /\ found \subseteq found'
    <2>1. CASE \E t \in Tables : PopDeactivated(t)
      BY <2>1 DEF PopDeactivated, Next
    <2>2. CASE SkipNode \/ StartRemove
      BY <2>2 DEF SkipNode, StartRemove, Next
    <2>3. CASE RemoveEdge \/ RemoveReturns
      BY <2>3 DEF RemoveEdge, RemoveReturns, Next
    <2>4. CASE findCycles \/ AppendFromU \/ EraseReturns
      BY <2>4 DEF findCycles, AppendFromU, EraseReturns, Next
    <2>5. QED
      BY <2>1, <2>2, <2>3, <2>4 DEF GraphStep
  <1>3. IInv' /\ RoundsInv' /\ RoundsSpare'
    BY <1>1, <1>2, SameRounds, NextIInv DEF SolverInv
  <1>4. SolverTypeOK'
    <2>1. TypeOK'
      BY <1>3 DEF IInv
    <2>2. QED
      BY <1>1, <1>2, <2>1 DEF SolverInv, SolverTypeOK, inputVars, deviceVars, NodePartitions
  <1>5. GraphInv'
    BY <1>1, <1>2 DEF SolverInv, GraphInv, inputVars, deviceVars, Ids
  <1>6. QED
    BY <1>3, <1>4, <1>5, GraphInvariants, NextResultInv DEF SolverInv, SolverNext

LEMMA LaterSolverInv ==
    ASSUME SolverInv, CyclesFound \/ Resolve \/ Solved \/ UNCHANGED <<vars, solverVars>>
    PROVE  SolverInv'
  <1>1. /\ UNCHANGED <<inputVars, deviceVars, unread, origin, edges, found>>
        /\ CyclesReturned \/ UNCHANGED vars
        /\ clean' = clean
        /\ pc' = pc \/ (pc = "search" /\ pc' = "done")
    BY DEF CyclesFound, Resolve, Solved, CyclesReturned, vars, solverVars
  <1>2. IInv' /\ RoundsInv' /\ RoundsSpare'
    BY <1>1, SameRounds, NextIInv DEF SolverInv, Next
  <1>3. /\ stage' = stage \/ (stage = "graph" /\ stage' = "resolve")
                          \/ (stage = "resolve" /\ stage' = "solved")
        /\ result' = result \/ result' \subseteq found
    BY DEF CyclesFound, Resolve, Solved, solverVars
  <1>4. SolverTypeOK'
    <2>1. TypeOK'
      BY <1>2 DEF IInv
    <2>2. QED
      BY <1>1, <1>3, <2>1 DEF SolverInv, SolverTypeOK, inputVars, deviceVars, NodePartitions
  <1>5. GraphInv'
    <2>1. UNCHANGED <<hash, pruneRounds, round, activeEdges, unread, origin, edges, Ids>>
      BY <1>1 DEF inputVars, deviceVars, Ids
    <2>2. /\ stage' \in {"rounds", "add"} <=> stage \in {"rounds", "add"}
          /\ stage' \in {"rounds", "add", "graph"} => stage' = stage
      BY <1>3
    <2>3. stage # "add" => stage' # "add"
      BY <1>3
    <2>4. GraphInv
      BY DEF SolverInv
    <2>5. pc = "build" <=> pc' = "build"
      BY <1>1
    <2>6. stage' # "add" => unread' = {}
      BY <2>1, <2>2, <2>4 DEF GraphInv
    <2>7. stage' = "rounds" <=> stage = "rounds"
      BY <1>3
    <2>8. /\ \A i \in Ids' : origin'[i] \in activeEdges' \ unread' /\ edges'[i] = hash'[origin'[i]]
          /\ \A i, j \in Ids' : origin'[i] = origin'[j] => i = j
      BY <2>1, <2>4 DEF GraphInv
    <2>9. stage' # "rounds" =>
              /\ round' = pruneRounds'
              /\ \A e \in activeEdges' \ unread' : \E i \in Ids' : origin'[i] = e
      BY <2>1, <2>4, <2>7 DEF GraphInv
    <2>10. stage' = "graph" => clean' = Tables
      BY <1>1, <2>2, <2>4 DEF GraphInv
    <2>11. QED
      BY <2>1, <2>2, <2>4, <2>5, <2>6, <2>7, <2>8, <2>9, <2>10 DEF GraphInv
  <1>6. QED
    BY <1>2, <1>4, <1>5, GraphInvariants, NextResultInv DEF SolverInv, SolverNext

LEMMA NextSolverInv == SolverInv /\ [SolverNext]_<<vars, solverVars>> => SolverInv'
  BY GatherSolverInv, CombineSolverInv, ReadEdgesSolverInv, AddToGraphSolverInv,
     PruneGraphSolverInv, GraphStepSolverInv, LaterSolverInv DEF SolverNext

(* From the first round to the last cycle: the bitmaps of the device stand *)
(* for edges that are left, the graph for those edges, and its tables stay *)
(* consistent.                                                             *)
THEOREM SolverInvariant == SolverSpec => []SolverInv
  BY InitSolverInv, NextSolverInv, PTL DEF SolverSpec

(* As long as no bucket of the device is too small, no round kills an edge *)
(* of a cycle, of any length, however the edges are partitioned.           *)
THEOREM RoundsSpareEveryCycle == SolverSpec => []RoundsSpare
  <1>1. SolverInv => RoundsSpare
    BY DEF SolverInv
  <1>2. QED
    BY <1>1, SolverInvariant, PTL

(* The last round leaves no dead end on one side, and prune is called on   *)
(* the other: none is left at either when it returns.                      *)
THEOREM SolverLeavesNoDeadEnd == SolverSpec => []NoDeadEndIsLeft
  <1>1. SolverInv => NoDeadEndIsLeft
    <2> SUFFICES ASSUME SolverInv, stage = "graph", pc = "scan", todo = {},
                        NEW t \in Tables, NEW i \in full[t]
                 PROVE  HasPartner(t, i)
      BY DEF NoDeadEndIsLeft
    <2>1. t \in clean
      BY DEF SolverInv, GraphInv
    <2>2. Covered(t, i) /\ NothingToPop
      BY <2>1 DEF SolverInv, IInv, CoveredInv
    <2>3. QED
      BY <2>2 DEF Covered, NothingToPop
  <1>2. QED
    BY <1>1, SolverInvariant, PTL

-----------------------------------------------------------------------------
(* Cycles of the device's edges as walks.                                  *)

(* d and e end at the two nodes of a pair of the side t.                   *)
Neighbours(d, e, t) == hash[d][t] = Partner(hash[e][t])

LEMMA NeighbourFacts ==
    ASSUME SolverTypeOK, NEW d \in DeviceEdges, NEW e \in DeviceEdges, NEW t \in Tables
    PROVE  /\ Neighbours(d, e, t) <=> Neighbours(e, d, t)
           /\ ~Neighbours(e, e, t)
  <1>1. PICK j \in Int, k \in Int : j = hash[d][t] /\ k = hash[e][t]
    BY SolverFacts
  <1>2. Partner(k) # k
    BY DEF Partner
  <1>3. QED
    BY <1>1, <1>2, PartnerOf DEF Neighbours

LEMMA CycleFacts ==
    ASSUME SolverTypeOK, NEW S \in SUBSET DeviceEdges, IsCycle(S)
    PROVE  /\ IsFiniteSet(S) /\ Cardinality(S) = CycleLength
           /\ \A e \in S : \A t \in Tables : \E d \in S : Neighbours(d, e, t)
           /\ \A d, e \in S : \A t \in Tables : hash[d][t] = hash[e][t] => d = e
           /\ \A c, d, e \in S : \A t \in Tables :
                  Neighbours(c, e, t) /\ Neighbours(d, e, t) => c = d
  <1>1. IsFiniteSet(DeviceEdges)
    <2>1. EdgeCount \in Int
      BY CuckatooSolverAssumption DEF CuckatooSolverAssumption
    <2>2. QED
      BY <2>1, FS_Interval DEF DeviceEdges
  <1>2. IsFiniteSet(S)
    BY <1>1, FS_Subset
  <1>3. QED
    BY <1>2 DEF IsCycle, Unprunable, PairedOn, Neighbours

(* Ways along a cycle, from e0 over its v node.                            *)
Ways(S, e0, n) ==
    {x \in Injection(1 .. n, S) :
        x[1] = e0 /\ \A m \in 2 .. n : Neighbours(x[m], x[m - 1], SideAt(m))}

LEMMA LongestWay ==
    ASSUME SolverTypeOK, NEW S \in SUBSET DeviceEdges, IsCycle(S), NEW e0 \in S
    PROVE  \E n \in 1 .. CycleLength : \E x \in Ways(S, e0, n) :
               \E m \in 1 .. n : Neighbours(x[m], x[n], SideAt(n + 1))
  <1> DEFINE T == {n \in 1 .. CycleLength : Ways(S, e0, n) # {}}
             D == {CycleLength - n : n \in T}
  <1>1. 1 \in T
    <2> DEFINE x == [m \in 1 .. 1 |-> e0]
    <2>1. x \in Ways(S, e0, 1)
      BY DEF Ways, Injection, IsInjective
    <2>2. QED
      BY <2>1, LengthFacts
  <1>2. PICK n \in T : \A m \in T : m <= n
    <2>1. D \subseteq Nat /\ D # {}
      BY <1>1, LengthFacts
    <2>2. PICK l \in D : \A k \in D : l <= k
      BY <2>1, LeastNat
    <2>3. PICK n \in T : l = CycleLength - n
      OBVIOUS
    <2>4. ASSUME NEW m \in T
          PROVE  m <= n
      <3>1. CycleLength - m \in D
        OBVIOUS
      <3>2. CycleLength - n <= CycleLength - m
        BY <3>1, <2>2, <2>3
      <3>3. QED
        BY <3>2, LengthFacts
    <2>5. QED
      BY <2>4
  <1>3. PICK x \in Ways(S, e0, n) : TRUE
    OBVIOUS
  <1>4. /\ n \in 1 .. CycleLength /\ n \in Nat /\ n \in 1 .. n /\ 1 \in 1 .. n
        /\ SideAt(n + 1) \in Tables
    BY LengthFacts DEF SideAt, Tables
  <1>5. /\ x \in [1 .. n -> S] /\ x[1] = e0
        /\ \A j, k \in 1 .. n : x[j] = x[k] => j = k
        /\ \A m \in 2 .. n : Neighbours(x[m], x[m - 1], SideAt(m))
    BY <1>3 DEF Ways, Injection, IsInjective
  <1>6. PICK d \in S : Neighbours(d, x[n], SideAt(n + 1))
    BY <1>4, <1>5, CycleFacts
  <1>7. CASE \A m \in 1 .. n : x[m] # d
    <2> DEFINE y == [m \in 1 .. n + 1 |-> IF m = n + 1 THEN d ELSE x[m]]
    <2>1. /\ y \in [1 .. n + 1 -> S] /\ y[1] = e0 /\ y[n + 1] = d
          /\ \A m \in 1 .. n : y[m] = x[m]
      BY <1>4, <1>5
    <2>2. \A j, k \in 1 .. n + 1 : y[j] = y[k] => j = k
      <3>1. \A j \in 1 .. n + 1 : j \in 1 .. n \/ j = n + 1
        BY <1>4
      <3>2. QED
        BY <3>1, <2>1, <1>5, <1>7
    <2>3. \A m \in 2 .. n + 1 : Neighbours(y[m], y[m - 1], SideAt(m))
      <3>1. \A m \in 2 .. n + 1 : \/ m \in 2 .. n /\ m \in 1 .. n /\ m - 1 \in 1 .. n
                                  \/ m = n + 1 /\ m - 1 = n
        BY <1>4
      <3>2. QED
        BY <3>1, <2>1, <1>4, <1>5, <1>6
    <2>4. y \in Injection(1 .. n + 1, S)
      BY <2>1, <2>2 DEF Injection, IsInjective
    <2>5. y \in Ways(S, e0, n + 1)
      BY <2>1, <2>3, <2>4 DEF Ways
    <2>6. n + 1 <= CycleLength
      <3>1. Cardinality(1 .. n + 1) <= Cardinality(S)
        BY <2>4, CycleFacts, FS_Injection
      <3>2. Cardinality(1 .. n + 1) = n + 1
        BY <1>4, FS_Interval
      <3>3. QED
        BY <3>1, <3>2, CycleFacts
    <2>7. n + 1 \in T
      BY <2>5, <2>6, <1>4, LengthFacts
    <2>8. QED
      BY <2>7, <1>2, <1>4
  <1>8. CASE \E m \in 1 .. n : x[m] = d
    BY <1>3, <1>4, <1>6, <1>8
  <1>9. QED
    BY <1>7, <1>8

(* A cycle is a closed way: where it comes back to itself is its           *)
(* beginning, and it has passed all of the edges.                          *)
LEMMA WayAround ==
    ASSUME SolverTypeOK, NEW S \in SUBSET DeviceEdges, IsCycle(S), NEW e0 \in S
    PROVE  \E x \in Bijection(1 .. CycleLength, S) :
               /\ x[1] = e0
               /\ \A m \in 2 .. CycleLength : Neighbours(x[m], x[m - 1], SideAt(m))
               /\ Neighbours(x[1], x[CycleLength], "u")
  <1>1. PICK n \in 1 .. CycleLength : \E x \in Ways(S, e0, n) :
            \E m \in 1 .. n : Neighbours(x[m], x[n], SideAt(n + 1))
    BY LongestWay
  <1>2. PICK x \in Ways(S, e0, n) : \E m \in 1 .. n : Neighbours(x[m], x[n], SideAt(n + 1))
    BY <1>1
  <1>3. PICK m \in 1 .. n : Neighbours(x[m], x[n], SideAt(n + 1))
    BY <1>2
  <1> DEFINE s == SideAt(n + 1)
  <1>4. /\ n \in Nat /\ n \in 1 .. n /\ 1 \in 1 .. n /\ s \in Tables
        /\ \A k \in Nat : SideAt(k) \in Tables /\ SideAt(k) # SideAt(k + 1)
    BY LengthFacts DEF SideAt, Tables
  <1>5. /\ x \in [1 .. n -> S] /\ x[1] = e0 /\ x \in Injection(1 .. n, S)
        /\ \A j, k \in 1 .. n : x[j] = x[k] => j = k
        /\ \A k \in 2 .. n : Neighbours(x[k], x[k - 1], SideAt(k))
    BY <1>2 DEF Ways, Injection, IsInjective
  <1>6. \A j, k \in 1 .. n : \A t \in Tables : Neighbours(x[j], x[k], t) <=> Neighbours(x[k], x[j], t)
    BY <1>5, NeighbourFacts
  <1>7. m # n
    BY <1>3, <1>4, <1>5, NeighbourFacts
  <1>8. ASSUME NEW k \in 1 .. n, Neighbours(x[k], x[m], s)
        PROVE  k = n
    <2>1. Neighbours(x[n], x[m], s)
      BY <1>3, <1>4, <1>6
    <2>2. x[k] = x[n]
      <3>1. \A c, d, e \in S : Neighbours(c, e, s) /\ Neighbours(d, e, s) => c = d
        BY <1>4, CycleFacts
      <3>2. x[k] \in S /\ x[n] \in S /\ x[m] \in S
        BY <1>4, <1>5
      <3>3. QED
        BY <2>1, <3>1, <3>2, <1>8
    <2>3. QED
      BY <2>2, <1>4, <1>5
  <1> HIDE DEF s
  <1>9. SideAt(m + 1) # s
    <2> SUFFICES ASSUME SideAt(m + 1) = s PROVE FALSE
      OBVIOUS
    <2>1. m + 1 \in 2 .. n /\ m + 1 \in 1 .. n /\ (m + 1) - 1 = m
      BY <1>4, <1>7
    <2>2. m + 1 = n
      BY <2>1, <1>5, <1>8
    <2>3. QED
      BY <2>2, <1>4 DEF s
  <1>10. m = 1
    <2> SUFFICES ASSUME m # 1 PROVE FALSE
      OBVIOUS
    <2>1. m \in 2 .. n /\ m - 1 \in 1 .. n /\ m \in Nat
      BY <1>4
    <2>2. SideAt(m) = s
      BY <1>4, <1>9, <2>1 DEF Tables
    <2>3. Neighbours(x[m - 1], x[m], s)
      BY <2>1, <2>2, <1>4, <1>5, <1>6
    <2>4. QED
      BY <2>1, <2>3, <1>4, <1>8
  <1>11. s = "u"
    BY <1>4, <1>9, <1>10 DEF SideAt, Tables
  <1>12. Neighbours(x[1], x[n], "u")
    BY <1>3, <1>10, <1>11 DEF s
  <1> DEFINE R == {x[k] : k \in 1 .. n}
  <1>13. ASSUME NEW k \in 1 .. n, NEW t \in Tables
         PROVE  \E j \in 1 .. n : Neighbours(x[j], x[k], t)
    <2>1. CASE t = SideAt(k) /\ k # 1
      <3>1. k \in 2 .. n /\ k - 1 \in 1 .. n
        BY <2>1, <1>4
      <3>2. QED
        BY <2>1, <3>1, <1>5, <1>6
    <2>2. CASE t = SideAt(k + 1) /\ k # n
      <3>1. k + 1 \in 2 .. n /\ k + 1 \in 1 .. n /\ (k + 1) - 1 = k
        BY <2>2, <1>4
      <3>2. QED
        BY <2>2, <3>1, <1>5
    <2>3. CASE t = SideAt(k) /\ k = 1
      BY <2>3, <1>4, <1>6, <1>12 DEF SideAt
    <2>4. CASE t = SideAt(k + 1) /\ k = n
      BY <2>4, <1>4, <1>11, <1>12 DEF s
    <2>5. t = SideAt(k) \/ t = SideAt(k + 1)
      BY <1>4 DEF Tables
    <2>6. QED
      BY <2>1, <2>2, <2>3, <2>4, <2>5
  <1>14. R \in SUBSET S /\ R # {}
    BY <1>4, <1>5
  <1>15. Unprunable(R)
    BY <1>13 DEF Unprunable, PairedOn, Neighbours
  <1>16. R = S
    BY <1>14, <1>15 DEF IsCycle
  <1>17. x \in Bijection(1 .. n, S)
    BY <1>5, <1>16 DEF Bijection, Surjection
  <1>18. n = CycleLength
    <2>1. ExistsBijection(1 .. n, S)
      BY <1>17 DEF ExistsBijection
    <2>2. Cardinality(S) = n
      BY <2>1, <1>4, FS_CountingElements
    <2>3. QED
      BY <2>2, CycleFacts
  <1>19. QED
    BY <1>5, <1>12, <1>17, <1>18

-----------------------------------------------------------------------------
(* isValidCycle follows a cycle round from any of its edges.               *)

IsWay(x, S) ==
    /\ x \in Bijection(1 .. CycleLength, S)
    /\ \A m \in 2 .. CycleLength : Neighbours(x[m], x[m - 1], SideAt(m))
    /\ Neighbours(x[1], x[CycleLength], "u")

(* Where its loop is after i turns.                                        *)
Place(x, i) ==
    [ok |-> TRUE,
     u  |-> IF 2 * i < CycleLength THEN hash[x[2 * i + 1]]["u"] ELSE hash[x[1]]["u"],
     us |-> {hash[x[m]]["u"] : m \in 2 * i + 1 .. CycleLength},
     vs |-> {hash[x[m]]["v"] : m \in 2 * i + 1 .. CycleLength}]

LEMMA HalfFacts ==
    /\ CycleLength \div 2 \in Nat \ {0} /\ 2 * (CycleLength \div 2) = CycleLength
    /\ 0 \in 0 .. CycleLength \div 2
    /\ CycleLength \div 2 \in 0 .. CycleLength \div 2
  BY LengthFacts

LEMMA LastAtIs ==
    ASSUME SolverTypeOK, NEW S \in SUBSET DeviceEdges, IsCycle(S), NEW e \in S, NEW t \in Tables
    PROVE  LastAt(S, t, hash[e][t]) = e
  <1>1. \A d \in S : hash[d][t] = hash[e][t] => d = e
    BY CycleFacts
  <1>2. e <= e
    BY CuckatooSolverAssumption DEF DeviceEdges, CuckatooSolverAssumption
  <1>3. QED
    BY <1>1, <1>2 DEF LastAt

LEMMA TurnGoesOn ==
    ASSUME SolverTypeOK, NEW S \in SUBSET DeviceEdges, IsCycle(S), NEW x, IsWay(x, S),
           NEW i \in Nat, 2 * i < CycleLength
    PROVE  Turn(S, Place(x, i)) = Place(x, i + 1)
  <1> DEFINE a == 2 * i + 1
             b == 2 * i + 2
             s == Place(x, i)
             v == hash[x[a]]["v"]
             w == hash[x[b]]["v"]
             next == hash[x[b]]["u"]
  <1>1. /\ a \in 1 .. CycleLength /\ b \in 2 .. CycleLength /\ b \in 1 .. CycleLength
        /\ a # b /\ b - 1 = a /\ b % 2 = 0
        /\ a .. CycleLength = (b + 1 .. CycleLength) \cup {a, b}
        /\ a \notin b + 1 .. CycleLength /\ b \notin b + 1 .. CycleLength
        /\ \A m \in b + 1 .. CycleLength : m \in 1 .. CycleLength
        /\ 2 * (i + 1) + 1 = b + 1
    BY LengthFacts
  <1>2. 2 * (i + 1) < CycleLength => b + 1 \in 2 .. CycleLength /\ SideAt(b + 1) = "u"
    BY LengthFacts DEF SideAt
  <1>3. ~(2 * (i + 1) < CycleLength) => b = CycleLength
    BY LengthFacts
  <1>4. "u" \in Tables /\ "v" \in Tables /\ Reverse("u") = "v" /\ Reverse("v") = "u" /\ SideAt(b) = "v"
    BY <1>1 DEF Tables, Reverse, SideAt
  <1>5. /\ \A m \in 1 .. CycleLength : x[m] \in S
        /\ \A j, k \in 1 .. CycleLength : x[j] = x[k] => j = k
        /\ \A m \in 2 .. CycleLength : Neighbours(x[m], x[m - 1], SideAt(m))
        /\ Neighbours(x[1], x[CycleLength], "u")
    BY DEF IsWay, Bijection, Injection, IsInjective
  <1>6. \A j, k \in 1 .. CycleLength : \A t \in Tables : hash[x[j]][t] = hash[x[k]][t] => j = k
    BY <1>5, CycleFacts
  <1> HIDE DEF a, b
  <1>7. s.u = hash[x[a]]["u"] /\ s.ok = TRUE
    BY DEF Place, a
  <1>8. /\ s.us = {hash[x[m]]["u"] : m \in a .. CycleLength}
        /\ s.vs = {hash[x[m]]["v"] : m \in a .. CycleLength}
    BY DEF Place, a
  <1>9. w = Partner(v)
    BY <1>1, <1>4, <1>5 DEF Neighbours
  <1>10. v # w
    BY <1>1, <1>4, <1>6
  <1>11. OtherNode(S, "u", s.u) = v
    BY <1>1, <1>4, <1>5, <1>7, LastAtIs DEF OtherNode
  <1>12. OtherNode(S, "v", Partner(v)) = next
    <2>1. LastAt(S, "v", w) = x[b]
      BY <1>1, <1>4, <1>5, LastAtIs
    <2>2. QED
      BY <2>1, <1>4, <1>9 DEF OtherNode
  <1>13. s.u \in s.us /\ w \in s.vs \ {v}
    <2>1. a \in a .. CycleLength /\ b \in a .. CycleLength
      BY <1>1
    <2>2. QED
      BY <2>1, <1>7, <1>8, <1>10
  <1> HIDE DEF s, v, w, next
  <1>14. Turn(S, s) = [ok |-> TRUE, u |-> Partner(next),
                       us |-> s.us \ {s.u, next}, vs |-> s.vs \ {v, w}]
    BY <1>7, <1>9, <1>11, <1>12, <1>13 DEF Turn
  <1>15. s.us \ {s.u, next} = {hash[x[m]]["u"] : m \in b + 1 .. CycleLength}
    <2>1. s.us \ {hash[x[a]]["u"], hash[x[b]]["u"]} = {hash[x[m]]["u"] : m \in b + 1 .. CycleLength}
      BY <1>1, <1>4, <1>6, <1>8
    <2>2. QED
      BY <2>1, <1>7 DEF next
  <1>16. s.vs \ {v, w} = {hash[x[m]]["v"] : m \in b + 1 .. CycleLength}
    <2>1. s.vs \ {hash[x[a]]["v"], hash[x[b]]["v"]} = {hash[x[m]]["v"] : m \in b + 1 .. CycleLength}
      BY <1>1, <1>4, <1>6, <1>8
    <2>2. QED
      BY <2>1 DEF v, w
  <1>17. Partner(next) = IF 2 * (i + 1) < CycleLength THEN hash[x[b + 1]]["u"] ELSE hash[x[1]]["u"]
    <2>1. CASE 2 * (i + 1) < CycleLength
      <3>1. (b + 1) - 1 = b
        BY <1>1
      <3>2. Neighbours(x[b + 1], x[b], "u")
        BY <2>1, <3>1, <1>2, <1>5
      <3>3. QED
        BY <2>1, <3>2 DEF Neighbours, next
    <2>2. CASE ~(2 * (i + 1) < CycleLength)
      BY <2>2, <1>3, <1>5 DEF Neighbours, next
    <2>3. QED
      BY <2>1, <2>2
  <1>18. QED
    BY <1>1, <1>14, <1>15, <1>16, <1>17 DEF Place, s

LEMMA FollowsWay ==
    ASSUME SolverTypeOK, NEW S \in SUBSET DeviceEdges, IsCycle(S), NEW x, IsWay(x, S)
    PROVE  Follow(S, hash[x[1]]["u"]) = Place(x, CycleLength \div 2)
  <1> DEFINE h == CycleLength \div 2
             start == hash[x[1]]["u"]
             first == [ok |-> TRUE, u |-> start, us |-> NodesOf(S, "u"), vs |-> NodesOf(S, "v")]
             F == CHOOSE f : f = [i \in 0 .. h |-> IF i = 0 THEN first ELSE Turn(S, f[i - 1])]
             g == [i \in 0 .. h |-> Place(x, i)]
  <1>1. Follow(S, start) = F[h]
    BY Zenon DEF Follow
  <1>2. h \in Nat \ {0} /\ 2 * h = CycleLength
    BY HalfFacts
  <1>3. Place(x, 0) = first
    <2>1. S = {x[m] : m \in 1 .. CycleLength}
      BY DEF IsWay, Bijection, Injection, Surjection
    <2>2. NodesOf(S, "u") = {hash[x[m]]["u"] : m \in 1 .. CycleLength}
      BY <2>1 DEF NodesOf
    <2>3. NodesOf(S, "v") = {hash[x[m]]["v"] : m \in 1 .. CycleLength}
      BY <2>1 DEF NodesOf
    <2>4. 2 * 0 < CycleLength /\ 2 * 0 + 1 = 1
      BY LengthFacts
    <2>5. QED
      BY <2>2, <2>3, <2>4 DEF Place
  <1>4. ASSUME NEW i \in 0 .. h, i # 0
        PROVE  /\ i - 1 \in 0 .. h /\ Turn(S, Place(x, i - 1)) = Place(x, i)
    <2>1. i - 1 \in 0 .. h /\ i - 1 \in Nat /\ 2 * (i - 1) < CycleLength /\ (i - 1) + 1 = i
      BY <1>2, <1>4
    <2>2. QED
      BY <2>1, TurnGoesOn
  <1> HIDE DEF h, first
  <1>5. g = [i \in 0 .. h |-> IF i = 0 THEN first ELSE Turn(S, g[i - 1])]
    <2>1. \A i \in 0 .. h : g[i] = IF i = 0 THEN first ELSE Turn(S, g[i - 1])
      BY <1>3, <1>4
    <2>2. QED
      BY <2>1
  <1>6. F = [i \in 0 .. h |-> IF i = 0 THEN first ELSE Turn(S, F[i - 1])]
    <2> HIDE DEF g
    <2>1. \E f : f = [i \in 0 .. h |-> IF i = 0 THEN first ELSE Turn(S, f[i - 1])]
      BY <1>5
    <2>2. QED
      BY <2>1, Zenon
  <1> HIDE DEF F
  <1> DEFINE Wrong == {i \in 0 .. h : F[i] # Place(x, i)}
  <1>7. Wrong = {}
    <2> SUFFICES ASSUME Wrong # {} PROVE FALSE
      OBVIOUS
    <2>1. Wrong \subseteq Nat
      OBVIOUS
    <2>2. PICK i \in Wrong : \A j \in Wrong : i <= j
      BY <2>1, LeastNat
    <2>3. i \in 0 .. h /\ F[i] # Place(x, i)
      OBVIOUS
    <2>4. i # 0
      BY <2>3, <1>3, <1>6
    <2>5. i - 1 \in 0 .. h /\ i - 1 \notin Wrong
      BY <2>2, <2>3, <2>4, <1>2
    <2>6. F[i - 1] = Place(x, i - 1)
      BY <2>5
    <2>7. F[i] = Turn(S, F[i - 1])
      BY <2>3, <2>4, <1>6
    <2>8. QED
      BY <2>3, <2>4, <2>6, <2>7, <1>4
  <1>8. h \in 0 .. h
    BY <1>2
  <1>9. F[h] = Place(x, h)
    BY <1>7, <1>8
  <1>10. QED
    BY <1>1, <1>9 DEF h

LEMMA CycleIsValid ==
    ASSUME SolverTypeOK, NEW S \in SUBSET DeviceEdges, IsCycle(S), NEW start \in NodesOf(S, "u")
    PROVE  isValidCycle(S, start)
  <1>1. PICK e \in S : start = hash[e]["u"]
    BY DEF NodesOf
  <1>2. PICK x : IsWay(x, S) /\ x[1] = e
    BY WayAround DEF IsWay
  <1>3. Follow(S, start) = Place(x, CycleLength \div 2)
    BY <1>1, <1>2, FollowsWay
  <1>4. Follow(S, start).ok /\ Follow(S, start).u = start
    <2>1. ~(2 * (CycleLength \div 2) < CycleLength)
      BY HalfFacts, LengthFacts
    <2>2. QED
      BY <2>1, <1>1, <1>2, <1>3 DEF Place
  <1>5. QED
    BY <1>4 DEF isValidCycle, IsCycle

-----------------------------------------------------------------------------
(* From the device's edges to walks of the graph and back.                 *)

LEMMA LastEdge ==
    ASSUME NEW T \in SUBSET DeviceEdges, T # {}
    PROVE  \E e \in T : \A d \in T \ {e} : ComesBefore(d, e)
  <1> DEFINE word(e) == e \div WordSize
  <1>1. WordSize \in Nat \ {0} /\ EdgeCount \in Nat /\ T \subseteq Nat
    <2>1. /\ WordSize \in Nat \ {0} /\ TotalWork \in Nat
          /\ EdgeCount = TotalWork * WordSize
      BY CuckatooSolverAssumption DEF CuckatooSolverAssumption
    <2>2. QED
      BY <2>1 DEF DeviceEdges
  <1>2. \A e \in T : word(e) \in Nat /\ word(e) < EdgeCount
    <2> SUFFICES ASSUME NEW e \in T PROVE word(e) \in Nat /\ word(e) < EdgeCount
      OBVIOUS
    <2>1. word(e) \in Nat /\ word(e) * WordSize <= e
      BY <1>1, QuotientFacts
    <2>2. \A q \in Nat, b \in Nat \ {0} : q <= q * b /\ q * b \in Nat
      OBVIOUS
    <2>3. word(e) <= word(e) * WordSize /\ word(e) * WordSize \in Nat
      BY <2>1, <2>2, <1>1
    <2> HIDE DEF word
    <2>4. e \in Nat /\ e < EdgeCount
      BY <1>1 DEF DeviceEdges
    <2>5. QED
      BY <2>1, <2>3, <2>4, <1>1
  <1> HIDE DEF word
  <1> DEFINE W == {EdgeCount - word(e) : e \in T}
  <1>3. PICK l \in W : \A n \in W : l <= n
    <2>1. \A e \in T : EdgeCount - word(e) \in Nat
      BY <1>1, <1>2
    <2>2. W \subseteq Nat /\ W # {}
      BY <2>1
    <2>3. QED
      BY <2>2, LeastNat
  <1>4. PICK c \in T : l = EdgeCount - word(c)
    OBVIOUS
  <1> DEFINE D == {e \in T : word(e) = word(c)}
  <1>5. PICK e \in D : \A d \in D : e <= d
    <2>1. D \subseteq Nat /\ D # {}
      BY <1>1
    <2>2. QED
      BY <2>1, LeastNat
  <1>6. ASSUME NEW d \in T \ {e}
        PROVE  ComesBefore(d, e)
    <2>1. d \in Nat /\ e \in Nat /\ word(d) \in Nat /\ word(e) \in Nat /\ word(e) = word(c)
      BY <1>1, <1>2, <1>5
    <2>2. word(d) <= word(e)
      <3>1. EdgeCount - word(d) \in W
        OBVIOUS
      <3>2. EdgeCount - word(c) <= EdgeCount - word(d)
        BY <3>1, <1>3, <1>4
      <3>3. QED
        BY <3>2, <2>1, <1>1
    <2>3. CASE word(d) = word(e)
      <3>1. e <= d
        BY <2>1, <2>3, <1>5
      <3>2. d > e
        BY <2>1, <3>1
      <3>3. QED
        BY <2>3, <3>2 DEF ComesBefore, word
    <2>4. CASE word(d) < word(e)
      BY <2>4 DEF ComesBefore, word
    <2>5. QED
      BY <2>1, <2>2, <2>3, <2>4
  <1>7. QED
    BY <1>5, <1>6

(* The edge that a place in the graph is translated to has its nodes.      *)
LEMMA ResolvedFacts ==
    ASSUME SolverInv, NEW w \in found, NEW n \in 1 .. CycleLength
    PROVE  /\ w[n] \in Ids /\ w[n] \in EdgesOn(w)
           /\ resolved(w)[n] \in activeEdges /\ resolved(w)[n] \in DeviceEdges
           /\ hash[resolved(w)[n]] = edges[w[n]]
  <1>1. w \in ClosedWalks
    BY DEF SolverInv, FoundInv
  <1>2. w[n] \in Ids /\ w[n] \in EdgesOn(w)
    BY <1>1 DEF ClosedWalks, EdgesOn
  <1> DEFINE same == {e \in activeEdges : hash[e] = edges[w[n]]}
  <1>3. same \in SUBSET DeviceEdges
    BY DEF SolverInv, SolverTypeOK
  <1>4. same # {}
    <2>1. origin[w[n]] \in activeEdges /\ edges[w[n]] = hash[origin[w[n]]]
      BY <1>2 DEF SolverInv, GraphInv
    <2>2. QED
      BY <2>1
  <1>5. EdgeOf(w[n]) \in same
    BY <1>3, <1>4, LastEdge DEF EdgeOf
  <1>6. resolved(w)[n] = EdgeOf(w[n])
    BY DEF resolved
  <1>7. QED
    BY <1>2, <1>3, <1>5, <1>6

LEMMA SmallestFacts ==
    ASSUME SolverInv, NEW w \in found
    PROVE  Smallest(w) \in 1 .. CycleLength
  <1> DEFINE V == {resolved(w)[n] : n \in 1 .. CycleLength}
  <1>1. V \subseteq Nat /\ V # {}
    BY ResolvedFacts, LengthFacts DEF DeviceEdges
  <1>2. PICK v \in V : \A k \in V : v <= k
    BY <1>1, LeastNat
  <1>3. \E n \in 1 .. CycleLength : \A m \in 1 .. CycleLength : resolved(w)[n] <= resolved(w)[m]
    BY <1>2
  <1>4. QED
    BY <1>3 DEF Smallest

(* The rounds spare a cycle, the graph has its edges, and there they are   *)
(* a closed walk.                                                          *)
LEMMA CycleInGraph ==
    ASSUME SolverInv, stage = "solved", ~overflowed, NEW S \in SUBSET DeviceEdges, IsCycle(S)
    PROVE  \E w \in ClosedWalks :
               /\ \A n \in 1 .. CycleLength : origin[w[n]] \in S
               /\ \A e \in S : \E n \in 1 .. CycleLength : origin[w[n]] = e
               /\ \A m, n \in 1 .. CycleLength : origin[w[m]] = origin[w[n]] => m = n
  <1>1. SolverTypeOK /\ Unprunable(S)
    BY DEF SolverInv, IsCycle
  <1>2. \A e \in S : \E i \in Ids : origin[i] = e
    <2>1. S \subseteq activeEdges
      BY <1>1 DEF SolverInv, RoundsSpare
    <2>2. QED
      BY <2>1 DEF SolverInv, GraphInv
  <1>3. \A i \in Ids : edges[i] = hash[origin[i]]
    BY DEF SolverInv, GraphInv
  <1>4. PICK e0 \in S : TRUE
    <2>1. Cardinality({}) = 0 /\ Cardinality(S) = CycleLength
      BY FS_EmptySet DEF IsCycle
    <2>2. S # {}
      BY <2>1, LengthFacts
    <2>3. QED
      BY <2>2
  <1>5. PICK x : IsWay(x, S)
    BY <1>1, <1>4, WayAround DEF IsWay
  <1>6. /\ x \in [1 .. CycleLength -> S]
        /\ \A j, k \in 1 .. CycleLength : x[j] = x[k] => j = k
        /\ \A e \in S : \E n \in 1 .. CycleLength : x[n] = e
        /\ \A m \in 2 .. CycleLength : Neighbours(x[m], x[m - 1], SideAt(m))
        /\ Neighbours(x[1], x[CycleLength], "u")
    BY <1>5 DEF IsWay, Bijection, Injection, Surjection, IsInjective
  <1> DEFINE w == [n \in 1 .. CycleLength |-> CHOOSE i \in Ids : origin[i] = x[n]]
  <1>7. \A n \in 1 .. CycleLength : w[n] \in Ids /\ origin[w[n]] = x[n]
    BY <1>2, <1>6
  <1>8. w \in [1 .. CycleLength -> Ids]
    BY <1>7
  <1> HIDE DEF w
  <1>9. \A n \in 1 .. CycleLength : edges[w[n]] = hash[x[n]]
    BY <1>3, <1>7
  <1>10. \A n \in 2 .. CycleLength :
             edges[w[n]][SideAt(n)] = Partner(edges[w[n - 1]][SideAt(n)])
    <2>1. \A n \in 2 .. CycleLength : n \in 1 .. CycleLength /\ n - 1 \in 1 .. CycleLength
      BY LengthFacts
    <2>2. QED
      BY <2>1, <1>6, <1>9 DEF Neighbours
  <1>11. Closes(w)
    <2>1. edges[w[1]]["u"] = Partner(edges[w[CycleLength]]["u"])
      BY <1>6, <1>9, LengthFacts DEF Neighbours
    <2>2. edges[w[CycleLength]]["u"] \in Int
      BY <1>7, LengthFacts, EdgeFacts DEF SolverInv, IInv, Tables
    <2>3. QED
      BY <2>1, <2>2, PartnerOf DEF Closes
  <1>12. w \in ClosedWalks
    BY <1>8, <1>10, <1>11 DEF ClosedWalks
  <1>13. QED
    BY <1>6, <1>7, <1>12

(* A walk that is found over the edges of a cycle is handed out.           *)
LEMMA CycleIsHandedOut ==
    ASSUME SolverInv, stage = "solved", ~overflowed, NEW S \in SUBSET DeviceEdges, IsCycle(S)
    PROVE  ResultsFor(S) # {}
  <1>1. PICK w \in ClosedWalks :
            /\ \A n \in 1 .. CycleLength : origin[w[n]] \in S
            /\ \A e \in S : \E n \in 1 .. CycleLength : origin[w[n]] = e
            /\ \A m, n \in 1 .. CycleLength : origin[w[m]] = origin[w[n]] => m = n
    BY CycleInGraph
  <1>2. PICK y \in found : EdgesOn(y) = EdgesOn(w)
    <2>1. pc = "done" /\ todo = {}
      BY DEF SolverInv, ResultInv, SearchInv
    <2>2. QED
      BY <2>1 DEF SolverInv, SearchInv, IsFound
  <1>3. \A n \in 1 .. CycleLength :
            /\ w[n] \in Ids /\ w[n] \in EdgesOn(w) /\ edges[w[n]] = hash[origin[w[n]]]
    BY DEF ClosedWalks, EdgesOn, SolverInv, GraphInv
  <1>4. \A n \in 1 .. CycleLength :
            /\ y[n] \in EdgesOn(y)
            /\ hash[resolved(y)[n]] = edges[y[n]]
    BY ResolvedFacts
  <1>5. {hash[resolved(y)[n]] : n \in 1 .. CycleLength} = {hash[e] : e \in S}
    <2>1. ASSUME NEW n \in 1 .. CycleLength
          PROVE  \E e \in S : hash[resolved(y)[n]] = hash[e]
      <3>1. PICK m \in 1 .. CycleLength : y[n] = w[m]
        BY <1>2, <1>4 DEF EdgesOn
      <3>2. QED
        BY <3>1, <1>1, <1>3, <1>4
    <2>2. ASSUME NEW e \in S
          PROVE  \E n \in 1 .. CycleLength : hash[resolved(y)[n]] = hash[e]
      <3>1. PICK m \in 1 .. CycleLength : origin[w[m]] = e
        BY <1>1
      <3>2. PICK n \in 1 .. CycleLength : y[n] = w[m]
        BY <1>2, <1>3 DEF EdgesOn
      <3>3. QED
        BY <3>1, <3>2, <1>3, <1>4
    <2>3. QED
      BY <2>1, <2>2
  <1>6. \A m, n \in 1 .. CycleLength : y[m] = y[n] => m = n
    <2> DEFINE T == EdgesOn(w)
               I == 1 .. CycleLength
    <2>1. w \in Bijection(I, T)
      <3>1. w \in [I -> T]
        BY <1>3 DEF ClosedWalks
      <3>2. \A m, n \in I : w[m] = w[n] => m = n
        BY <1>1
      <3>3. \A i \in T : \E n \in I : w[n] = i
        BY DEF EdgesOn
      <3>4. QED
        BY <3>1, <3>2, <3>3 DEF Bijection, Injection, Surjection, IsInjective
    <2>2. IsFiniteSet(I) /\ Cardinality(I) = CycleLength
      BY LengthFacts, FS_Interval
    <2>3. Cardinality(T) = Cardinality(I)
      <3>1. ExistsBijection(I, T)
        BY <2>1 DEF ExistsBijection
      <3>2. QED
        BY <3>1, <2>2, FS_Bijection
    <2>4. y \in Surjection(I, T)
      <3>1. y \in [I -> Ids]
        BY DEF SolverInv, FoundInv, ClosedWalks
      <3>2. \A n \in I : y[n] \in T
        BY <1>2, <1>4
      <3>3. y \in [I -> T]
        BY <3>1, <3>2
      <3>4. \A i \in T : \E n \in I : y[n] = i
        BY <1>2 DEF EdgesOn
      <3>5. QED
        BY <3>3, <3>4 DEF Surjection
    <2> HIDE DEF T, I
    <2>5. y \in Injection(I, T)
      BY <2>2, <2>3, <2>4, FS_SurjSameCardinalityImpliesInj
    <2>6. y \in [I -> T] /\ \A m, n \in I : y[m] = y[n] => m = n
      BY <2>5 DEF Injection, IsInjective
    <2>7. QED
      BY <2>6 DEF I
  <1>7. ~NotFullLength(y)
    <2> SUFFICES ASSUME NEW m \in 1 .. CycleLength, NEW n \in 1 .. CycleLength,
                        resolved(y)[m] = resolved(y)[n]
                 PROVE  m = n
      BY SmallestFacts DEF NotFullLength
    <2>1. edges[y[m]] = edges[y[n]]
      BY <1>4
    <2>2. PICK j \in 1 .. CycleLength, k \in 1 .. CycleLength : y[m] = w[j] /\ y[n] = w[k]
      BY <1>2, <1>4 DEF EdgesOn
    <2>3. hash[origin[w[j]]] = hash[origin[w[k]]]
      BY <2>1, <2>2, <1>3
    <2>4. origin[w[j]] = origin[w[k]]
      <3>1. \A d, e \in S : hash[d]["u"] = hash[e]["u"] => d = e
        BY CycleFacts DEF SolverInv, Tables
      <3>2. QED
        BY <2>3, <3>1, <1>1
    <2>5. QED
      BY <2>2, <2>4, <1>1, <1>6
  <1>8. y \in result
    BY <1>7 DEF SolverInv, ResultInv
  <1>9. QED
    BY <1>5, <1>8 DEF ResultsFor

(* What is handed out for a cycle whose edges are like no others is the    *)
(* cycle, and there is one such walk only.                                 *)

LEMMA WalkOfCycle ==
    ASSUME SolverInv, stage = "solved", NEW S \in SUBSET DeviceEdges, IsCycle(S),
           \A e \in S : ~HasTwin(e), NEW y \in ResultsFor(S)
    PROVE  /\ y \in found
           /\ {origin[i] : i \in EdgesOn(y)} = S
           /\ {resolved(y)[n] : n \in 1 .. CycleLength} = S
  <1>1. y \in found /\ {hash[resolved(y)[n]] : n \in 1 .. CycleLength} = {hash[e] : e \in S}
    BY DEF ResultsFor, SolverInv, SolverTypeOK
  <1>2. \A n \in 1 .. CycleLength :
            /\ y[n] \in Ids
            /\ resolved(y)[n] \in DeviceEdges
            /\ hash[resolved(y)[n]] = edges[y[n]]
    BY <1>1, ResolvedFacts
  <1>3. \A i \in Ids : origin[i] \in DeviceEdges /\ edges[i] = hash[origin[i]]
    BY DEF SolverInv, GraphInv, SolverTypeOK
  <1>4. \A e \in S : \A d \in DeviceEdges : hash[d] = hash[e] => d = e
    BY DEF HasTwin
  <1>5. ASSUME NEW n \in 1 .. CycleLength
        PROVE  \E e \in S : resolved(y)[n] = e /\ origin[y[n]] = e
    <2>1. PICK e \in S : hash[resolved(y)[n]] = hash[e]
      BY <1>1
    <2>2. QED
      BY <2>1, <1>2, <1>3, <1>4
  <1>6. ASSUME NEW e \in S
        PROVE  \E n \in 1 .. CycleLength : resolved(y)[n] = e /\ origin[y[n]] = e
    <2>1. PICK n \in 1 .. CycleLength : hash[resolved(y)[n]] = hash[e]
      BY <1>1
    <2>2. QED
      BY <2>1, <1>2, <1>3, <1>4
  <1>7. {resolved(y)[n] : n \in 1 .. CycleLength} = S
    BY <1>5, <1>6
  <1>8. {origin[i] : i \in EdgesOn(y)} = S
    BY <1>5, <1>6 DEF EdgesOn
  <1>9. QED
    BY <1>1, <1>7, <1>8

LEMMA WalkIsUnique ==
    ASSUME SolverInv, stage = "solved", NEW S \in SUBSET DeviceEdges, IsCycle(S),
           \A e \in S : ~HasTwin(e), NEW y \in ResultsFor(S), NEW z \in ResultsFor(S)
    PROVE  y = z
  <1>1. /\ y \in found /\ {origin[i] : i \in EdgesOn(y)} = S
        /\ z \in found /\ {origin[i] : i \in EdgesOn(z)} = S
    BY WalkOfCycle
  <1>2. y \in ClosedWalks /\ z \in ClosedWalks
    BY <1>1 DEF SolverInv, FoundInv
  <1>3. /\ \A i \in Ids : edges[i] = hash[origin[i]]
        /\ \A i, j \in Ids : origin[i] = origin[j] => i = j
    BY DEF SolverInv, GraphInv
  <1>4. EdgesOn(y) \subseteq Ids /\ EdgesOn(z) \subseteq Ids
    BY <1>2 DEF ClosedWalks, EdgesOn
  <1>5. EdgesOn(y) = EdgesOn(z)
    BY <1>1, <1>3, <1>4
  <1>6. ASSUME NEW i \in EdgesOn(y), NEW j \in EdgesOn(y), NEW t \in Tables,
               edges[i][t] = edges[j][t]
        PROVE  i = j
    <2>1. origin[i] \in S /\ origin[j] \in S
      BY <1>1
    <2>2. \A d, e \in S : hash[d][t] = hash[e][t] => d = e
      BY CycleFacts DEF SolverInv
    <2>3. hash[origin[i]][t] = hash[origin[j]][t]
      BY <1>3, <1>4, <1>6
    <2>4. origin[i] = origin[j]
      BY <2>1, <2>2, <2>3
    <2>5. QED
      BY <2>4, <1>3, <1>4
  <1>7. \A n \in 1 .. CycleLength : y[n] \in EdgesOn(y) /\ z[n] \in EdgesOn(y)
    BY <1>5 DEF EdgesOn
  <1>8. y[1] = z[1]
    <2>1. edges[y[1]]["u"] = edges[z[1]]["u"]
      BY <1>1, <1>5 DEF SolverInv, FoundInv
    <2>2. QED
      BY <2>1, <1>6, <1>7, LengthFacts DEF Tables
  <1>9. \A n \in 2 .. CycleLength : y[n - 1] = z[n - 1] => y[n] = z[n]
    <2> SUFFICES ASSUME NEW n \in 2 .. CycleLength, y[n - 1] = z[n - 1] PROVE y[n] = z[n]
      OBVIOUS
    <2>1. edges[y[n]][SideAt(n)] = edges[z[n]][SideAt(n)]
      BY <1>2 DEF ClosedWalks
    <2>2. SideAt(n) \in Tables /\ n \in 1 .. CycleLength
      BY LengthFacts DEF SideAt, Tables
    <2>3. QED
      BY <2>1, <2>2, <1>6, <1>7
  <1> DEFINE Differ == {n \in 1 .. CycleLength : y[n] # z[n]}
  <1>10. Differ = {}
    <2> SUFFICES ASSUME Differ # {} PROVE FALSE
      OBVIOUS
    <2>1. Differ \subseteq Nat
      OBVIOUS
    <2>2. PICK n \in Differ : \A m \in Differ : n <= m
      BY <2>1, LeastNat
    <2>3. n # 1
      BY <1>8
    <2>4. n \in 2 .. CycleLength /\ n - 1 \in 1 .. CycleLength /\ n - 1 \notin Differ
      BY <2>2, <2>3, LengthFacts
    <2>5. QED
      BY <2>4, <1>9
  <1>11. \A n \in 1 .. CycleLength : y[n] = z[n]
    BY <1>10
  <1>12. QED
    <2>1. y \in [1 .. CycleLength -> Ids] /\ z \in [1 .. CycleLength -> Ids]
      BY <1>2 DEF ClosedWalks
    <2>2. /\ y = [n \in 1 .. CycleLength |-> y[n]]
          /\ z = [n \in 1 .. CycleLength |-> z[n]]
      BY <2>1
    <2>3. [n \in 1 .. CycleLength |-> y[n]] = [n \in 1 .. CycleLength |-> z[n]]
      BY <1>11
    <2>4. QED
      BY <2>2, <2>3

(* From the bitmaps of the first round to the last test on the CPU: unless *)
(* a bucket of the device is too small, every cycle of the edges is handed *)
(* out, once if none of its edges has a twin, and is valid.                *)
THEOREM SolverFindsEveryCycle == SolverSpec => []EveryCycleFound
  <1>1. SolverInv => EveryCycleFound
    <2> SUFFICES ASSUME SolverInv, stage = "solved", ~overflowed,
                        NEW S \in SUBSET DeviceEdges, IsCycle(S)
                 PROVE  /\ ResultsFor(S) # {}
                        /\ (\A e \in S : ~HasTwin(e)) =>
                               \E w \in ResultsFor(S) :
                                   /\ ResultsFor(S) = {w}
                                   /\ {resolved(w)[n] : n \in 1 .. CycleLength} = S
                        /\ \A start \in NodesOf(S, "u") : isValidCycle(S, start)
      BY DEF EveryCycleFound
    <2>1. PICK w \in ResultsFor(S) : TRUE
      BY CycleIsHandedOut
    <2>2. ASSUME \A e \in S : ~HasTwin(e)
          PROVE  ResultsFor(S) = {w} /\ {resolved(w)[n] : n \in 1 .. CycleLength} = S
      BY <2>2, WalkIsUnique, WalkOfCycle
    <2>3. \A start \in NodesOf(S, "u") : isValidCycle(S, start)
      BY CycleIsValid DEF SolverInv
    <2>4. QED
      BY <2>1, <2>2, <2>3
  <1>2. QED
    BY <1>1, SolverInvariant, PTL

-----------------------------------------------------------------------------
(* isValidCycle on any edges. Its maps hold what the turns so far have not *)
(* come to; each turn comes to two more edges.                             *)

TurnState == [ok : BOOLEAN, u : Nodes, us : SUBSET Nodes, vs : SUBSET Nodes]

FirstState(E, start) ==
    [ok |-> TRUE, u |-> start, us |-> NodesOf(E, "u"), vs |-> NodesOf(E, "v")]

Passed(E, T, i, s) ==
    /\ T \subseteq E /\ Cardinality(T) = 2 * i
    /\ s.us = NodesOf(E, "u") \ NodesOf(T, "u")
    /\ s.vs = NodesOf(E, "v") \ NodesOf(T, "v")
    /\ \A k \in NodesOf(T, "v") : Partner(k) \in NodesOf(T, "v")

LEMMA LastAtFacts ==
    ASSUME NEW E \in SUBSET DeviceEdges, NEW t \in Tables, NEW k \in NodesOf(E, t)
    PROVE  LastAt(E, t, k) \in E /\ hash[LastAt(E, t, k)][t] = k
  <1> DEFINE D == {EdgeCount - e : e \in {d \in E : hash[d][t] = k}}
  <1>1. EdgeCount \in Nat /\ \A e \in E : e \in Nat /\ e < EdgeCount
    <2>1. TotalWork \in Nat /\ WordSize \in Nat /\ EdgeCount = TotalWork * WordSize
      BY CuckatooSolverAssumption DEF CuckatooSolverAssumption
    <2>2. QED
      BY <2>1 DEF DeviceEdges
  <1>2. D \subseteq Nat /\ D # {}
    <2>1. \A e \in E : EdgeCount - e \in Nat
      BY <1>1
    <2>2. QED
      BY <2>1 DEF NodesOf
  <1>3. PICK l \in D : \A n \in D : l <= n
    BY <1>2, LeastNat
  <1>4. PICK e \in E : hash[e][t] = k /\ l = EdgeCount - e
    OBVIOUS
  <1>5. ASSUME NEW d \in E, hash[d][t] = k
        PROVE  d <= e
    <2>1. EdgeCount - d \in D
      BY <1>5
    <2>2. EdgeCount - e <= EdgeCount - d
      BY <2>1, <1>3, <1>4
    <2>3. QED
      BY <2>2, <1>1
  <1>6. \E c \in E : hash[c][t] = k /\ \A d \in E : hash[d][t] = k => d <= c
    BY <1>4, <1>5
  <1>7. QED
    BY <1>6 DEF LastAt

LEMMA TurnPasses ==
    ASSUME SolverTypeOK, NEW E \in SUBSET DeviceEdges, IsFiniteSet(E), NEW s \in TurnState,
           NEW i \in Nat, s.ok => \E T : Passed(E, T, i, s)
    PROVE  /\ Turn(E, s) \in TurnState
           /\ Turn(E, s).ok => \E T : Passed(E, T, i + 1, Turn(E, s))
  <1> DEFINE a == LastAt(E, "u", s.u)
             v == OtherNode(E, "u", s.u)
             w == Partner(v)
             b == LastAt(E, "v", w)
             next == OtherNode(E, "v", w)
  <1>1. CASE ~(s.ok /\ s.u \in s.us /\ w \in s.vs \ {v})
    <2>1. Turn(E, s) = [s EXCEPT !.ok = FALSE]
      BY <1>1 DEF Turn
    <2>2. QED
      BY <2>1 DEF TurnState
  <1>2. CASE s.ok /\ s.u \in s.us /\ w \in s.vs \ {v}
    <2>1. PICK T : Passed(E, T, i, s)
      BY <1>2
    <2>2. /\ s.u \in NodesOf(E, "u") /\ w \in NodesOf(E, "v") /\ w \notin NodesOf(T, "v") /\ v # w
          /\ T \subseteq E
      BY <1>2, <2>1 DEF Passed
    <2>3. /\ a \in E /\ hash[a]["u"] = s.u /\ hash[a]["v"] = v
          /\ b \in E /\ hash[b]["v"] = w /\ hash[b]["u"] = next
      BY <2>2, LastAtFacts DEF OtherNode, Tables, Reverse
    <2>4. Turn(E, s) = [ok |-> TRUE, u |-> Partner(next),
                        us |-> s.us \ {s.u, next}, vs |-> s.vs \ {v, w}]
      BY <1>2 DEF Turn
    <2>5. \A e \in E : \A t \in Tables : hash[e][t] \in Nodes /\ hash[e][t] \in Int
      BY SolverFacts
    <2>6. v \in Int /\ Partner(w) = v /\ next \in Nodes
      BY <2>3, <2>5, PartnerOf DEF Tables
    <2> HIDE DEF a, v, w, b, next
    <2>7. v \notin NodesOf(T, "v")
      BY <2>1, <2>2 DEF Passed, w
    <2>8. a \notin T /\ b \notin T /\ a # b
      BY <2>2, <2>3, <2>7 DEF NodesOf
    <2> DEFINE R == T \cup {a, b}
    <2>9. R \subseteq E /\ Cardinality(R) = 2 * (i + 1)
      <3>1. IsFiniteSet(T) /\ Cardinality(T) = 2 * i
        BY <2>1, <2>2, FS_Subset DEF Passed
      <3>2. IsFiniteSet(T \cup {a}) /\ Cardinality(T \cup {a}) = 2 * i + 1
        BY <3>1, <2>8, FS_AddElement
      <3>3. Cardinality((T \cup {a}) \cup {b}) = (2 * i + 1) + 1
        BY <3>2, <2>8, FS_AddElement
      <3>4. R = (T \cup {a}) \cup {b}
        OBVIOUS
      <3>5. (2 * i + 1) + 1 = 2 * (i + 1)
        OBVIOUS
      <3>6. R \subseteq E
        BY <2>2, <2>3
      <3>7. QED
        BY <3>3, <3>4, <3>5, <3>6
    <2>10. NodesOf(R, "u") = NodesOf(T, "u") \cup {s.u, next}
      BY <2>3 DEF NodesOf
    <2>11. NodesOf(R, "v") = NodesOf(T, "v") \cup {v, w}
      BY <2>3 DEF NodesOf
    <2> HIDE DEF R
    <2>12. Passed(E, R, i + 1, Turn(E, s))
      <3>1. s.us \ {s.u, next} = NodesOf(E, "u") \ NodesOf(R, "u")
        BY <2>1, <2>10 DEF Passed
      <3>2. s.vs \ {v, w} = NodesOf(E, "v") \ NodesOf(R, "v")
        BY <2>1, <2>11 DEF Passed
      <3>3. \A k \in NodesOf(R, "v") : Partner(k) \in NodesOf(R, "v")
        BY <2>1, <2>6, <2>11 DEF Passed, w
      <3>4. QED
        BY <2>4, <2>9, <3>1, <3>2, <3>3 DEF Passed
    <2>13. Turn(E, s) \in TurnState
      <3>1. Partner(next) \in Nodes
        BY <2>6, PartnerIsNode
      <3>2. QED
        BY <2>4, <3>1 DEF TurnState
    <2>14. QED
      BY <2>12, <2>13
  <1>3. QED
    BY <1>1, <1>2

LEMMA FollowPasses ==
    ASSUME SolverTypeOK, NEW E \in SUBSET DeviceEdges, IsFiniteSet(E), NEW start \in NodesOf(E, "u")
    PROVE  Follow(E, start).ok => \E T : Passed(E, T, CycleLength \div 2, Follow(E, start))
  <1> DEFINE h == CycleLength \div 2
             first == FirstState(E, start)
             F == CHOOSE f : f = [i \in 0 .. h |-> IF i = 0 THEN first ELSE Turn(E, f[i - 1])]
             G(n, f) == f = [i \in 0 .. n |-> IF i = 0 THEN first ELSE Turn(E, f[i - 1])]
  <1>1. Follow(E, start) = F[h]
    BY Zenon DEF Follow, FirstState
  <1>2. h \in Nat \ {0}
    BY HalfFacts
  <1>3. first \in TurnState /\ Passed(E, {}, 0, first)
    <2>1. \A e \in E : \A t \in Tables : hash[e][t] \in Nodes
      BY SolverFacts
    <2>2. start \in Nodes /\ NodesOf(E, "u") \subseteq Nodes /\ NodesOf(E, "v") \subseteq Nodes
      BY <2>1 DEF NodesOf, Tables
    <2>3. Cardinality({}) = 0 /\ NodesOf({}, "u") = {} /\ NodesOf({}, "v") = {}
      BY FS_EmptySet DEF NodesOf
    <2>4. QED
      BY <2>2, <2>3 DEF FirstState, TurnState, Passed
  <1> HIDE DEF h, first
  <1> DEFINE None == {n \in Nat : ~\E f : G(n, f)}
  <1>4. None = {}
    <2> SUFFICES ASSUME None # {} PROVE FALSE
      OBVIOUS
    <2>1. PICK n \in None : \A m \in None : n <= m
      <3>1. None \subseteq Nat
        OBVIOUS
      <3>2. QED
        BY <3>1, LeastNat
    <2>2. n # 0
      <3> DEFINE f == [i \in 0 .. 0 |-> first]
      <3>1. f = [i \in 0 .. 0 |-> IF i = 0 THEN first ELSE Turn(E, f[i - 1])]
        OBVIOUS
      <3>2. G(0, f)
        BY <3>1
      <3>3. QED
        BY <3>2, <2>1
    <2>3. n \in Nat /\ n - 1 \in Nat /\ n - 1 \notin None
      BY <2>1, <2>2
    <2>4. PICK f : f = [i \in 0 .. n - 1 |-> IF i = 0 THEN first ELSE Turn(E, f[i - 1])]
      BY <2>3
    <2> DEFINE g == [i \in 0 .. n |-> IF i = n THEN Turn(E, f[n - 1]) ELSE f[i]]
    <2>5. ASSUME NEW i \in 0 .. n
          PROVE  g[i] = IF i = 0 THEN first ELSE Turn(E, g[i - 1])
      <3>1. CASE i = 0
        BY <3>1, <2>2, <2>3, <2>4
      <3>2. CASE i # 0
        <4>1. i - 1 \in 0 .. n /\ i - 1 # n /\ i - 1 \in 0 .. n - 1
          BY <3>2, <2>3
        <4>2. g[i - 1] = f[i - 1]
          BY <4>1
        <4>3. CASE i = n
          BY <4>2, <4>3, <3>2
        <4>4. CASE i # n
          <5>1. i \in 0 .. n - 1
            BY <4>4, <2>3
          <5>2. f[i] = Turn(E, f[i - 1])
            BY <5>1, <3>2, <2>4
          <5>3. QED
            BY <4>2, <4>4, <5>2, <3>2
        <4>5. QED
          BY <4>3, <4>4
      <3>3. QED
        BY <3>1, <3>2
    <2>6. g = [i \in 0 .. n |-> IF i = 0 THEN first ELSE Turn(E, g[i - 1])]
      BY <2>5
    <2> HIDE DEF g
    <2>7. G(n, g)
      BY <2>6
    <2>8. QED
      BY <2>1, <2>7
  <1>5. F = [i \in 0 .. h |-> IF i = 0 THEN first ELSE Turn(E, F[i - 1])]
    <2>1. \E f : f = [i \in 0 .. h |-> IF i = 0 THEN first ELSE Turn(E, f[i - 1])]
      BY <1>2, <1>4
    <2>2. QED
      BY <2>1, Zenon
  <1> HIDE DEF F
  <1> DEFINE Right(i) == F[i] \in TurnState /\ (F[i].ok => \E T : Passed(E, T, i, F[i]))
             Wrong == {i \in 0 .. h : ~Right(i)}
  <1>6. Wrong = {}
    <2> SUFFICES ASSUME Wrong # {} PROVE FALSE
      OBVIOUS
    <2>1. PICK i \in Wrong : \A j \in Wrong : i <= j
      <3>1. Wrong \subseteq Nat
        OBVIOUS
      <3>2. QED
        BY <3>1, LeastNat
    <2>2. Right(0)
      <3>1. F[0] = first
        BY <1>2, <1>5
      <3>2. QED
        BY <3>1, <1>3
    <2>3. i \in 0 .. h /\ i # 0 /\ i - 1 \in Nat /\ i - 1 \in 0 .. h /\ (i - 1) + 1 = i
      BY <2>2, <1>2
    <2>4. Right(i - 1)
      BY <2>1, <2>3
    <2>5. F[i] = Turn(E, F[i - 1])
      BY <2>3, <1>5
    <2>6. Right(i)
      BY <2>3, <2>4, <2>5, TurnPasses
    <2>7. QED
      BY <2>6
  <1>7. Right(h)
    BY <1>2, <1>6
  <1>8. QED
    BY <1>1, <1>7 DEF h

(* isValidCycle never fails one of its CHECKs: h turns come to all of the  *)
(* edges, whatever their order.                                            *)
THEOREM ValidationNeverFails == SolverSpec => []ChecksPass
  <1>1. SolverInv => ChecksPass
    <2> SUFFICES ASSUME SolverInv, stage = "solved", NEW w \in result,
                        NEW E \in SUBSET DeviceEdges,
                        E = {resolved(w)[n] : n \in 1 .. CycleLength},
                        NEW start \in NodesOf(E, "u"),
                        Cardinality(E) = CycleLength, Follow(E, start).ok
                 PROVE  Follow(E, start).us = {} /\ Follow(E, start).vs = {}
      <3>1. ASSUME SolverInv, NEW w \in result
            PROVE  {resolved(w)[n] : n \in 1 .. CycleLength} \in SUBSET DeviceEdges
        <4>1. w \in found
          BY <3>1 DEF SolverInv, SolverTypeOK
        <4>2. \A n \in 1 .. CycleLength : resolved(w)[n] \in DeviceEdges
          BY <3>1, <4>1, ResolvedFacts
        <4>3. QED
          BY <4>2
      <3>2. QED
        BY <3>1 DEF ChecksPass, ChecksHold
    <2>1. IsFiniteSet(E)
      <3>1. EdgeCount \in Int
        BY CuckatooSolverAssumption DEF CuckatooSolverAssumption
      <3>2. IsFiniteSet(DeviceEdges)
        BY <3>1, FS_Interval DEF DeviceEdges
      <3>3. QED
        BY <3>2, FS_Subset
    <2>2. PICK T : Passed(E, T, CycleLength \div 2, Follow(E, start))
      BY <2>1, FollowPasses DEF SolverInv
    <2>3. T = E
      <3>1. T \in SUBSET E /\ Cardinality(T) = Cardinality(E)
        BY <2>2, HalfFacts DEF Passed
      <3>2. QED
        BY <3>1, <2>1, FS_Subset
    <2>4. QED
      BY <2>2, <2>3 DEF Passed
  <1>2. QED
    BY <1>1, SolverInvariant, PTL

(* What a solve hands out: every cycle, and nothing that ends the process. *)
THEOREM SolverDelivers == SolverSpec => []CyclesDelivered
  <1>1. EveryCycleFound /\ ChecksPass => CyclesDelivered
    BY DEF CyclesDelivered
  <1>2. QED
    BY <1>1, SolverFindsEveryCycle, ValidationNeverFails, PTL
=============================================================================
