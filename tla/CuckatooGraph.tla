---------------------------- MODULE CuckatooGraph ----------------------------
(***************************************************************************)
(* The graph of the Cuckatoo solver (algorithm/grin/Graph.h and Graph.cpp). *)
(* Each edge is stored in two hash tables, under its u node and under its  *)
(* v node. Nodes 2n and 2n+1 are partners: a cycle that enters one of them *)
(* leaves by the other. A bucket has room for Capacity entries; what does  *)
(* not fit goes to the next bucket, and the count of attempts tells a      *)
(* search to go on there. prune removes edges at nodes without an active   *)
(* partner, one entry after the other, in both tables at once; findCycles  *)
(* then searches from each node in turn.                                   *)
(***************************************************************************)
EXTENDS Integers, Sequences, FiniteSets

CONSTANTS
    NumBuckets,      \* buckets of a table
    PairsPerBucket,  \* pairs of partners that have the same first bucket
    Capacity,        \* entries in a bucket, 7 in the code
    Edges,           \* edges the hashes may give
    MaxEdges,        \* bound on the number of edges added
    CycleLength      \* length of the cycles sought, 42 in the miner

Tables == {"u", "v"}
Nodes == 0 .. 2 * NumBuckets * PairsPerBucket - 1

ASSUME CuckatooGraphAssumption ==
    /\ NumBuckets \in Nat \ {0}
    /\ PairsPerBucket \in Nat \ {0}
    /\ Capacity \in Nat \ {0}
    /\ MaxEdges \in Nat
    /\ CycleLength \in Nat \ {0}
    /\ Edges \subseteq [Tables -> Nodes]

VARIABLES
    pc,          \* what the solver's task is doing
    edges,       \* the edges added; an edge is known by its place in here
    insertions,  \* per table and bucket: attempts to insert into it
    away,        \* per table and edge: buckets between its first and its own
    full,        \* per table: edges whose entry is active
    side,        \* the table prune was called on
    todo,        \* edges whose entry the loop over the buckets has not reached
    task,        \* table and node removeEdges was called with
    stack,       \* per table: nodes whose pair is yet to be removed
    found,       \* cycles found, as sequences of edges
    clean        \* history: tables prune should leave without dead ends

vars == <<pc, edges, insertions, away, full, side, todo, task, stack, found, clean>>

Ids == 1 .. Len(edges)
Buckets == 0 .. NumBuckets - 1

Reverse(t) == IF t = "u" THEN "v" ELSE "u"
Partner(k) == IF k % 2 = 0 THEN k + 1 ELSE k - 1
Pair(k) == k \div 2

Home(k) == Pair(k) \div PairsPerBucket

(* The bucket a search for k comes to after d others.                      *)
At(k, d) == (Home(k) + d) % NumBuckets

Init ==
    /\ pc = "build"
    /\ edges = <<>>
    /\ insertions = [t \in Tables |-> [b \in Buckets |-> 0]]
    /\ away = [t \in Tables |-> <<>>]
    /\ full = [t \in Tables |-> {}]
    /\ side = "u"
    /\ todo = {}
    /\ task = [table |-> "u", node |-> 0]
    /\ stack = [t \in Tables |-> <<>>]
    /\ found = {}
    /\ clean = {}

-----------------------------------------------------------------------------
(* Searching and inserting.                                                *)

Overflow(t, b) == insertions[t][b] > Capacity

(* Whether a search for the node of edge i gets to its entry.              *)
Reached(t, i) == \A d \in 0 .. away[t][i] - 1 : Overflow(t, At(edges[i][t], d))

(* The active edges a search for node k finds.                             *)
Active(t, k) == {i \in full[t] : edges[i][t] = k /\ Reached(t, i)}

ActivePair(t, k) == {i \in full[t] : Pair(edges[i][t]) = Pair(k) /\ Reached(t, i)}

(* The entry of S that a search meets first. S has nodes of one pair only. *)
First(t, S) ==
    CHOOSE i \in S : \A j \in S : away[t][i] < away[t][j] \/ (away[t][i] = away[t][j] /\ i <= j)

(* Whether exactly one of k and its partner has an active edge.            *)
hasSingleActive(t, k) == (Active(t, k) # {}) # (Active(t, Partner(k)) # {})

HasRoom(t, k) == \E d \in Buckets : insertions[t][At(k, d)] < Capacity

(* How far from its first bucket an entry for k is put.                    *)
Distance(t, k) ==
    CHOOSE d \in Buckets :
        /\ insertions[t][At(k, d)] < Capacity
        /\ \A c \in 0 .. d - 1 : insertions[t][At(k, c)] >= Capacity

OnlyTheOneWithRoom(t, k) == {At(k, Distance(t, k))}

(* The buckets whose count of insertions grows: those that were full and   *)
(* the one with room.                                                      *)
Tried(t, k) == {At(k, d) : d \in 0 .. Distance(t, k)}

AddEdge(e) ==
    /\ pc = "build"
    /\ Len(edges) < MaxEdges
    /\ \A t \in Tables : HasRoom(t, e[t])
    /\ edges' = Append(edges, e)
    /\ away' = [t \in Tables |-> Append(away[t], Distance(t, e[t]))]
    /\ full' = [t \in Tables |-> full[t] \cup {Len(edges) + 1}]
    /\ insertions' =
           [t \in Tables |-> [b \in Buckets |->
               insertions[t][b] + IF b \in Tried(t, e[t]) THEN 1 ELSE 0]]
    /\ UNCHANGED <<pc, side, todo, task, stack, found, clean>>

-----------------------------------------------------------------------------
(* Removing a pair of nodes.                                               *)

(* The entry removeEdge takes out of the other table for edge i.           *)
Twin(t, i) ==
    LET same == {j \in Active(Reverse(t), edges[i][Reverse(t)]) : edges[j][t] = edges[i][t]}
    IN  IF same = {} THEN {} ELSE {First(Reverse(t), same)}

NeverStillActive(t, i) == FALSE

(* Whether removeEdge found another edge at the other node of edge i.      *)
StillActive(t, i) == Active(Reverse(t), edges[i][Reverse(t)]) \ Twin(t, i) # {}

(* What removeEdges appends to deactivated. findCycles ignores it.         *)
Deactivated(t, i) == IF pc = "erase" \/ StillActive(t, i) THEN <<>> ELSE <<edges[i][Reverse(t)]>>

(* The entries removeEdges takes out.                                      *)
Doomed == ActivePair(task.table, task.node)

(* One entry of the loop in removeEdges.                                   *)
RemoveEdge ==
    LET t == task.table
        i == First(t, Doomed)
    IN  /\ pc \in {"remove", "erase"}
        /\ Doomed # {}
        /\ full' = [x \in Tables |-> IF x = t THEN full[t] \ {i} ELSE full[x] \ Twin(t, i)]
        /\ stack' = [stack EXCEPT ![Reverse(t)] = @ \o Deactivated(t, i)]
        /\ UNCHANGED <<pc, edges, insertions, away, side, todo, task, found, clean>>

-----------------------------------------------------------------------------
(* prune.                                                                  *)

HasPartner(t, i) == \E j \in full[t] : edges[j][t] = Partner(edges[i][t])

CleanSides == {t \in Tables : \A i \in full[t] : HasPartner(t, i)}

(* The entry that the loop over all buckets of a table comes to next.      *)
NextEntry(t) ==
    LET bucket(i) == At(edges[i][t], away[t][i])
    IN  CHOOSE i \in todo : \A j \in todo : bucket(i) < bucket(j) \/ (bucket(i) = bucket(j) /\ i <= j)

NextNode(t) == edges[NextEntry(t)][t]

(* The miner prunes from one side, tests from one side and then the other. *)
Prune(t) ==
    /\ pc = "build" \/ (pc = "scan" /\ todo = {} /\ t # side)
    /\ pc' = "scan"
    /\ side' = t
    /\ todo' = Ids
    /\ clean' = CleanSides \cup {t}
    /\ UNCHANGED <<edges, insertions, away, full, task, stack, found>>

SkipNode ==
    /\ pc = "scan"
    /\ todo # {}
    /\ ~hasSingleActive(side, NextNode(side))
    /\ todo' = todo \ {NextEntry(side)}
    /\ UNCHANGED <<pc, edges, insertions, away, full, side, task, stack, found, clean>>

StartRemove ==
    /\ pc = "scan"
    /\ todo # {}
    /\ hasSingleActive(side, NextNode(side))
    /\ todo' = todo \ {NextEntry(side)}
    /\ task' = [table |-> side, node |-> NextNode(side)]
    /\ pc' = "remove"
    /\ UNCHANGED <<edges, insertions, away, full, side, stack, found, clean>>

(* Deactivated nodes of the pruned side are dealt with first: theirs is    *)
(* the inner loop.                                                         *)
MayPop(t) == stack[t] # <<>> /\ (t = side \/ stack[side] = <<>>)

NothingToPopReverse == stack[Reverse(side)] = <<>>

NothingToPop == \A t \in Tables : stack[t] = <<>>

PopDeactivated(t) ==
    /\ pc = "remove"
    /\ Doomed = {}
    /\ MayPop(t)
    /\ task' = [table |-> t, node |-> stack[t][Len(stack[t])]]
    /\ stack' = [stack EXCEPT ![t] = SubSeq(@, 1, Len(@) - 1)]
    /\ UNCHANGED <<pc, edges, insertions, away, full, side, todo, found, clean>>

RemoveReturns ==
    /\ pc = "remove"
    /\ Doomed = {}
    /\ NothingToPop
    /\ pc' = "scan"
    /\ UNCHANGED <<edges, insertions, away, full, side, todo, task, stack, found, clean>>

-----------------------------------------------------------------------------
(* findCycles.                                                             *)

ClosesAtStart(w) == edges[w[CycleLength]]["u"] = edges[w[1]]["u"]

(* The test of the last edge in appendFromV.                               *)
Closes(w) == edges[w[CycleLength]]["u"] = Partner(edges[w[1]]["u"])

(* The table where the n-th edge of a walk is looked for.                  *)
SideAt(n) == IF n % 2 = 0 THEN "v" ELSE "u"

(* What appendFromU and appendFromV find from node u: they alternately     *)
(* take an edge at a node of u and at one of v, go on from the partner of  *)
(* the node they come to, and end at the partner of the first node.        *)
Walks(u) ==
    {w \in [1 .. CycleLength -> full["u"] \cup full["v"]] :
        /\ w[1] \in Active("u", u)
        /\ \A n \in 2 .. CycleLength :
               w[n] \in Active(SideAt(n), Partner(edges[w[n - 1]][SideAt(n)]))
        /\ Closes(w)}

findCycles ==
    /\ pc = "build" \/ (pc = "scan" /\ todo = {})
    /\ pc' = "search"
    /\ todo' = Ids
    /\ UNCHANGED <<edges, insertions, away, full, side, task, stack, found, clean>>

AppendFromU ==
    /\ pc = "search"
    /\ todo # {}
    /\ found' = found \cup Walks(NextNode("u"))
    /\ todo' = todo \ {NextEntry("u")}
    /\ task' = [table |-> "u", node |-> NextNode("u")]
    /\ pc' = "erase"
    /\ UNCHANGED <<edges, insertions, away, full, side, stack, clean>>

EraseReturns ==
    /\ pc = "erase"
    /\ Doomed = {}
    /\ pc' = "search"
    /\ UNCHANGED <<edges, insertions, away, full, side, todo, task, stack, found, clean>>

CyclesReturned ==
    /\ pc = "search"
    /\ todo = {}
    /\ pc' = "done"
    /\ UNCHANGED <<edges, insertions, away, full, side, todo, task, stack, found, clean>>

Done == pc = "done" /\ UNCHANGED vars

Next ==
    \/ \E e \in Edges : AddEdge(e)
    \/ \E t \in Tables : Prune(t) \/ PopDeactivated(t)
    \/ SkipNode \/ StartRemove \/ RemoveEdge \/ RemoveReturns
    \/ findCycles \/ AppendFromU \/ EraseReturns \/ CyclesReturned
    \/ Done

Spec == Init /\ [][Next]_vars

-----------------------------------------------------------------------------
TypeOK ==
    /\ pc \in {"build", "scan", "remove", "search", "erase", "done"}
    /\ edges \in Seq(Edges)
    /\ insertions \in [Tables -> [Buckets -> Nat]]
    /\ away \in [Tables -> Seq(Buckets)]
    /\ \A t \in Tables : Len(away[t]) = Len(edges)
    /\ full \in [Tables -> SUBSET Ids]
    /\ side \in Tables
    /\ todo \in SUBSET Ids
    /\ task \in [table : Tables, node : Nodes]
    /\ stack \in [Tables -> Seq(Nodes)]
    /\ clean \in SUBSET Tables

(* Every search gets to the entry it looks for, and ends.                  *)
Findable == \A t \in Tables : \A i \in Ids : Reached(t, i)

SomeRoom == \A t \in Tables : \E b \in Buckets : ~Overflow(t, b)

(* Of entries with the same first bucket the later one is not nearer.      *)
InOrder ==
    \A t \in Tables : \A i, j \in Ids :
        i < j /\ Home(edges[i][t]) = Home(edges[j][t]) => away[t][i] <= away[t][j]

(* An edge is active in both tables or in none, although they are changed  *)
(* separately and equal edges cannot be told apart.                        *)
TablesAgree == full["u"] = full["v"]

AllActive == pc = "build" => \A t \in Tables : full[t] = Ids

(* A set of edges none of which ends at a node without partner in the set. *)
NoDeadEnds(S) ==
    \A i \in S : \A t \in Tables : \E j \in S : edges[j][t] = Partner(edges[i][t])

(* What prune still has to remove has no edge of a cycle.                  *)
Spared(S, t, k) == \A i \in S : Pair(edges[i][t]) # Pair(k)

SparedInv ==
    pc \in {"scan", "remove"} =>
        \A S \in SUBSET Ids : NoDeadEnds(S) =>
            /\ S \subseteq full["u"]
            /\ pc = "remove" => Spared(S, task.table, task.node)
            /\ \A t \in Tables : \A n \in 1 .. Len(stack[t]) : Spared(S, t, stack[t][n])

(* Every dead end at a side that is to be clean will still be met.         *)
Covered(t, i) ==
    \/ HasPartner(t, i)
    \/ t = side /\ i \in todo
    \/ pc = "remove" /\ t = task.table /\ Pair(edges[i][t]) = Pair(task.node)
    \/ \E n \in 1 .. Len(stack[t]) : Pair(edges[i][t]) = Pair(stack[t][n])

CoveredInv ==
    /\ pc \in {"scan", "remove"} => \A t \in clean : \A i \in full[t] : Covered(t, i)
    /\ pc # "remove" => NothingToPop

(* The ways round a cycle, and to edges visited more than once.            *)
ClosedWalks ==
    {w \in [1 .. CycleLength -> Ids] :
        /\ \A n \in 2 .. CycleLength :
               edges[w[n]][SideAt(n)] = Partner(edges[w[n - 1]][SideAt(n)])
        /\ Closes(w)}

EdgesOn(w) == {w[n] : n \in 1 .. CycleLength}

IsFound(w) == \E x \in found : EdgesOn(x) = EdgesOn(w)

(* While a cycle has not been found, the search is still to come to it and *)
(* erases none of its edges.                                               *)
SearchInv ==
    /\ pc = "erase" => task.table = "u"
    /\ pc = "done" => todo = {}
    /\ pc \in {"search", "erase", "done"} => \A w \in ClosedWalks :
           \/ IsFound(w)
           \/ /\ EdgesOn(w) \subseteq full["u"]
              /\ w[1] \in todo
              /\ pc = "erase" => Spared(EdgesOn(w), "u", task.node)

(* The node a found cycle was begun at is being erased or has been, so that *)
(* no other walk round the cycle is found later.                           *)
FoundInv ==
    /\ pc \in {"build", "scan", "remove"} => found = {}
    /\ found \subseteq ClosedWalks
    /\ \A w \in found : w[1] \in full["u"] =>
           pc = "erase" /\ Pair(edges[w[1]]["u"]) = Pair(task.node)
    /\ \A w, x \in found : EdgesOn(w) = EdgesOn(x) => edges[w[1]]["u"] = edges[x[1]]["u"]

IInv ==
    /\ TypeOK /\ Findable /\ SomeRoom /\ InOrder
    /\ TablesAgree /\ AllActive /\ SparedInv /\ CoveredInv

(* Pruning removes no edge of a cycle, of any length, whatever the order   *)
(* in which entries are met and buckets overflow.                          *)
CyclesSurvive ==
    pc \in {"scan", "remove"} => \A S \in SUBSET Ids : NoDeadEnds(S) => S \subseteq full["u"]

(* When prune returns there is no dead end at the side it was called on,   *)
(* and none at the other if there was none before.                         *)
PruneIsComplete ==
    pc = "scan" /\ todo = {} => \A t \in clean : \A i \in full[t] : HasPartner(t, i)
=============================================================================
