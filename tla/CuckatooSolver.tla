--------------------------- MODULE CuckatooSolver ---------------------------
(***************************************************************************)
(* CuckatooSolver::solve (algorithm/grin/Cuckatoo.cpp) with its kernels    *)
(* (kernel/cuckatoo.cl), around the graph of CuckatooGraph. The device     *)
(* begins with all edges and, in rounds that alternate between the u and   *)
(* the v nodes, gathers the nodes of the edges left and kills the edges    *)
(* whose node has no partner among those gathered in the round before.     *)
(* What is left becomes the graph, which is pruned once more, from the     *)
(* side that may have dead ends, and searched; the nodes of each cycle     *)
(* found are translated back to edges, and isValidCycle checks the result. *)
(*                                                                         *)
(* The queue of the device is in order, so a kernel over all its threads   *)
(* is one step. Aborted solves are part of CuckatooMiner.                  *)
(***************************************************************************)
EXTENDS CuckatooGraph

CONSTANTS
    EdgeCount,      \* number of edges, 2^n in the code
    WordSize,       \* edges in a word of the bitmap, 32 in the code
    Granule,        \* words the partitions are multiples of, 2048 in the code
    Hashes,         \* functions from edges to their two nodes: the keys
    PruneRounds,    \* possible numbers of rounds, {99} in the code
    remainingEdges, \* estimates of the edges left, for rounds 0 to 7
    nodeCapacity,   \* nodes a partition is meant to gather at most
    BucketNodes,    \* nodes with the same bucket on the device
    maxBucketSize   \* room of such a bucket

DeviceEdges == 0 .. EdgeCount - 1
TotalWork == EdgeCount \div WordSize

ASSUME CuckatooSolverAssumption ==
    /\ WordSize \in Nat \ {0} /\ Granule \in Nat \ {0}
    /\ TotalWork \in Nat /\ EdgeCount = TotalWork * WordSize
    /\ EdgeCount <= MaxEdges /\ CycleLength % 2 = 0
    /\ Hashes \subseteq [DeviceEdges -> Edges]
    /\ PruneRounds \subseteq Nat \ {0, 1}
    /\ remainingEdges \in [0 .. 7 -> Nat]
    /\ nodeCapacity \in Nat \ {0} /\ BucketNodes \in Nat \ {0} /\ maxBucketSize \in Nat

VARIABLES
    stage,        \* "rounds", "add", "graph", "resolve" or "solved"
    hash,         \* the nodes of each edge
    pruneRounds,
    round,
    partition,    \* the part of the edges the next kernels work on
    activeEdges,  \* bitmap of the edges left
    activeNodes,  \* bitmap of the nodes gathered in this round
    combined,     \* bitmap of the pairs both of whose nodes were gathered
    unread,       \* edges foreachActiveEdge has not come to
    origin,       \* the device's number of each edge of the graph
    result,       \* the cycles delivered, as walks of the graph
    overflowed    \* history: whether a bucket of the device was ever too small

deviceVars == <<round, partition, activeEdges, activeNodes, combined, overflowed>>
inputVars  == <<hash, pruneRounds>>
solverVars == <<stage, inputVars, deviceVars, unread, origin, result>>

SolverInit ==
    /\ Init
    /\ stage = "rounds"
    /\ hash \in Hashes
    /\ pruneRounds \in PruneRounds
    /\ round = 0
    /\ partition = 0
    /\ activeEdges = DeviceEdges
    /\ activeNodes = {}
    /\ combined = {}
    /\ unread = {}
    /\ origin = <<>>
    /\ result = {}
    /\ overflowed = FALSE

-----------------------------------------------------------------------------
(* pruneActiveEdges.                                                       *)

Least(a, b) == IF a < b THEN a ELSE b

NodePartitions(r) == remainingEdges[Least(7, r)] \div nodeCapacity + 1

(* totalWork / nodePartitions, rounded down to whole granules.             *)
WorkPerPartition(r) == ((TotalWork \div NodePartitions(r)) \div Granule) * Granule

Offset(r, p) == p * WorkPerPartition(r)

(* The last partition takes what the rounding has left.                    *)
Work(r, p) ==
    IF p = NodePartitions(r) - 1 THEN TotalWork - Offset(r, p) ELSE WorkPerPartition(r)

WordsOf(r, p) == Offset(r, p) .. Offset(r, p) + Work(r, p) - 1

EdgesOf(p) == {e \in DeviceEdges : e \div WordSize \in WordsOf(round, p)}

uorv == IF round % 2 = 0 THEN "u" ELSE "v"

isActive(k) == Pair(k) \in combined

(* CreateNodes takes the edges as they are, KillEdgesAndCreateNodes those   *)
(* whose other node is active.                                             *)
Survivors(S) ==
    IF round = 0 THEN S ELSE {e \in S : isActive(hash[e][Reverse(uorv)])}

DeviceBucket(e) == hash[e][uorv] \div BucketNodes

(* addToNodes: the nodes that come first find room in their bucket.        *)
MayBeGathered(K, S) ==
    \A e \in S :
        LET same == {d \in S : DeviceBucket(d) = DeviceBucket(e)}
        IN  Cardinality(K \cap same) = Least(maxBucketSize, Cardinality(same))

OfThisPartition == {}

(* AccumulateNodes begins with an empty bitmap in the first partition.     *)
KeptNodes == IF partition = 0 THEN {} ELSE activeNodes

GatherNodes ==
    LET mine == activeEdges \cap EdgesOf(partition)
        left == Survivors(mine)
    IN  /\ stage = "rounds"
        /\ round < pruneRounds
        /\ partition < NodePartitions(round)
        /\ activeEdges' = (activeEdges \ mine) \cup left
        /\ \E K \in SUBSET left :
              /\ MayBeGathered(K, left)
              /\ activeNodes' = KeptNodes \cup {hash[e][uorv] : e \in K}
              /\ overflowed' = (overflowed \/ K # left)
        /\ partition' = partition + 1
        /\ UNCHANGED <<vars, stage, inputVars, round, combined, unread, origin, result>>

CombineActiveNodes ==
    /\ stage = "rounds"
    /\ partition = NodePartitions(round)
    /\ combined' = {Pair(k) : k \in {n \in activeNodes : Partner(n) \in activeNodes}}
    /\ round' = round + 1
    /\ partition' = 0
    /\ UNCHANGED <<vars, stage, inputVars, activeEdges, activeNodes, unread, origin,
                   result, overflowed>>

-----------------------------------------------------------------------------
(* The task on the CPU.                                                    *)

ReadEdges ==
    /\ stage = "rounds"
    /\ round = pruneRounds
    /\ stage' = "add"
    /\ unread' = activeEdges
    /\ UNCHANGED <<vars, inputVars, deviceVars, origin, result>>

(* foreachActiveEdge: words in ascending order, the highest bit first.     *)
ComesBefore(d, e) ==
    \/ d \div WordSize < e \div WordSize
    \/ d \div WordSize = e \div WordSize /\ d > e

NextActiveEdge == CHOOSE e \in unread : \A d \in unread \ {e} : ComesBefore(e, d)

AddToGraph ==
    /\ stage = "add"
    /\ unread # {}
    /\ AddEdge(hash[NextActiveEdge])
    /\ origin' = Append(origin, NextActiveEdge)
    /\ unread' = unread \ {NextActiveEdge}
    /\ UNCHANGED <<stage, inputVars, deviceVars, result>>

FromTheOtherSide == IF pruneRounds % 2 = 0 THEN "u" ELSE "v"

(* The side the graph is pruned from.                                      *)
PruneSide == IF pruneRounds % 2 = 0 THEN "v" ELSE "u"

PruneGraph ==
    /\ stage = "add"
    /\ unread = {}
    /\ Prune(PruneSide)
    /\ stage' = "graph"
    /\ UNCHANGED <<inputVars, deviceVars, unread, origin, result>>

GraphStep ==
    /\ stage = "graph"
    /\ \/ \E t \in Tables : PopDeactivated(t)
       \/ SkipNode \/ StartRemove \/ RemoveEdge \/ RemoveReturns
       \/ findCycles \/ AppendFromU \/ EraseReturns
    /\ UNCHANGED solverVars

CyclesFound ==
    /\ stage = "graph"
    /\ CyclesReturned
    /\ stage' = "resolve"
    /\ UNCHANGED <<inputVars, deviceVars, unread, origin, result>>

(* The last active edge with the nodes of edge i of the graph.             *)
EdgeOf(i) ==
    LET same == {e \in activeEdges : hash[e] = edges[i]}
    IN  CHOOSE e \in same : \A d \in same \ {e} : ComesBefore(d, e)

resolved(w) == [n \in 1 .. CycleLength |-> EdgeOf(w[n])]

Smallest(w) == CHOOSE n \in 1 .. CycleLength : \A m \in 1 .. CycleLength : resolved(w)[n] <= resolved(w)[m]

(* After sorting, the first edge equals the second.                        *)
NotFullLength(w) ==
    \E m \in 1 .. CycleLength : m # Smallest(w) /\ resolved(w)[m] = resolved(w)[Smallest(w)]

Resolve ==
    /\ stage = "resolve"
    /\ result' = {w \in found : ~NotFullLength(w)}
    /\ stage' = "solved"
    /\ UNCHANGED <<vars, inputVars, deviceVars, unread, origin>>

Solved == stage = "solved" /\ UNCHANGED <<vars, solverVars>>

-----------------------------------------------------------------------------
(* isValidCycle. Its maps keep the largest edge at each node.              *)

LastAt(E, t, k) ==
    CHOOSE e \in E : hash[e][t] = k /\ \A d \in E : hash[d][t] = k => d <= e

OtherNode(E, t, k) == hash[LastAt(E, t, k)][Reverse(t)]

NodesOf(E, t) == {hash[e][t] : e \in E}

(* One turn of the loop: from node s.u over v and its partner to the next  *)
(* u. The maps are known by the keys that have not been erased.            *)
TurnErasesOnce(E, s) ==
    LET v    == OtherNode(E, "u", s.u)
        next == OtherNode(E, "v", Partner(v))
    IN  IF s.ok /\ s.u \in s.us /\ Partner(v) \in s.vs \ {v}
        THEN [ok |-> TRUE, u |-> Partner(next), us |-> s.us \ {s.u}, vs |-> s.vs \ {v}]
        ELSE [s EXCEPT !.ok = FALSE]

Turn(E, s) ==
    LET v    == OtherNode(E, "u", s.u)
        next == OtherNode(E, "v", Partner(v))
    IN  IF s.ok /\ s.u \in s.us /\ Partner(v) \in s.vs \ {v}
        THEN [ok |-> TRUE, u |-> Partner(next),
              us |-> s.us \ {s.u, next}, vs |-> s.vs \ {v, Partner(v)}]
        ELSE [s EXCEPT !.ok = FALSE]

Follow(E, start) ==
    LET turns[i \in 0 .. CycleLength \div 2] ==
            IF i = 0 THEN [ok |-> TRUE, u |-> start, us |-> NodesOf(E, "u"), vs |-> NodesOf(E, "v")]
                     ELSE Turn(E, turns[i - 1])
    IN  turns[CycleLength \div 2]

(* The edges are distinct, and the walk over them closes.                  *)
isValidCycle(E, start) ==
    /\ Cardinality(E) = CycleLength
    /\ Follow(E, start).ok /\ Follow(E, start).u = start

(* The two CHECKs at its end, which would end the process.                 *)
ChecksHold(E, start) ==
    Cardinality(E) = CycleLength /\ Follow(E, start).ok =>
        Follow(E, start).us = {} /\ Follow(E, start).vs = {}

-----------------------------------------------------------------------------
SolverNext ==
    \/ GatherNodes \/ CombineActiveNodes
    \/ ReadEdges \/ AddToGraph \/ PruneGraph \/ GraphStep \/ CyclesFound
    \/ Resolve \/ Solved

SolverSpec == SolverInit /\ [][SolverNext]_<<vars, solverVars>>

-----------------------------------------------------------------------------
SolverTypeOK ==
    /\ TypeOK
    /\ stage \in {"rounds", "add", "graph", "resolve", "solved"}
    /\ hash \in [DeviceEdges -> Edges]
    /\ pruneRounds \in PruneRounds
    /\ round \in 0 .. pruneRounds
    /\ partition \in 0 .. NodePartitions(round)
    /\ activeEdges \subseteq DeviceEdges
    /\ activeNodes \subseteq Nodes
    /\ combined \subseteq {Pair(k) : k \in Nodes}
    /\ unread \subseteq activeEdges
    /\ origin \in Seq(DeviceEdges) /\ Len(origin) = Len(edges)
    /\ result \subseteq found
    /\ overflowed \in BOOLEAN

(* Edges of the device none of which ends at a node without partner on the *)
(* side t, or on any.                                                      *)
PairedOn(S, t) == \A e \in S : \E d \in S : hash[d][t] = Partner(hash[e][t])
Unprunable(S) == \A t \in Tables : PairedOn(S, t)

(* The edges that have been dealt with in this round.                      *)
EdgesDone == {e \in DeviceEdges : \E p \in 0 .. partition - 1 : e \in EdgesOf(p)}

(* The bitmaps stand for edges that are left: a node taken for active has  *)
(* an edge, though not all nodes of edges are gathered if buckets overflow. *)
RoundsInv ==
    /\ round > 0 =>
          /\ \A k \in Nodes : isActive(k) => \E e \in activeEdges : hash[e][Reverse(uorv)] = k
          /\ \A e \in activeEdges \cap EdgesDone : isActive(hash[e][Reverse(uorv)])
    /\ partition > 0 =>
          \A k \in activeNodes : \E e \in activeEdges \cap EdgesDone : hash[e][uorv] = k
    /\ round = pruneRounds => partition = 0 /\ PairedOn(activeEdges, FromTheOtherSide)

(* Without overflow all nodes of a cycle are gathered.                     *)
RoundsSpare ==
    ~overflowed => \A S \in SUBSET DeviceEdges : Unprunable(S) =>
        /\ S \subseteq activeEdges
        /\ round > 0 => \A e \in S : isActive(hash[e][Reverse(uorv)])
        /\ partition > 0 => \A e \in S \cap EdgesDone : hash[e][uorv] \in activeNodes

(* The graph is that of the edges left, as far as they have been read.     *)
GraphInv ==
    /\ stage \in {"rounds", "add"} => pc = "build"
    /\ stage = "rounds" => edges = <<>>
    /\ stage # "rounds" =>
          /\ round = pruneRounds
          /\ \A e \in activeEdges \ unread : \E i \in Ids : origin[i] = e
    /\ \A i \in Ids : origin[i] \in activeEdges \ unread /\ edges[i] = hash[origin[i]]
    /\ \A i, j \in Ids : origin[i] = origin[j] => i = j
    /\ stage # "add" => unread = {}
    /\ stage \notin {"rounds", "add"} => pc # "build"
    /\ stage = "graph" => clean = Tables

(* What is handed out are the cycles found whose edges differ.              *)
ResultInv ==
    /\ stage \in {"resolve", "solved"} => pc = "done"
    /\ stage = "solved" => result = {w \in found : ~NotFullLength(w)}

SolverInv ==
    /\ IInv /\ SearchInv /\ FoundInv
    /\ SolverTypeOK /\ RoundsInv /\ RoundsSpare /\ GraphInv /\ ResultInv

(* After the last round one side has no dead ends, and pruning from the     *)
(* other one leaves none at either, also if buckets were too small.        *)
NoDeadEndIsLeft ==
    stage = "graph" /\ pc = "scan" /\ todo = {} =>
        \A t \in Tables : \A i \in full[t] : HasPartner(t, i)

(* A cycle of the edges the solver began with.                             *)
IsCycle(S) ==
    /\ Cardinality(S) = CycleLength
    /\ Unprunable(S)
    /\ \A d, e \in S : d # e => \A t \in Tables : hash[d][t] # hash[e][t]
    /\ \A R \in SUBSET S : R # {} /\ R # S => ~Unprunable(R)

HasTwin(e) == \E d \in DeviceEdges \ {e} : hash[d] = hash[e]

ResultsFor(S) ==
    {w \in result : {hash[resolved(w)[n]] : n \in 1 .. CycleLength} = {hash[e] : e \in S}}

(* Every cycle is handed out, once unless equal edges make it look like     *)
(* several, its nodes are translated to its edges, and isValidCycle        *)
(* accepts them from wherever its hash map makes it begin: unless a bucket *)
(* of the device was too small. The rounds spare it although partitions    *)
(* are gathered one after the other while edges of the same round are      *)
(* already killed.                                                         *)
EveryCycleFound ==
    stage = "solved" /\ ~overflowed =>
        \A S \in SUBSET DeviceEdges : IsCycle(S) =>
            /\ ResultsFor(S) # {}
            /\ (\A e \in S : ~HasTwin(e)) =>
                   \E w \in ResultsFor(S) :
                       /\ ResultsFor(S) = {w}
                       /\ {resolved(w)[n] : n \in 1 .. CycleLength} = S
            /\ \A start \in NodesOf(S, "u") : isValidCycle(S, start)

(* No walk that is handed out, cycle or not, fails a CHECK of isValidCycle. *)
ChecksPass ==
    stage = "solved" => \A w \in result :
        LET E == {resolved(w)[n] : n \in 1 .. CycleLength}
        IN  \A start \in NodesOf(E, "u") : ChecksHold(E, start)

(* What a solve hands out: all there is, and nothing that ends the process. *)
CyclesDelivered == EveryCycleFound /\ ChecksPass
=============================================================================
