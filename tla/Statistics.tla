----------------------------- MODULE Statistics -----------------------------
(***************************************************************************)
(* The records of shares (statistics/PoolRecords.cpp) and the nodes they   *)
(* are kept in (statistics/StatisticNode.h). The node of a pool has that   *)
(* of its switcher for a listener: a report changes one node after the     *)
(* other, under the lock of each, and holds none in between.               *)
(*                                                                         *)
(* Of the averages, total is Mean's count since the beginning and interval *)
(* that since the last reset. That a node of a listener is gone when it is *)
(* called cannot happen here: the switcher's node outlives its pools.      *)
(***************************************************************************)
EXTENDS Integers, FiniteSets, FiniteSetsExt

CONSTANTS
    Nodes,      \* the nodes there may be
    Reporters,  \* the threads that report, each of its own node
    NodeOf      \* its node

VARIABLES
    total,      \* the number of shares of each node
    interval,   \* the same since the node's last reset
    listeners,  \* the listeners of each node
    report      \* what is left of the report of a thread: its func and its nodes

statVars == <<total, interval, listeners, report>>

Idle == [toCall |-> {}, toRead |-> {}]

StatInit ==
    /\ total = [n \in Nodes |-> 0]
    /\ interval = [n \in Nodes |-> 0]
    /\ listeners = [n \in Nodes |-> {}]
    /\ report = [r \in Reporters |-> Idle]

Reporting(r) == report[r] # Idle

(* reportShare calls lockedForEach of the pool's node.                     *)
reportShare(r) ==
    /\ ~Reporting(r)
    /\ report' = [report EXCEPT ![r] = [toCall |-> {NodeOf[r]}, toRead |-> {}]]
    /\ UNCHANGED <<total, interval, listeners>>

(* lockedForEach: first the content of the node ...                        *)
ChangeContent(r) ==
    \E n \in report[r].toCall :
        /\ total' = [total EXCEPT ![n] = @ + 1]
        /\ interval' = [interval EXCEPT ![n] = @ + 1]
        /\ report' = [report EXCEPT ![r] = [toCall |-> @.toCall \ {n}, toRead |-> @.toRead \cup {n}]]
        /\ UNCHANGED listeners

(* ... then the list of its listeners, which are called next.              *)
ReadListeners(r) ==
    \E n \in report[r].toRead :
        /\ report' = [report EXCEPT ![r] =
                         [toCall |-> @.toCall \cup listeners[n], toRead |-> @.toRead \ {n}]]
        /\ UNCHANGED <<total, interval, listeners>>

(* resetInterval changes this node only.                                   *)
resetInterval(n) ==
    /\ interval' = [interval EXCEPT ![n] = 0]
    /\ UNCHANGED <<total, listeners, report>>

-----------------------------------------------------------------------------
(* The shares of children that have not reached the parent yet.            *)
OnTheirWay(parent) ==
    {r \in Reporters :
        LET n == NodeOf[r]
        IN  parent \in listeners[n] /\ (n \in report[r].toRead \/ parent \in report[r].toCall)}

Children(parent) == {n \in Nodes : parent \in listeners[n]}

(* A parent's total is that of its children, but for the reports that have *)
(* not reached it yet: none is lost or counted twice, whatever the pools'  *)
(* threads do at the same time and however often the intervals are reset.  *)
ParentsAddUp ==
    \A parent \in Nodes : Children(parent) # {} =>
        total[parent] + Cardinality(OnTheirWay(parent))
            = MapThenSumSet(LAMBDA n : total[n], Children(parent))
=============================================================================
