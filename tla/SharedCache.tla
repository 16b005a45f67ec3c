---------------------------- MODULE SharedCache ----------------------------
(***************************************************************************)
(* What the DAG cache behind its upgradeable lock promises the threads of  *)
(* AlgoEthashCL, whatever the lock does to keep it: whoever uses the cache *)
(* sees the same contents until it is done; a GPU generates the cache only *)
(* if it is not generated for the epoch the GPU needs, alone, and is the   *)
(* first to use what it has generated; a GPU that uses what it has found   *)
(* has found the epoch it needs. The comments of util/LockUtils.h call     *)
(* upgrade and downgrade atomic: a check and the write that follows it, or *)
(* a write and the reads that follow it, are one step as far as other      *)
(* threads can tell.                                                       *)
(***************************************************************************)
CONSTANTS
    Gpus,         \* threads that generate the cache and their DAG from it
    Workers,      \* threads that only look hashes up
    Epochs,       \* epochs a GPU may need
    UnknownEpoch, \* needed when nothing is, and what no cache is generated for
    NoOwner

VARIABLES
    content,      \* epoch of the cache, and whether it is generated
    needs,        \* the epoch each GPU needs
    users,        \* the threads that use the contents
    owner         \* the GPU that replaces them, or NoOwner

vars == <<content, needs, users, owner>>

GeneratedFor(e) == content.valid /\ content.epoch = e

Init ==
    /\ content = [epoch |-> UnknownEpoch, valid |-> FALSE]
    /\ needs = [g \in Gpus |-> UnknownEpoch]
    /\ users = {}
    /\ owner = NoOwner

Ask(g) ==
    /\ g \notin users /\ g # owner
    /\ \E e \in Epochs : needs' = [needs EXCEPT ![g] = e]
    /\ UNCHANGED <<content, users, owner>>

(* The cache is what g needs. Others may use it at the same time.          *)
Use(g) ==
    /\ owner = NoOwner /\ g \notin users
    /\ GeneratedFor(needs[g])
    /\ users' = users \cup {g}
    /\ UNCHANGED <<content, needs, owner>>

(* The cache is not what g needs and nobody uses it. From here on g is     *)
(* alone with it.                                                          *)
Replace(g) ==
    /\ owner = NoOwner /\ users = {}
    /\ ~GeneratedFor(needs[g])
    /\ owner' = g
    /\ content' = [content EXCEPT !.valid = FALSE]
    /\ UNCHANGED <<needs, users>>

Generate(g) ==
    /\ owner = g /\ ~content.valid
    /\ content' = [epoch |-> needs[g], valid |-> TRUE]
    /\ UNCHANGED <<needs, users, owner>>

(* g is the first to use what it has generated, or failed to generate.     *)
UseOwn(g) ==
    /\ owner = g
    /\ GeneratedFor(needs[g]) \/ ~content.valid
    /\ owner' = NoOwner
    /\ users' = {g}
    /\ UNCHANGED <<content, needs>>

Leave(g) ==
    /\ g \in users
    /\ users' = users \ {g}
    /\ needs' = [needs EXCEPT ![g] = UnknownEpoch]
    /\ UNCHANGED <<content, owner>>

(* A worker uses whatever there is.                                        *)
LookUp(w) ==
    /\ owner = NoOwner /\ w \notin users
    /\ users' = users \cup {w}
    /\ UNCHANGED <<content, needs, owner>>

LookedUp(w) ==
    /\ w \in users
    /\ users' = users \ {w}
    /\ UNCHANGED <<content, needs, owner>>

Next ==
    \/ \E g \in Gpus : \/ Ask(g) \/ Use(g) \/ Replace(g) \/ Generate(g)
                       \/ UseOwn(g) \/ Leave(g)
    \/ \E w \in Workers : LookUp(w) \/ LookedUp(w)

Spec == Init /\ [][Next]_vars
=============================================================================
