----------------------------- MODULE WorkSource -----------------------------
(***************************************************************************)
(* What a pool's queue promises the algorithm implementations, whichever   *)
(* of the two queues of pool/WorkQueue.h the pool uses: the works handed   *)
(* out belong to one job at a time, the offered one; a job is offered only *)
(* if it is newer than every job offered before; and the works of a job    *)
(* are either all expired or all fresh, the change being final.            *)
(* WorkQueue and LazyWorkQueue are both shown to implement this module.    *)
(***************************************************************************)
EXTENDS Integers

CONSTANT Gpus            \* threads of algorithm implementations

VARIABLES
    offered,  \* id of the job whose works are handed out, 0 before the first
    fresh,    \* whether the works of that job still count as unexpired
    work      \* the job of the work each GPU thread holds, 0 for none

vars == <<offered, fresh, work>>

TypeOK ==
    /\ offered \in Nat
    /\ fresh \in BOOLEAN
    /\ work \in [Gpus -> Nat]

Init ==
    /\ offered = 0
    /\ fresh \in BOOLEAN
    /\ work = [g \in Gpus |-> 0]

(* A newer job replaces the offered one. Its works may be born expired.    *)
Offer ==
    /\ offered' \in Nat
    /\ offered' > offered
    /\ fresh' \in BOOLEAN
    /\ UNCHANGED work

(* Every work offered so far expires.                                      *)
Expire ==
    /\ fresh' = FALSE
    /\ UNCHANGED <<offered, work>>

(* A GPU thread is given a work of the offered job, expired or not.        *)
Take(g) ==
    /\ offered > 0
    /\ work' = [work EXCEPT ![g] = offered]
    /\ UNCHANGED <<offered, fresh>>

Drop(g) ==
    /\ work' = [work EXCEPT ![g] = 0]
    /\ UNCHANGED <<offered, fresh>>

Next ==
    \/ Offer
    \/ Expire
    \/ \E g \in Gpus : Take(g) \/ Drop(g)

Spec == Init /\ [][Next]_vars
=============================================================================
