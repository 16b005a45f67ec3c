--------------------------- MODULE MCPoolSwitcher ---------------------------
(* PoolSwitcher for TLC: how often the pools send a job.                   *)
EXTENDS PoolSwitcher

CONSTANT g1

OneEach == [p \in Pools |-> 1]
FirstTwice == [p \in Pools |-> IF p = 1 THEN 2 ELSE 1]
=============================================================================
