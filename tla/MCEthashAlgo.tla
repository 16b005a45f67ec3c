---------------------------- MODULE MCEthashAlgo ----------------------------
(* EthashAlgo for TLC: two GPUs with a subtask each.                       *)
EXTENDS EthashAlgo

CONSTANTS g1, g2, s1, s2

MCGpuOf == [s \in SubTasks |-> IF s = s1 THEN g1 ELSE g2]
=============================================================================
