-------------------------- MODULE MCCuckatooSolver --------------------------
(* CuckatooSolver for TLC: the graphs, and the estimates of a small device. *)
EXTENDS CuckatooSolver

Edge(u, v) == [u |-> u, v |-> v]

(* Four edges of a cycle of length 4, one that closes a cycle of length 2  *)
(* with the first, and a dead end. Most nodes belong in the last bucket,   *)
(* whose overflow wraps to the first.                                      *)
SmallGraph ==
    <<Edge(6, 6), Edge(0, 7), Edge(1, 0), Edge(7, 1), Edge(7, 7), Edge(2, 7)>>

SmallEdges == {SmallGraph[i] : i \in 1 .. 6}

Choices ==
    {<<a, b, c, d, e, f>> : a \in 1 .. 6, b \in 1 .. 6, c \in 1 .. 6,
                            d \in 1 .. 6, e \in 1 .. 6, f \in 1 .. 6}

(* Any six of these, repeated ones included, from any of them on.          *)
SmallHashes ==
    {[e \in 0 .. 5 |-> SmallGraph[c[((e + turn) % 6) + 1]]] :
        c \in {s \in Choices : \A i \in 1 .. 5 : s[i] <= s[i + 1]},
        turn \in 0 .. 5}

FewAfterTheFirst == [r \in 0 .. 7 |-> IF r = 0 THEN 6 ELSE IF r = 1 THEN 4 ELSE 2]
=============================================================================
