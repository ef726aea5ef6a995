---------------------------- MODULE MCConnections ----------------------------
(* Connections for TLC.                                                    *)
EXTENDS Connections

CONSTANTS T1, T2, T3, K1, K2, O1, O2

(* O2 listens to O1.                                                       *)
OnePair == {<< O1, O2 >>}

(* One caller on the thread of each of the two.                            *)
Homes == [k \in {K1, K2} |-> IF k = K1 THEN T2 ELSE T1]

(* trySteal of three threads: each robs its left neighbour.                *)
Ring == [t \in {T1, T2, T3} |-> CASE t = T1 -> {T3} [] t = T2 -> {T1} [] t = T3 -> {T2}]

(* The receiver is on the next thread, the third only robs and is robbed.  *)
Placed == affinity[O1] = T1 /\ affinity[O2] = T2
=============================================================================
