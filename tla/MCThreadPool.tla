---------------------------- MODULE MCThreadPool ----------------------------
(* ThreadPool for TLC: values of the constants that are functions.         *)
EXTENDS ThreadPool

CONSTANTS A1, A2, A3, A4

(* No activity was created on a thread of the pool.                        *)
Free == [x \in Activities |-> None]

(* Everything belongs to thread 0.                                         *)
AllOnZero == [x \in Activities |-> 0]

(* All but A4 belong to thread 0; A4 is routed.                            *)
TrioOnZero == [x \in Activities |-> IF x = A4 THEN None ELSE 0]

(* A1 belongs to thread 0, everything else to thread 1, which may rob it.  *)
Spread == [x \in Activities |-> IF x = A1 THEN 0 ELSE 1]

(* A4 was created on thread 0.                                             *)
CreatedOnZero == [x \in Activities |-> IF x = A4 THEN 0 ELSE None]
=============================================================================
