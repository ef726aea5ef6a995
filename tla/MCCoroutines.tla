---------------------------- MODULE MCCoroutines ----------------------------
(* Coroutines for TLC.                                                     *)
EXTENDS Coroutines

CONSTANTS C1, C2

(* Both callers outside the pool.                                          *)
AllOutside == [c \in {C1, C2} |-> Outside]

(* One caller outside the pool, one on a thread of it.                     *)
OneInside == [c \in {C1, C2} |-> IF c = C1 THEN Outside ELSE 1]
=============================================================================
