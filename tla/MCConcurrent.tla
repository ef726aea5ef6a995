---------------------------- MODULE MCConcurrent ----------------------------
(* ConcurrentPipeline for TLC.                                             *)
EXTENDS ConcurrentPipeline

CONSTANTS A1, A2, A3

(* The results of A1 and A2 are numbers, a move copies them.               *)
Numbers == {A1, A2}
=============================================================================
