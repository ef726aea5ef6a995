----------------------------- MODULE MCPipeline -----------------------------
(* Pipeline in its holder for TLC.                                         *)
EXTENDS PipelineHolder

(* None, two, and the largest number, which steps() returns as -1.         *)
SomeSteps == {0, 2, 2 ^ Width - 1}
=============================================================================
