--------------------------- MODULE MCPipeEngine ---------------------------
(* PipeEngine for model checking. *)
EXTENDS PipeEngine
CONSTANTS w1, w2, n1, n2
MCWorker == {w1, w2}
MCNode == {n1, n2}
=============================================================================
