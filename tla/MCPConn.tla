------------------------------ MODULE MCPConn ------------------------------
(* PConn with three workers, one more than the window, for model checking. *)
EXTENDS PConn

CONSTANTS w1, w2, w3

MCCaller == {w1, w2, w3}
=============================================================================
