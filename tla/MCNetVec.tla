----------------------------- MODULE MCNetVec -----------------------------
(* NetVec for model checking: two staging workers. *)
EXTENDS NetVec
CONSTANTS w1, w2
MCWorker == {w1, w2}
=============================================================================
