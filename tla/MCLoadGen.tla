----------------------------- MODULE MCLoadGen -----------------------------
(* LoadGen for model checking: two workers. *)
EXTENDS LoadGen
CONSTANTS w1, w2
MCWorker == {w1, w2}
=============================================================================
