---------------------------- MODULE MCRedisSync ----------------------------
(* RedisSync for model checking: two workers that share the pool. *)
EXTENDS RedisSync
CONSTANTS w1, w2
MCWorker == {w1, w2}
=============================================================================
