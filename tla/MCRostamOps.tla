---------------------------- MODULE MCRostamOps ----------------------------
(* RostamOps for model checking: two shards with a key each, two workers,   *)
(* and two clients of cross-shard ops.                                      *)
EXTENDS RostamOps
CONSTANTS w1, w2, o1, o2, k1, k2
MCWorker == {w1, w2}
MCOthers == {o1, o2}
MCKey == {k1, k2}
MCShardIndex == [k \in MCKey |-> IF k = k1 THEN 0 ELSE 1]

\* A second operation of w2 lets w1 lose a compare-and-set twice, and three shifts
\* are one more than a word of two bits holds.  "append" takes the steps of "incr":
\* one worker shows what is left of it.
MCMaxOps ==
    [m \in Modes |-> [w \in MCWorker |->
        CASE w = w1                  -> 1
          [] m \in {"cas", "bitmask"} -> 2
          [] m = "append"            -> 0
          [] OTHER                   -> 1]]
=============================================================================
