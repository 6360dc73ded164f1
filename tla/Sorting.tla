------------------------------ MODULE Sorting ------------------------------
(***************************************************************************)
(* What sorting a list of latencies does: sort.Slice in run() of the load  *)
(* generators, lats.sort() in the SIFT-1M programs.  Stated by what the    *)
(* languages' libraries promise, so that it can be reasoned about.         *)
(***************************************************************************)
EXTENDS Naturals, FiniteSets, Functions

\* The values of f from the least to the greatest, each as often as f has it.
Sort(f) ==
    LET n == Cardinality(DOMAIN f)
        p == CHOOSE p \in Bijection(1..n, DOMAIN f) :
                 \A i, j \in 1..n : i < j => f[p[i]] <= f[p[j]]
    IN  [i \in 1..n |-> f[p[i]]]
=============================================================================
