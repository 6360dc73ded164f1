---------------------------- MODULE MCSiftBench ----------------------------
(* SiftBench for model checking: three base vectors, and two queries whose   *)
(* true neighbours are in the first two of three columns.                    *)
EXTENDS SiftBench
MCGroundtruth == <<3, 0, 1, 2, 3, 2, 1, 0>>
MCSweep == <<16, 64>>
=============================================================================
