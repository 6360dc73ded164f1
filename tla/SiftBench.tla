------------------------------ MODULE SiftBench -----------------------------
(***************************************************************************)
(* The SIFT-1M programs of sift1m/: main() of each, from the data files to *)
(* the rows they print.  Each prepares the index (IndexLoad), then for     *)
(* each ef asks queries one by one (over SearchWire in rostam_py_client)   *)
(* and compares the answers with the ground truth; three of them go on to  *)
(* saturate the server (SatQps).  One program runs at a time.              *)
(*                                                                         *)
(* External: the search of an engine, which finds any at most K of the     *)
(* vectors it holds, or fails.                                             *)
(***************************************************************************)
EXTENDS IndexLoad, SatQps, SearchWire, Sorting

CONSTANTS K,
          EF_SWEEP,
          LAT_N,        \* queries the latency programs ask
          Groundtruth   \* the .ivecs file: rows of a length and as many numbers

VARIABLES pc, ef, i, hits, lats,
          t0,      \* when the present search was begun
          answer,  \* the ids it returned
          found,   \* history: the true neighbours the engine found
          row      \* recall, p50 and p99 of the present ef

mainVars == <<pc, ef, i, hits, lats, t0, answer, found, row>>
vars == <<loadVars, qpsVars, wireVars, mainVars>>

-----------------------------------------------------------------------------
(* The data files and the constants of the programs *)

\* reshape(-1, d + 1)[:, 1:]
read_ivecs(x) ==
    LET d == x[1] IN [r \in 1..Len(x) \div (d + 1) |-> SubSeq(x, (r - 1) * (d + 1) + 2, r * (d + 1))]

\* read_ivecs(...)[:, :K]
gt == [r \in DOMAIN read_ivecs(Groundtruth) |-> SubSeq(read_ivecs(Groundtruth)[r], 1, K)]

ASSUME DataAssumption ==
    /\ gt \in Seq(Seq(Vector)) /\ \A r \in DOMAIN gt : Len(gt[r]) = K /\ IsInjective(gt[r])
    /\ LAT_N \in 1..Len(gt)

Latency == Rostam \cup {"qdrant_latency_qps"}

\* The ef of the Rostam servers is fixed.
Sweep == IF prog \in Rostam THEN <<64>> ELSE EF_SWEEP
Asked == IF prog \in Latency THEN LAT_N ELSE Len(gt)

\* The id under which an engine has a vector; the Rostam servers count from 1.
Id(v) == IF prog \in Rostam THEN v + 1 ELSE v

\* Mutant: the ground truth as it is in the file.
TruthUnshifted(q) == Range(gt[q + 1])

Truth(q) == {IF prog \in Rostam THEN x + 1 ELSE x : x \in Range(gt[q + 1])}

-----------------------------------------------------------------------------
Init ==
    /\ LoadInit /\ QpsInit /\ WireInit
    /\ pc = "prepare" /\ ef = 1 /\ i = 0 /\ hits = 0 /\ lats = <<>>
    /\ t0 = 0 /\ answer = {} /\ found = 0 /\ row = None

\* A turn of the loop over ef.
StartSweep ==
    /\ StartClock /\ UNCHANGED <<fork, taskVars>>
    /\ i' = 0 /\ hits' = 0 /\ found' = 0 /\ lats' = <<>> /\ answer' = {} /\ t0' = 0 /\ row' = None
    /\ pc' = "query"

Prepare ==
    /\ pc = "prepare"
    /\ LoadStep \/ LoadRaises
    /\ UNCHANGED <<qpsVars, wireVars, mainVars>>

Prepared ==
    /\ pc = "prepare" /\ lpc = "ready"
    /\ StartSweep /\ ef' = 1
    /\ UNCHANGED <<loadVars, wireVars>>

\* What a search may find; hnswlib returns K labels or raises.
Results == {R \in SUBSET present : IF prog = "hnswlib_bench" THEN Cardinality(R) = K
                                   ELSE Cardinality(R) <= K}

\* The request goes out, and the engine answers; over the wire the answer is to
\* the query of the frame.  (hnswlib takes all the queries in one call, and this
\* is the library's turn for one of them.)
SearchBegin ==
    /\ pc = "query" /\ i < Asked
    /\ t0' = now
    /\ pc' = "await"
    /\ \E R \in Results :
          IF prog = "rostam_py_client"
          THEN LET q == DecodeSearch(encode_search(i, K))
               IN  \/ /\ q # None
                      /\ found' = found + Cardinality(R \cap Range(gt[q + 1]))
                      /\ Send(0, SetToSeq({Id(v) : v \in R}))
                      /\ UNCHANGED answer
                   \/ Send(1, <<>>) /\ UNCHANGED <<found, answer>>
          ELSE /\ found' = found + Cardinality(R \cap Range(gt[i + 1]))
               /\ answer' = {Id(v) : v \in R}
               /\ UNCHANGED wireVars
    /\ UNCHANGED <<loadVars, qpsVars, ef, i, hits, lats, row>>

\* Bytes arrive.
Receive ==
    /\ pc = "await"
    /\ WireStep \/ ServerCloses
    /\ UNCHANGED <<loadVars, qpsVars, mainVars>>

\* The search returns its ids.
SearchEnd ==
    /\ pc = "await"
    /\ IF prog = "rostam_py_client" THEN phase = "read" /\ ReadStatus = 0 ELSE TRUE
    /\ LET ids == IF prog = "rostam_py_client" THEN ReadIds ELSE answer
       IN  hits' = hits + Cardinality(ids \cap Truth(i))
    /\ lats' = IF prog \in Latency THEN Append(lats, now - t0) ELSE lats
    /\ i' = i + 1
    /\ Served
    /\ phase' = "none" /\ reply' = <<>> /\ got' = 0 /\ answer' = {} /\ t0' = 0
    /\ pc' = "query"
    /\ UNCHANGED <<loadVars, now, fork, taskVars, qps, closed, ef, found, row>>

\* The search raises, and main() with it.
SearchRaises ==
    /\ pc = "await"
    /\ IF prog = "rostam_py_client" THEN phase = "closed" \/ (phase = "read" /\ ReadStatus # 0) ELSE TRUE
    /\ pc' = "raised"
    /\ UNCHANGED <<loadVars, qpsVars, wireVars, ef, i, hits, lats, t0, answer, found, row>>

Sorted == Sort(lats)

\* latency returns.
LatencyReturns ==
    /\ pc = "query" /\ i = Asked /\ prog \in Latency
    /\ row' = [hits |-> hits, of |-> i * K,
               p50 |-> Sorted[Len(lats) \div 2 + 1], p99 |-> Sorted[(Len(lats) * 99) \div 100 + 1]]
    /\ pc' = "measured"
    /\ UNCHANGED <<loadVars, wireVars, qpsVars, ef, i, hits, lats, t0, answer, found>>

\* The loop of a single-client program ends, which has its throughput from the
\* same loop, and no latencies.
LoopEnds ==
    /\ pc = "query" /\ i = Asked /\ prog \notin Latency /\ now > 0
    /\ row' = [hits |-> hits, of |-> i * K]
    /\ qps' = [total |-> i, time |-> now]
    /\ pc' = "row"
    /\ UNCHANGED <<loadVars, wireVars, now, fork, taskVars, seenVars, ef, i, hits, lats, t0, answer, found>>

\* saturated_qps: what latency had of its own is gone, and what it returned, which
\* is printed unchanged beside the throughput, is not carried along.
Saturate ==
    /\ pc = "measured"
    /\ pc' = "pool" /\ PoolMap
    /\ i' = 0 /\ hits' = 0 /\ found' = 0 /\ lats' = <<>> /\ t0' = 0 /\ row' = None
    /\ UNCHANGED <<loadVars, wireVars, ef, answer>>

Pool ==
    /\ pc = "pool"
    /\ \/ (\E w \in Task : TaskStep(w) \/ TaskRaises(w)) /\ pc' = pc
       \/ PoolReturns /\ pc' = "row"
       \/ PoolEnded /\ PoolFailed /\ pc' = "raised" /\ UNCHANGED qpsVars
    /\ UNCHANGED <<loadVars, wireVars, ef, i, hits, lats, t0, answer, found, row>>

\* The row is printed.
PrintRow ==
    /\ pc = "row"
    /\ \/ ef < Len(Sweep) /\ StartSweep /\ ef' = ef + 1
       \/ /\ ef = Len(Sweep) /\ pc' = "done"
          /\ UNCHANGED <<qpsVars, ef, i, hits, lats, t0, answer, found, row>>
    /\ UNCHANGED <<loadVars, wireVars>>

\* The engine works, and time passes, whatever the program does.  What is indexed
\* after the program has begun to measure makes no difference to it.
Engine == pc = "prepare" /\ (Index \/ IndexRests \/ Serve) /\ UNCHANGED <<qpsVars, wireVars, mainVars>>
Clock == pc \in {"query", "await", "pool"} /\ Tick /\ UNCHANGED <<loadVars, wireVars, mainVars>>

Finished == (pc \in {"done", "raised"} \/ lpc = "raised") /\ UNCHANGED vars

Main == Prepare \/ Prepared \/ SearchBegin \/ Receive \/ SearchEnd \/ SearchRaises \/ LatencyReturns
        \/ LoopEnds \/ Saturate \/ Pool \/ PrintRow
Next == Main \/ Engine \/ Clock \/ Finished

Spec == Init /\ [][Next]_vars

\* The program goes on, a search that was sent is answered, workers are scheduled,
\* the clock advances, and the indexer gets as far as the code waits for; nothing
\* has to fail, and whoever listens to Rostam's port is up to the user.
Answered == SearchEnd \/ (prog = "rostam_py_client" /\ SearchRaises)
Fairness ==
    /\ WF_vars(pc = "prepare" /\ (LoadStep \/ MustRaise) /\ UNCHANGED <<qpsVars, wireVars, mainVars>>)
    /\ WF_vars(Prepared) /\ WF_vars(SearchBegin) /\ WF_vars(LatencyReturns)
    /\ WF_vars(LoopEnds) /\ WF_vars(Saturate) /\ WF_vars(PrintRow)
    /\ WF_vars(pc = "await" /\ WireStep /\ UNCHANGED <<loadVars, qpsVars, mainVars>>)
    /\ WF_vars(Answered)
    /\ \A w \in Task : WF_vars(Pool /\ TaskStep(w))
    /\ WF_vars(Pool /\ PoolEnded)
    /\ WF_vars((prog \in Qdrant => indexed < Enough) /\ Index /\ UNCHANGED <<qpsVars, wireVars, mainVars>>)
    /\ WF_vars(IndexRests /\ UNCHANGED <<qpsVars, wireVars, mainVars>>)
    /\ WF_vars(Clock)
FairSpec == Spec /\ Fairness

-----------------------------------------------------------------------------
(* Properties *)

Measuring == pc \in {"query", "await", "measured", "pool", "row", "done"}

\* What is measured is the index over the base: a program that loaded it sent
\* every vector, and but for Qdrant's client, which may send a batch again, each
\* once, whatever an earlier one had left behind, and found it in the
\* index (to 99 % with Qdrant); one that reuses a collection has at least 99 %.
MeasuredIsBuilt ==
    Measuring =>
        /\ IF prog \in Qdrant THEN indexed >= Enough ELSE indexed = N
        /\ ~reused => /\ present = Vector
                      /\ prog \notin Qdrant => \A v \in Vector : sends[v] = 1

\* The recall of a row counts the true neighbours the engine found, each once,
\* whatever ids the engine knows them by and however the bytes of the answer arrived.
RecallIsTrue ==
    pc = "measured" \/ (pc = "row" /\ prog \notin Latency) =>
        row.hits = found /\ row.hits <= row.of

\* How many of the searches took at most d, and at least d.
AtMost(sample, d) == Cardinality({j \in DOMAIN sample : sample[j] <= d})
AtLeast(sample, d) == Cardinality({j \in DOMAIN sample : sample[j] >= d})

\* The percentiles of a row are those of all the searches asked.
PercentilesAreTrue ==
    pc = "measured" =>
        /\ 2 * AtMost(lats, row.p50) >= Len(lats) /\ 2 * AtLeast(lats, row.p50) >= Len(lats)
        /\ 100 * AtMost(lats, row.p99) >= 99 * Len(lats) /\ 100 * AtLeast(lats, row.p99) >= Len(lats)
        /\ Len(lats) = LAT_N

\* A row is true of what the engine did: its recall is, and its percentiles are
\* percentiles of the searches.
RowIsTrue == RecallIsTrue /\ PercentilesAreTrue

\* The throughput printed is honest: it counts the searches that were answered,
\* those of every worker and no other, over a time that covers them all.
QpsIsHonest ==
    qps # Nothing => qps.total = served /\ qps.time >= last /\ qps.time > 0

\* Every program ends, with its rows or with an exception: no poll, no receive and
\* no pool waits for ever.
RunEnds == <>(pc \in {"done", "raised"} \/ lpc = "raised")
=============================================================================
