------------------------------ MODULE LoadGen ------------------------------
(***************************************************************************)
(* The measuring loop of the two load generators: run() and pct() of       *)
(* netkv/main.go ("kv") and of netvec/main.go ("vec").  Workers loop until *)
(* the deadline, each with counters and latencies of its own, and publish  *)
(* them when they stop; run() waits for all of them and takes the elapsed  *)
(* time.                                                                   *)
(*                                                                         *)
(* Time is a clock in ticks from the start of run(); an operation takes as *)
(* many ticks as pass while it is under way.  What the operation does, and *)
(* which key it picks, is left to the modules of the engines.              *)
(***************************************************************************)
EXTENDS Naturals, Sequences, FiniteSets, Sorting

CONSTANTS Worker,
          Warm,      \* -warmup
          Dur,       \* -duration
          Batch,     \* vec: -batch, points per request
          Horizon,   \* bound: the clock, an operation ends before it stops
          MaxOps     \* bound: operations of each worker

ASSUME TimeAssumption == Warm \in Nat /\ Dur \in Nat
                      /\ Horizon \in Nat /\ Warm + Dur < Horizon
ASSUME BoundAssumption == Batch \in Nat \ {0} /\ MaxOps \in Nat
ASSUME WorkerAssumption == Worker # {}

WarmDeadline == Warm
Deadline == Warm + Dur

VARIABLES
    tool,       \* "kv" or "vec"
    clock,
    pc,         \* control state of each worker's loop
    now,        \* the loop's time stamp, taken before the operation
    t0,         \* the operation's own start
    lat,        \* the worker's latencies
    localOps, localErrs,
    perWorker,  \* latencies published by the workers that stopped
    ops, errs,  \* the shared counters
    res,        \* what run() returned, NoResult while it runs
    turns,      \* operations each worker has made
    hist        \* history: every operation of a turn after the warmup

vars == <<tool, clock, pc, now, t0, lat, localOps, localErrs, perWorker, ops, errs, res, turns, hist>>

NoResult == <<>>

Init ==
    /\ tool \in {"kv", "vec"}
    /\ clock = 0
    /\ pc = [w \in Worker |-> "top"]
    /\ now = [w \in Worker |-> 0]
    /\ t0 = [w \in Worker |-> 0]
    /\ lat = [w \in Worker |-> <<>>]
    /\ localOps = [w \in Worker |-> 0]
    /\ localErrs = [w \in Worker |-> 0]
    /\ perWorker = [w \in Worker |-> <<>>]
    /\ ops = 0 /\ errs = 0
    /\ res = NoResult
    /\ turns = [w \in Worker |-> 0]
    /\ hist = {}

-----------------------------------------------------------------------------
\* The loop's time stamp and its test of the deadline (time.After is strict).
LoopTop(w) ==
    /\ pc[w] = "top"
    /\ \/ clock > Deadline /\ pc' = [pc EXCEPT ![w] = "exit"] /\ now' = now
       \/ /\ clock <= Deadline
          /\ turns[w] < MaxOps
          /\ pc' = [pc EXCEPT ![w] = "pick"]
          /\ now' = [now EXCEPT ![w] = clock]
    /\ UNCHANGED <<tool, clock, t0, lat, localOps, localErrs, perWorker, ops, errs, res, turns, hist>>

\* The key or the body is ready, the operation starts.
OpStart(w) ==
    /\ pc[w] = "pick"
    /\ t0' = [t0 EXCEPT ![w] = clock]
    /\ pc' = [pc EXCEPT ![w] = "op"]
    /\ UNCHANGED <<tool, clock, now, lat, localOps, localErrs, perWorker, ops, errs, res, turns, hist>>

\* kv: every measured operation counts and has a latency, failed ones as well.
CountKv(w, ok, d) ==
    /\ localOps' = [localOps EXCEPT ![w] = @ + 1]
    /\ localErrs' = [localErrs EXCEPT ![w] = IF ok THEN @ ELSE @ + 1]
    /\ lat' = [lat EXCEPT ![w] = Append(@, d)]

\* Mutant: a failed request is as many errors as it has points.
CountVecErrsPerPoint(w, ok, d) ==
    /\ localOps' = [localOps EXCEPT ![w] = IF ok THEN @ + Batch ELSE @]
    /\ localErrs' = [localErrs EXCEPT ![w] = IF ok THEN @ ELSE @ + Batch]
    /\ lat' = [lat EXCEPT ![w] = IF ok THEN Append(@, d) ELSE @]

\* vec: a failed request is an error and nothing else.
CountVec(w, ok, d) ==
    /\ localOps' = [localOps EXCEPT ![w] = IF ok THEN @ + Batch ELSE @]
    /\ localErrs' = [localErrs EXCEPT ![w] = IF ok THEN @ ELSE @ + 1]
    /\ lat' = [lat EXCEPT ![w] = IF ok THEN Append(@, d) ELSE @]

\* now.After(warmDeadline): judged by the time stamp of the loop's top.
Measured(w) == now[w] > WarmDeadline

\* The operation ends, with or without an error.
OpEnd(w) ==
    /\ pc[w] = "op"
    /\ \E ok \in BOOLEAN :
        /\ \/ ~Measured(w) /\ UNCHANGED <<lat, localOps, localErrs>>
           \/ Measured(w) /\ tool = "kv" /\ CountKv(w, ok, clock - t0[w])
           \/ Measured(w) /\ tool = "vec" /\ CountVec(w, ok, clock - t0[w])
        /\ hist' = IF now[w] <= WarmDeadline THEN hist
                   ELSE hist \cup {[op |-> <<w, turns[w]>>, ok |-> ok, top |-> now[w],
                                    start |-> t0[w], end |-> clock]}
    /\ turns' = [turns EXCEPT ![w] = @ + 1]
    /\ now' = [now EXCEPT ![w] = 0] /\ t0' = [t0 EXCEPT ![w] = 0]  \* out of scope
    /\ pc' = [pc EXCEPT ![w] = "top"]
    /\ UNCHANGED <<tool, clock, perWorker, ops, errs, res>>

\* Mutant: the counters are stored, not added.
WorkerExitStores(w) ==
    /\ pc[w] = "exit"
    /\ perWorker' = [perWorker EXCEPT ![w] = lat[w]]
    /\ ops' = localOps[w]
    /\ errs' = localErrs[w]
    /\ pc' = [pc EXCEPT ![w] = "done"]
    /\ UNCHANGED <<tool, clock, now, t0, lat, localOps, localErrs, res, turns, hist>>

\* Mutant: a worker that met errors returns without wg.Done().
WorkerExitNoDone(w) ==
    /\ pc[w] = "exit" /\ localErrs[w] = 0
    /\ perWorker' = [perWorker EXCEPT ![w] = lat[w]]
    /\ ops' = ops + localOps[w]
    /\ errs' = errs
    /\ pc' = [pc EXCEPT ![w] = "done"]
    /\ UNCHANGED <<tool, clock, now, t0, lat, localOps, localErrs, res, turns, hist>>

\* The worker publishes what it counted, and wg.Done().
WorkerExit(w) ==
    /\ pc[w] = "exit"
    /\ perWorker' = [perWorker EXCEPT ![w] = lat[w]]
    /\ ops' = ops + localOps[w]
    /\ errs' = errs + localErrs[w]
    /\ pc' = [pc EXCEPT ![w] = "done"]
    /\ UNCHANGED <<tool, clock, now, t0, lat, localOps, localErrs, res, turns, hist>>

-----------------------------------------------------------------------------
\* Mutant: the index is one too high.
pctNextRank(sorted, permille) ==
    IF sorted = <<>> THEN 0
    ELSE LET i == (permille * Len(sorted)) \div 1000 + 1
         IN sorted[IF i >= Len(sorted) THEN Len(sorted) ELSE i + 1]

\* pct: the element at index int(p/100 * n), clamped, 0 for no elements.
pct(sorted, permille) ==
    IF sorted = <<>> THEN 0
    ELSE LET i == (permille * Len(sorted)) \div 1000
         IN sorted[IF i >= Len(sorted) THEN Len(sorted) ELSE i + 1]

\* The lists of the workers, put together.
merged ==
    [x \in UNION {{w} \X DOMAIN perWorker[w] : w \in Worker} |-> perWorker[x[1]][x[2]]]

\* Mutant: the measured window is taken to be the one asked for.
CollectNominal ==
    /\ res = NoResult /\ \A w \in Worker : pc[w] = "done"
    /\ res' = [ops |-> ops, errs |-> errs, elapsed |-> Dur,
               lat |-> Sort(merged)]
    /\ UNCHANGED <<tool, clock, pc, now, t0, lat, localOps, localErrs, perWorker, ops, errs, turns, hist>>

\* wg.Wait(), the elapsed time since the warmup, the merged and sorted latencies.
Collect ==
    /\ res = NoResult /\ \A w \in Worker : pc[w] = "done"
    /\ res' = [ops |-> ops, errs |-> errs, elapsed |-> clock - WarmDeadline,
               lat |-> Sort(merged)]
    /\ UNCHANGED <<tool, clock, pc, now, t0, lat, localOps, localErrs, perWorker, ops, errs, turns, hist>>

\* Time passes.
Tick ==
    /\ clock < Horizon
    /\ clock' = clock + 1
    /\ UNCHANGED <<tool, pc, now, t0, lat, localOps, localErrs, perWorker, ops, errs, res, turns, hist>>

\* A worker's own steps; when an operation ends is not up to it.
Loop(w) == LoopTop(w) \/ OpStart(w) \/ WorkerExit(w)

Finished == res # NoResult /\ UNCHANGED vars

Next == (\E w \in Worker : Loop(w) \/ OpEnd(w)) \/ Collect \/ Tick \/ Finished

Spec == Init /\ [][Next]_vars

\* Goroutines run and time passes.  Nothing makes an operation end: netvec's HTTP
\* client has a timeout, netkv's pipelined call waits without one (pipeline.go:83).
FairSpec == Spec /\ (\A w \in Worker : WF_vars(Loop(w))) /\ WF_vars(Collect) /\ WF_vars(Tick)

-----------------------------------------------------------------------------
(* Properties *)

\* The type invariant of the loop, its counters and its clock.
TypeOK ==
    /\ clock \in 0..Horizon
    /\ pc \in [Worker -> {"top", "pick", "op", "exit", "done"}]
    /\ now \in [Worker -> 0..Horizon] /\ t0 \in [Worker -> 0..Horizon]
    /\ \A w \in Worker : lat[w] \in Seq(0..Horizon) /\ perWorker[w] \in Seq(0..Horizon)
    /\ localOps \in [Worker -> Nat] /\ localErrs \in [Worker -> 0..MaxOps]
    /\ ops \in Nat /\ errs \in Nat
    /\ res = NoResult \/ res.elapsed \in 0..Horizon

\* The operations that belong to the measurement: their turn of the loop began
\* after the warmup and not after the deadline.
InWindow == {h \in hist : h.top <= Deadline}

\* The operations whose latency the tool reports: kv all of them, vec those
\* that succeeded ("never as a fast write", netvec/main.go:431).
Timed == {h \in InWindow : tool = "kv" \/ h.ok}

\* The operations and the errors of the result are those of the window.
OpsAgree ==
    res # NoResult =>
        /\ res.ops = (IF tool = "kv" THEN 1 ELSE Batch) * Cardinality(Timed)
        /\ res.errs = Cardinality({h \in InWindow : ~h.ok})

\* Nothing is lost or counted twice on the way from the workers to the result:
\* operations, errors and every single latency are those of the window, however
\* the workers' last steps interleave.
CountsAgree ==
    /\ OpsAgree
    /\ res # NoResult =>
        /\ \A d \in 0..Horizon : Cardinality({i \in 1..Len(res.lat) : res.lat[i] = d})
                                   = Cardinality({h \in Timed : h.end - h.start = d})
        /\ Len(res.lat) = Cardinality(Timed)

\* The throughput is never overstated: the time divided by covers every
\* operation that was counted, those that outlast the deadline included.
ElapsedCovers ==
    res # NoResult => \A h \in InWindow :
        h.start >= WarmDeadline /\ h.end <= WarmDeadline + res.elapsed

\* How many of the n elements of a sample are below x.
Below(sample, n, x) == Cardinality({i \in 1..n : sample[i] < x})

\* What is printed as p50, p99 and p999 is that percentile of the sample: at
\* most that share of the latencies is below it, and more than that share is
\* not above it.
PctIsPercentile ==
    res # NoResult /\ res.lat # <<>> => \A p \in {500, 990, 999} :
        LET n == Len(res.lat)
            v == pct(res.lat, p)
        IN 1000 * Below(res.lat, n, v) <= p * n /\ p * n < 1000 * Below(res.lat, n, v + 1)

\* run() returns if, and only if, every operation that was begun ends: the loop, the
\* deadline and wg.Wait add no way to hang, and wg.Wait has no way out of a hang,
\* since one operation that never ends keeps the row of all the others.
RunReturns ==
    /\ (\A w \in Worker : []<>(pc[w] # "op")) => <>(res # NoResult)
    /\ <>(res # NoResult) => (\A w \in Worker : []<>(pc[w] # "op"))
=============================================================================
