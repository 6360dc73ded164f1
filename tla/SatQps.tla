------------------------------- MODULE SatQps -------------------------------
(***************************************************************************)
(* saturated_qps and _qps_worker of sift1m/: CONC tasks in a pool of CONC  *)
(* processes query for DUR seconds each, looking at the clock once in a    *)
(* batch of searches, and the sum of what they return is divided by the    *)
(* time since before the pool was made.  A process that is slow to start   *)
(* finds its task taken by another one later, so a task starts at any      *)
(* time.                                                                   *)
(***************************************************************************)
EXTENDS Integers, FiniteSetsExt

CONSTANTS CONC, DUR,
          Batch,      \* searches between two looks at the clock (16)
          MaxStart,   \* bound: the last task has started by then
          MaxTime,    \* bound: the clock stops
          MaxN        \* bound: searches of one task

ASSUME PoolAssumption ==
    /\ {CONC, DUR, Batch} \subseteq Nat \ {0} /\ {MaxStart, MaxTime, MaxN} \subseteq Nat
    /\ MaxStart + DUR < MaxTime

VARIABLES now,      \* the clock, from the start of a measurement
          fork,     \* the start method hands the parent's globals to the workers
          st, n, stop, left,  \* per task: its state, and its locals
          served,   \* history: searches the server answered in this measurement
          last,     \* history: when it answered the last one
          qps       \* the throughput measured: total and time

taskVars == <<st, n, stop, left>>
seenVars == <<served, last>>
qpsVars == <<now, fork, st, n, stop, left, served, last, qps>>

Task == 0..CONC - 1
Nothing == [total |-> 0, time |-> 0]

Zero == [w \in Task |-> 0]

QpsInit ==
    /\ now = 0 /\ fork \in BOOLEAN
    /\ st = [w \in Task |-> "none"]
    /\ n = Zero /\ stop = Zero /\ left = Zero
    /\ served = 0 /\ last = 0 /\ qps = Nothing

\* time.time() and perf_counter (external).
Tick ==
    /\ now < IF \E w \in Task : st[w] = "queued" THEN MaxStart ELSE MaxTime
    /\ now' = now + 1
    /\ UNCHANGED <<fork, taskVars, seenVars, qps>>

\* A measurement begins.
StartClock == now' = 0 /\ served' = 0 /\ last' = 0 /\ qps' = Nothing

\* A search was answered.
Served == served' = served + 1 /\ last' = now

\* The pool is made and the tasks are put into its queue.
PoolMap ==
    /\ StartClock
    /\ st' = [w \in Task |-> "queued"]
    /\ UNCHANGED <<fork, n, stop, left>>

\* A process takes the task and connects.
TaskStart(w) ==
    /\ st[w] = "queued"
    /\ st' = [st EXCEPT ![w] = "top"]
    /\ stop' = [stop EXCEPT ![w] = now + DUR]
    /\ UNCHANGED <<now, fork, n, left, seenVars, qps>>

\* while time.time() < stop
TaskTop(w) ==
    /\ st[w] = "top"
    /\ \/ /\ now < stop[w] /\ fork /\ n[w] + Batch <= MaxN
          /\ st' = [st EXCEPT ![w] = "batch"] /\ left' = [left EXCEPT ![w] = Batch]
       \/ /\ now >= stop[w]
          /\ st' = [st EXCEPT ![w] = "returned"] /\ left' = left
    /\ UNCHANGED <<now, fork, n, stop, seenVars, qps>>

TaskSearch(w) ==
    /\ st[w] = "batch"
    /\ Served
    /\ n' = [n EXCEPT ![w] = @ + 1]
    /\ left' = [left EXCEPT ![w] = @ - 1]
    /\ st' = [st EXCEPT ![w] = IF left[w] = 1 THEN "top" ELSE "batch"]
    /\ UNCHANGED <<now, fork, stop, qps>>

\* The connection or a search raises, or, without the parent's globals, the
\* first use of the queries.
TaskRaises(w) ==
    /\ st[w] \in {"queued", "batch"} \/ (st[w] = "top" /\ ~fork)
    /\ st' = [st EXCEPT ![w] = "raised"]
    /\ UNCHANGED <<now, fork, n, stop, left, seenVars, qps>>

PoolEnded == \A w \in Task : st[w] \in {"returned", "raised"}
PoolFailed == \E w \in Task : st[w] = "raised"

\* The with statement ends the processes.
PoolGone == st' = [w \in Task |-> "none"] /\ n' = Zero /\ stop' = Zero /\ left' = Zero

\* Mutant: divided by the nominal duration.
PoolReturnsNominal ==
    /\ PoolEnded /\ ~PoolFailed
    /\ qps' = [total |-> MapThenSumSet(LAMBDA w : n[w], Task), time |-> DUR]
    /\ PoolGone
    /\ UNCHANGED <<now, fork, seenVars>>

\* pool.map returns when every task has ended, and saturated_qps its quotient.
PoolReturns ==
    /\ PoolEnded /\ ~PoolFailed
    /\ qps' = [total |-> MapThenSumSet(LAMBDA w : n[w], Task), time |-> now]
    /\ PoolGone
    /\ UNCHANGED <<now, fork, seenVars>>

TaskStep(w) == TaskStart(w) \/ TaskTop(w) \/ TaskSearch(w) \/ (~fork /\ TaskRaises(w))
=============================================================================
