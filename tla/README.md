# A TLA+ model of rostam-bench

`rostam-bench` compares the Rostam engine with other stores. Its own logic, and
what can be wrong in it, is in the programs that *measure*: if a load generator
loses an answer, counts an operation twice, acknowledges what was not
replicated or measures the wrong collection, the published number is wrong and
nothing crashes. These modules state what those programs promise, check it with
TLC on small instances, and prove nearly all of the safety of it with TLAPS for every
value of the constants.

Paths are relative to `src/`.

## 1. The system's parts

| part | code | state it keeps | operations | what is hard about it |
|---|---|---|---|---|
| pipelined connection | `netkv/pipeline.go` `pconn` | `fifo` of result slots, `mu`, `dead`, the buffered writer, a read-loop goroutine | `call`, `fail`, `readLoop` | many callers, one reader, either side may notice a failure first |
| pipelined engine | `netkv/pipeline.go` `rostamPipeEngine` | topology, connections per node, round-robin counter, refresher goroutine | `route`, `call`, `refreshTopology`, `close` | stale topology, dials that fail, replacement of dead connections by several workers |
| Redis-family engine | `netkv/main.go:486-557` | connection pool, `-sync` | `setup`, `get`, `put` | two commands on a pool that must speak of the same write |
| benchmark server | `netkv/rostam_server/main.go` | one mutex per shard, the cache | `benchDispatcher.Call`, four handlers | read-modify-write across two cache calls, the all-shards barrier |
| read-modify-write workloads | `netkv/main.go:383-482` | the retry loop | `doOp`, `casIncr` | lost races, retries that run out |
| measuring loop | `netkv/main.go:202-293`, `netvec/main.go:317-465` | per-worker counters and latencies, shared totals | `run`, `pct`, `print` | window boundaries, publication by many workers |
| vector load generator | `netvec/main.go` | chosen node, chunk channel, staged/failed counters | `setup`, `probe`, `runBulk`, `run` | requests that fail before or after they were applied |
| Aerospike engine | `netkv/main.go:600-798` | key cache, policies | `doOp`, `casIncr`, native operations | generation compare-and-set over answers that get lost |
| Memcached, classic Rostam engines | `netkv/main.go:295-379, 565-596` | a client object | one client call each | nothing of their own |
| VectorDBBench client | `vectordbbench/rostam/` | wire-fallback flags, filter in two encodings | `insert_embeddings`, `optimize`, `prepare_filter`, `search_embedding` | the same data on two wires, fallback decided by one answer, partial loads |
| SIFT-1M preparation | `sift1m/*_bench.py`, `qdrant_latency_qps.py`, the two Rostam servers | a collection that outlives the program | drop, create, load, poll, reuse | indexing in the background, what an earlier program left behind |
| SIFT-1M measurement | `sift1m/*.py` | hits, latencies, a pool of processes, a socket | `latency`, `encode_search`, `_recvn`, `saturated_qps`, `_qps_worker` | ids with different bases, answers in pieces, tasks that start late or raise |
| sweep scripts | `netkv/*.sh`, `netkv/charts/*.sh`, `netkv/replication/*.sh`, `netvec/vecsweep.sh` | process ids, failure lists | bring up, gate, measure, tear down | a row that is missing or taken from an unfit cluster |
| cache benchmarks, charts, gRPC stubs | `*_test.go`, `*/charts/*.py`, `sift1m/grpc_stubs/` | none | library calls, drawing, generated code | not modelled |

How they interact: `main` of `netkv` builds one engine and hands its operations
to `run`, whose workers call it concurrently (`LoadGen` over `PipeEngine`,
`RedisSync` or `RostamOps`). `PipeEngine` owns several `PConn`s and relies on
what `PConn` guarantees: an answer belongs to its call, or the call learns that
the connection is dead. `close()` runs after `run` has waited for its workers
(`defer` in `main`), which is why it never meets a call in flight. `NetVec` picks
a node and then runs either its bulk load or the same measuring loop. The
VectorDBBench client is on its own: a Python harness drives one object per
process. The SIFT-1M programs run one after the other and meet only in what they
leave in an engine: each prepares its index (`IndexLoad`), asks its queries
(`SiftBench`, over `SearchWire` in the binary client) and saturates the server
with a pool of processes (`SatQps`).

What makes each part correct, in the order of importance:

* an answer reaches the call that asked, and every call ends (`PConn`);
* nil means that the write happened, and as durably as advertised (`PipeEngine`,
  `RedisSync`, `RostamOps`);
* no update is lost between concurrent handlers (`RostamOps`);
* a printed row says what was measured: all of it, once, over a time that covers
  it, on the collection that was asked for (`LoadGen`, `NetVec`), with the rows and
  the filter of the case whichever wire carried them (`VdbClient`, `Wire`), and
  compared with the right truth over a finished index (`SiftBench`).

The hazards, each at its line, are in `PROJECT.json`.

## 2. Modules

| module | models | run(s) |
|---|---|---|
| `PConn` | one pipelined connection: callers, read loop, `fail`, `close()`, peer | `pconn` |
| `Conn` | what a connection promises its callers, which `PConn` is shown to implement | `pconn` |
| `PipeEngine` | `route`, `call`, refresher and `close` | `pipe_engine`, `pipe_engine_leak` |
| `RedisSync` | `put` with `-sync` over a pool | `redis_sync`, `redis_sync_bug` |
| `RostamOps` | dispatcher, handlers, `doOp`, `casIncr`; the same workloads on Aerospike | `rostam_ops` |
| `Sorting` | what sorting a list of latencies does, for `LoadGen` and `SiftBench` | (used by both) |
| `LoadGen` | `run` and `pct` of both generators | `load_gen` |
| `NetVec` | one netvec invocation, bulk load included | `netvec`, `netvec_drop` |
| `Wire` | the request bodies of `rostam.py`, binary and JSON, and their reading | `vdb_client` |
| `VdbClient` | the VectorDBBench client: options, constructor, load with its fallback, build, filters, searches | `vdb_client`, `vdb_client_doc` |
| `IndexLoad` | how each SIFT-1M program gets its index | `sift_bench` |
| `SearchWire` | `encode_search`, `_recvn` and the reading of a response | `sift_bench` |
| `SatQps` | `saturated_qps` and `_qps_worker` | `sift_bench` |
| `SiftBench` | `main()` of the six SIFT-1M programs, composing the three above | `sift_bench` |
| `PConnProofs`, `PipeEngineProofs`, `RedisSyncProofs`, `RostamOpsProofs`, `LoadGenProofs`, `NetVecProofs`, `VdbClientProofs`, `SiftBenchProofs` | the theorems about the module each is named after and, in the last two, about what it composes (`Wire`; `IndexLoad`, `SearchWire`, `SatQps`) | (tlapm) |
| `MC*` | names for the model values of the `.cfg` files | |

Definitions marked `Mutant:` are wrong variants of the definition below them
(a dropped guard, a missing unlock). They are used nowhere in the
specifications; substituting one for its original must make TLC report the
property it is listed for in `PROJECT.json`.

### State and actions

**PConn.** `pc[c]` is the line a caller is at inside `call`; each action is one
stretch of code between points where another goroutine can interfere: the
unlocked check (`CallStart`), lock and second check (`CallLock`), `fifo <- rc`
(`CallPush`, blocked while the window is full), the writes with the unlock
(`CallWriteOk`, `CallWriteErr`), the two halves of `fail` (`CallFail` the
compare-and-swap, `CallClose` the close, because others run in between), `<-rc`
(`CallReceive`). The read loop and the engine's `close()` have their own control
states and the same two halves of `fail`. A result slot is named by the call that
made it, so an answer is the name of the call it answers: mixing answers up is
visible. `werr` is the error a `bufio.Writer` keeps. External: the server answers
in order; the peer may disappear at any time and lose a tail of its answers; a
frame may be malformed.

**Conn.** A call is open, answered with its own answer, or refused, the last only
once the connection is dead; death is final. `PConn` implements it with `open` the
callers that are not idle (`ImplementsConn`); whoever calls a connection that is
dead when it looks is rejected on the spot. `PipeEngine` takes a connection at
this. That every call ends is part of `Conn`, so the refinement includes liveness.

**PipeEngine.** One shard whose leader moves. `opened` lists every connection
ever dialled with its node and whether it lives, `conns` is `e.conns`; a
connection that lives and is not in `conns` is leaked. `RouteDial` is one turn of
the dialling loop under `e.mu`; `RoutePick`, `RouteRedial` and `RouteStore` are
separate since `e.mu` is not held. The connection itself is taken at what `Conn`
promises. `execs` counts executions of the current call; a leader's answer may be an
error, with or without an execution, and goes the way of NotLeader. A refresh is two
steps, the answer and the store, and the leader may move in between; its answer may
lack a leader. `Leave` is where the locals of `route` and of the pipelined call are
gone. Calls are not counted: a worker goes on until `close()`.

**RedisSync.** The pool is a stack (go-redis's default); `lastWrite[c]` is what
the master remembers of connection `c`, and WAIT waits for the replica to reach
it. A connection may break under a command, which go-redis repeats on a new one
or reports.

**RostamOps.** Each client has one control state standing for the worker and the
server goroutine that serves it. A handler is a `tx.Get` and a `tx.Put` in two
steps. Records are numbers or the three-field record of "aru"; an appended value
is told by its length in suffixes, the shifted word of "bitmask" is its `Width` bits,
of which a shift drops the highest. `Other` clients send ops without a routing key, which take the
barrier: they lock the mutexes one by one and, when their handler is done, unlock them one
by one. No such op is registered by `rostam_server` itself, the barrier serves
builtins, so its handler is taken to read and write back every key. On Aerospike
an operation is one atomic step of the server and `arg` holds the generation that
`casIncr` expects. `ReplyLost` is a connection that breaks after the server has
applied an operation: the worker gets an error it cannot tell from a refusal.
`did` counts on the server's side, `out` is what the worker returned.

**LoadGen.** A clock in ticks. `now` is the loop's time stamp, by which the
warmup is judged, `t0` the operation's own. `hist` keeps the operations
independently of the counters, and the properties compare the two. An operation may take
any time, or never end.

**NetVec.** `coll` says whether the collection is absent, left over or created by
this invocation. Every request may fail before or after it was applied.

**Wire.** A body is a sequence of cells, one per field of the layout in the code's
comments, with its counts, lengths and flag bits; the decoders read by position.
Numbers stand for floats and even numbers for float32, so `F32` loses something
and a conversion that is missing on one wire shows.

**VdbClient.** `binary`, `proven`, `binaryQuery`, `queryProven`, `filter` and `blob`
are the fields of `rostam.py`'s object, `asked` is what `config.py` makes of the
options; a chunk's turn is the binary request and, behind a rejection or with the
wire off, the JSON one. `applied` and `stored` are the server's side: how often a
row of the insert was applied and as what it was read, so that `(count, error)` can
be compared with the first and the wires with the second. `case` is the filter the
harness asked for and `sent` the answered search as the server read it. `speaks` is
which binary wires the server understands, and stays hidden from the client.
`_create` takes every error whose text contains "exist" for an existing collection,
so the client may be left with no collection at all, where every later request
fails.

**IndexLoad, SearchWire, SatQps, SiftBench.** `prog` is the program that runs, and
the engine starts as any earlier run may have left it: any vectors, any part of
them indexed. `lpc` is where the preparation is, `pc` where `main()` is. `Index` and
`IndexRests` are the service's background indexer. Any call may raise, which ends
the program. A search finds any at most K vectors (`found` counts the true ones);
the binary client's frames are made of fields and their lengths count fields; an answer
arrives in pieces into a zeroed buffer, and what is read is that buffer, so a read of
less than was sent would show in the recall. Qdrant's client may send a batch twice, which
changes nothing, an upsert being by id.
A task of the pool starts when a process takes it, at any time. `fork` is the start
method, which decides whether a worker has the parent's queries. The clock belongs
to the present measurement. The engine goes on indexing only during the
preparation, since nothing later depends on it; and the row that `latency` returned
is checked when it is returned and not carried through the pool.

## 3. Runs and what they show

| run | bounds | shows |
|---|---|---|
| `pconn` | 3 workers, window 2, 2 calls each | `ResponseMatches`, `NoStrandedWaiter`, `PushAfterDrainHasRoom`, `InFlightBounded`, `SlotAnsweredOnce`; under fairness every call returns and a dead connection's read loop ends; `PConn` implements `Conn` |
| `pipe_engine` | 2 workers, 2 nodes, 1 connection per node, 2 dials, one move of the leader | nil means executed, at most two executions, every call returns, and calls stop being answered by a node that has ceased to lead |
| `pipe_engine_leak` | 2 workers, 1 connection per node | **violated** `ConnsPerNode`, by two workers that replace the same connection |
| `redis_sync` | 2 workers, 2 connections, 2 puts each, 1 break | what `put` does guarantee; every put returns |
| `redis_sync_bug` | same, 1 put each, no break | **violated** `AckedIsReplicated` |
| `rostam_ops` | 2 workers with 1 and 2 operations ("cas", "bitmask"), 1 and 1 ("atomic", "incr") or 1 in all ("append"), 2 cross-shard clients, 2 shards, 2 keys, 2 attempts of a compare-and-set, width 2, on either engine | no lost update in any of the five modes, nil means applied once and nothing is applied twice although answers get lost, barrier exclusive, no deadlock, every operation returns |
| `load_gen` | 2 workers, 2 operations each, warmup 1, duration 1, clock to 4 | counters, latencies, elapsed time and percentiles are those of the window; `run` returns if and only if every operation ends |
| `netvec` | 2 nodes, 2 attempts, 5 points in chunks of 2, 2 workers | chunks partition the points, an unfailed bulk row means every point is searchable, a row is always printed |
| `netvec_drop` | same | **violated** `DroppedIsFresh` |
| `vdb_client` | 5 rows in batches of 2, 3 calls, one filter besides none, two option sets, every server | the reported count is true and no row of a call is applied twice, a row and a search mean the same on either wire, a search carries its case's filter, a proven wire is not left, `drop_old` means new and as asked |
| `vdb_client_doc` | 1 call | **violated** `LabelFilterAccepted` |
| `sift_bench` | 3 vectors, K 2, 2 queries, 2 values of ef, 2 tasks, batches of 2 searches, pipelines of 2, clock to 3 | what is measured was built whole; recall and percentiles are those of what the engine found; the throughput counts all answered searches and no others over a time that covers them; every program ends |

Why the bounds are enough. `pconn`: three callers are one more than the window,
so one blocks in `CallPush` with `mu` held and another waits for `mu`; two calls
per caller let a stale answer meet a later call. `pipe_engine`: one connection to either node, or one and its successor; both nodes
are reached through the move, and where no dial is left, calls take the fallback. More
connections per node, for which TLC has no time beside the liveness of calls that go on for ever,
are left to the proofs, where `PerNode` is any number. `rostam_ops`: two keys in two shards, so two workers share a shard or
do not, and two barriers can meet; one worker makes two operations, so that
in "cas" the other can lose once and succeed, or lose twice and give up with "too many
retries", and the word of two bits tells one shift from two and overflows on the third. `load_gen`: an operation can straddle the
warmup, the deadline, both, or outlast the run. `netvec`: three jobs, the last one
cut, for two workers. `vdb_client`: the five rows are three chunks, the last one
cut, so a failure can follow a success and precede another chunk; three calls let a
load on one wire be followed by searches and another load; the two option sets
differ in every option but the graph's size, one of them without a metric.
`sift_bench`: a pipeline is left half full after the loop; with K 2 of 3 vectors an
answer can be right, half right and wrong, and the file has a column more than K;
99 % of 3 is 2, so the index may lack a vector; a task can start after another one
has ended. Of the fields that are missing all or half arrive at once (`Pieces`), the
last task has started by `MaxStart`, a task makes `MaxN` searches at most. No run
uses symmetry: those large enough to need it check liveness.

### Findings

* `redis_sync_bug`: worker 1 SETs on connection A, worker 2 on B; 1's WAIT goes
  out on B or on a connection that wrote nothing. `put` returns nil although its
  own write is on no replica. The guarantee at `netkv/main.go:92-94` does not hold
  with more than one connection.
* `pipe_engine_leak`: `route` replaces a dead connection by check, dial and store
  without a lock around the three; two workers replace it twice, and the first
  replacement is lost, alive (`netkv/pipeline.go:212-216`).
* `vdb_client_doc`: `prepare_filter` raises for a label filter
  (`vectordbbench/rostam/rostam.py:227`; line 33 does not list it as supported), where
  `vectordbbench/README.md:420` says that such cases are accepted and ignored. What the
  code does is the safer of the two: no search is measured without its filter
  (`SearchIsTheCase`).
* `netvec_drop`: a failed DELETE is not noticed and "already exists" is success
  (`netvec/main.go:146, 183`): `-drop` can measure the leftover it exists to avoid.

Five things met while modelling have no run of their own.

* When a dial of `route` fails, the connections the same loop has dialled before it are
  dropped, alive and with their read loops (`netkv/pipeline.go:200-205`), again at every call
  while the node refuses. With `PerNode` = 2 one worker violates `ConnsPerNode` in this way;
  `pipe_engine_leak` has `PerNode` = 1, so that what it shows is the race.
* The package comments of `netkv/rostam_server/main.go` (8-10) and `netkv/main.go` (14-15)
  describe one mutex; the code has one per shard, as its later comments say. The atomicity
  the comments derive holds all the same (`NoLostUpdate`).
* `qdrant_latency_qps.py` reuses any collection named "sift" that is indexed far enough, also
  one that `qdrant_bench.py` made with `QDRANT_SQ8=1`: `MeasuredIsBuilt` speaks of the
  vectors, not of the options.
* The docstring of `hnswlib_bench.py` (line 6) calls the build single-threaded, which line 58
  (`num_threads=-1`) is not.
* The table at `netkv/README.md:509` gives the `shft` op as `v<<1`; the handler does
  `v<<1 | 1`, and Aerospike's shift moves in a zero.

### Fairness

Weak fairness of each goroutine's steps: the Go scheduler runs what can run.
In `PConn` and `RostamOps` that is enough for the mutexes too, because clients make
finitely many calls in the models. In `PipeEngine` calls go on for ever, and whoever waits
for `e.mu` is assumed to get it (strong fairness; Go's mutex is starvation-free).
`PConn` assumes that a server that stays connected answers what it received: `call()`
has no timeout, so nothing less gives termination, and `PipeEngine` takes this over.
Nothing forces the peer to vanish, a write to fail or a frame to be bad. `PipeEngine`
assumes besides that a dial ends (3 s timeout) and that the 2 s ticker gets a topology
again and again, be it stale when it is stored or without a leader. `RedisSync` assumes
nothing of the replica: WAIT's own timeout makes `put` return. `LoadGen` assumes nothing
of the operations, since the pipelined call may wait for ever: `RunReturns` says that
`run` returns exactly if they end. `NetVec` assumes that a request ends, as the
timeouts of its HTTP client see to. `SiftBench` assumes that
processes are scheduled and not killed, that a search that was sent is answered or
raises, that the clock advances, and that the indexer gets as far as the polls wait
for (99 % with Qdrant, everything with Redis) and then rests; nothing else ends
those polls. Nothing forces Rostam's server to be up: a client that finds nobody
raises. `VdbClient` has no liveness property: each of its calls is a bounded loop.

## 4. Proofs

Each proof module proves `InvariantHolds`, `Spec => []IInv` for an inductive invariant
`IInv`, and from it the properties the runs check. There is one lemma per action, with
a step for each conjunct of `IInv` that the action can disturb; facts about sequences,
sets and the model's operators are lemmas of their own. Every `IInv` was checked by TLC
on the instance of its run before it was proved. The theorems hold for every value of
the constants that satisfies the named assumptions of the modules; these say only that
windows, sizes and counts are natural numbers (positive where the code divides by them or
loops over them), that names used for "nobody" or "nothing" differ from the others, and
that the data are of their types. Where they are more than that it is said below.

| theorem | property | module |
|---|---|---|
| `TypeCorrect` | `TypeOK` | all that have one |
| `ResponsesMatch`, `NobodyStranded`, `PushNeverStuck`, `InFlightIsBounded`, `AnsweredOnce` | `ResponseMatches`, `NoStrandedWaiter`, `PushAfterDrainHasRoom`, `InFlightBounded`, `SlotAnsweredOnce` | `PConnProofs` |
| `ImplementsConnSafely` | `Spec => ConnMap!Spec`, the safety part of `ImplementsConn` | `PConnProofs` |
| `NilExecuted`, `ExecutedAtMostTwice` | `NilMeansExecuted`, `AtMostTwice` | `PipeEngineProofs` |
| `SameConnAckReplicated` | `SameConnAckIsReplicated` | `RedisSyncProofs` |
| `NoUpdateLost`, `NilAppliedOnce`, `BarrierExcludes` | `NoLostUpdate`, `NilMeansAppliedOnce`, `BarrierIsExclusive` | `RostamOpsProofs` |
| `UpdatesAreSerial` | `[][AppliesToCurrent]_vars`, an action property | `RostamOpsProofs` |
| `ElapsedCoversAll`, `CountsAreExact`, `PercentilesAreTrue` | `ElapsedCovers`, `CountsAgree`, `PctIsPercentile` | `LoadGenProofs` |
| `PointsAreConserved`, `RowIsSearchable` | `PointsConserved`, `RowMeansSearchable` | `NetVecProofs` |
| `ReportTrue`, `WiresAlwaysAgree`, `SearchesTheCase`, `DroppedMeansNew`, `WireIsKept` | `ReportIsTrue`, `WiresAgree`, `SearchIsTheCase`, `DropMeansNew`, `ProvenWireIsKept` | `VdbClientProofs` |
| `IndexIsBuilt`, `ThroughputIsHonest`, `RowsAreTrue` | `MeasuredIsBuilt`, `QpsIsHonest`, `RowIsTrue` | `SiftBenchProofs` |

### The arguments

**PConn.** The properties are not inductive as they stand. `IInv` is `TypeOK` and
`SlotAnsweredOnce` together with

* `MutexInv`: `mu` is held by exactly the caller that is at "push" or "write";
* `CallInv`, `FutureInv`, `PastInv`: where a call is, relative to its slot. Before
  the push the slot is empty and not queued; slots of calls not yet made are empty;
* `WireInv`, the heart of `ResponseMatches`: while the read loop matches, the answer
  it holds, the answers on their way and the requests at the server, one after the
  other, are the oldest slots of `fifo`, and the slot of the one caller that has
  pushed and not yet written is the newest. Taking heads in step keeps it so;
* `AnswerInv`: what was sent into a slot is its own answer or `Dead`;
* `QueuedInv`, `DeadInv`, `DoneInv`: why nobody is stranded although `fail` sets
  `dead` before it closes. Whoever marks the connection dead leaves a reason for
  every later write to fail: a caller does it only after a failed write, so `werr` is
  set already; the read loop drains only after its own close; and the engine's
  `close()` finds every caller idle. So after the drain nobody waits unanswered, and
  who has still to push finds `fifo` empty;
* `BoundInv`: `fifo` never holds more than the window.

The refinement maps the callers that are not idle to `Conn`'s open calls. The step that
matters is the receive: that what arrives is the caller's own answer, or `Dead` on a
dead connection, is `AnswerInv` and `DeadInv`.

**PipeEngine.** `ExecInv` ties the number of executions to the place in `call`: none
while routing, one at "answer" if the status is OK, none if it is NotLeader, at most one
if it is an error and before the fallback. It
needs `RouteInv` (an address was decided, a picked connection was dialled) and `FillInv`
(a fill holds `e.mu` and stores a full list), since an index into an empty list would
be a call over no connection.

**RedisSync.** `PoolInv` says that no connection is in two hands, `WriteInv` that the
master remembers of a connection at least the SET that went out on it last; a WAIT on
that connection then waits for it. This is also where the finding comes from: without
"the same connection" `WriteInv` has nothing to say.

**RostamOps.** `LockInv`: a running handler holds the mutex of its key's shard, a
barrier those below its index, all of them while its handler runs, and from the index of the
unlocking loop on afterwards. Two handlers of a key therefore exclude each other, and
`SnapInv` follows, what a handler has read is what is there until it writes. For the
compare-and-set of Rostam the comparison under the lock does it; for Aerospike `CasInv`
says that the generation that came with a counter is the counter. `StoreInv` is the
record as a function of its log: a count, a word of ones from below, or the games, the
best streak and the score. `DidInv` follows the operation: whether it was applied is
determined by where it is and by what it was told, except behind a lost answer. Reads
are not locked, and nothing in the argument needs them to be. `UpdatesAreSerial` says
the same of single steps: a write applies one operation to the present value.

**LoadGen.** `LocalInv` and `SharedInv` make every worker's counters the number of its
operations in the history, and the shared counters those of the workers that are done;
`LoopInv` orders a worker's time stamps, from which `ElapsedCovers` follows. The history
is a set, so the totals need the cardinalities of disjoint unions. The assumption that
there is a worker (`-conns 0` would end at once, before the deadline) is used: `res` is
taken only after some worker has passed the deadline.

The latencies are followed by a matching. `MatchInv`: there is a bijection from the places
of all the workers' lists to the operations that are timed, under which a place holds what
its operation took; an operation that ends adds one pair to it (`OneMorePair`).
`PublishInv` carries the lists over to `perWorker`, and when `run` merges and sorts them
the matching is composed with the one that sorts (`SortedResult`), so that `ListInv`, the
sorted list has every operation once, needs no induction over workers or lists.
`CountsAgree` then counts the same sets through the bijection (`SameCount`). For
`PctIsPercentile`, fewer than `k` elements of a sorted list are below its `k`-th and at
least `k` are not above it (`AtRank`), and the truncated index is the `k` that this needs
(`TruncatedIndex`). The code truncates a product of floats and the model the exact one;
evaluated in doubles the two agree for the three percentiles and every sample of up
to two million latencies.

**Sorting.** `Sort` chooses a permutation that puts a list in order, and the proofs need
that there is one. `SortWorks` has it from ranks: an element's rank is the number of those
that are smaller, or equal and not later in some enumeration (`NotLater`). Ranks are
strictly monotone (`RankOrders`), hence injective, hence, on a finite set into itself, a
bijection (`RankIsBijection`), whose inverse sorts. The lemmas are in both modules that
use them.

**NetVec.** `JobInv`: a job is a nonempty chunk below `lo` and out only in "stage".
`AppliedInv`: a pending point was not staged, any other at most once, and surely if
nothing failed. `PointsConserved` counts with cardinalities of the jobs' disjoint
intervals.

**VdbClient.** The round trips come first, for bodies of any length: what the server
reads from a binary body is what the JSON body says (`BulkRoundTrip` and its siblings,
by position behind the header, with the flag bits read back). Then `ChunkInv` (within a
call exactly the rows before `start` were applied, once), `ReportInv` (it stays true
between calls) and `FilterInv` (both encodings of the filter are of the present case,
which is one the client supports, or the client has raised).

**SiftBench.** `LoadInv` follows the preparation in all six programs: what was sent and
what is queued in the pipeline are together the base up to the loop's index. `QpsInv`
keeps what the server has answered equal to the sum of the tasks' counters, and every
returned task's stop in the past; `RecallInv` says what the answer under way
will add, in terms of the ids that were sent; `WireInv`, that a frame is read only when all
of it is in the buffer, makes them the ids that are read. `LatInv`, proved on
top of `IInv`, says that a latency program has one latency for every query answered so
far; at the end of the loop they are `LAT_N`, and by `AtPlace` (the sorting permutation
is injective, so `k` different searches are at or below the `k`-th, and all but `k - 1` at or above it) the two elements that
`latency` looks at are the median and a 99th percentile. It is assumed of
the ground truth that its rows name `K` different vectors (`DataAssumption`): the code
computes recall by sets, and a row with a duplicate could never reach 1.

The total over the pool is a sum over a set of tasks. The library's induction
principles take the formula as a parameter, which the installed provers cannot
instantiate; `SiftBenchProofs` inducts by hand: a set of counterexamples would have a
least one (`Least`, from `WFMin`), which the step refutes. `SumsExist` shows in this way
that the recursive function behind `MapThenSumSet` exists, `SumType` and its successors
what it computes.

### Only model-checked

* Liveness: `EveryCallReturns` and the other temporal properties, and the fairness part of
  the refinement of `Conn`. Fairness and ENABLED are out of TLAPS's reach here. Every
  invariant that a passing run checks is proved.
* The violated properties, which are counterexamples and not theorems.

## 5. Not modelled

* The frames and arguments of `netkv` beyond what distinguishes a good frame from a
  bad one; the JSON bodies of `netvec`; key choice (uniform or Zipf); HTTP sessions;
  memory measurement; printing.
* The client libraries and services, modelled from how they are used and marked
  external in `PROJECT.json`.
* A write that blocks in the kernel for ever.
* `-pipeconns 0`, `-conns 0` and `-chunk 0`, which the assumptions on the constants
  exclude and the code does not check.
* The chart programs draw tables that are written into them: no input, no state and
  no order of steps to get wrong. The sweep scripts are straight-line orchestration
  by process ids and exit codes. The cache benchmarks call third-party caches. The
  gRPC stubs are generated. The Memcached and classic Rostam engines are one client
  call per operation.

## 6. Plan

1. Done: `PConn` with its proofs, `Conn` and the refinement, `PipeEngine`,
   `RedisSync`, `RostamOps` on both engines, `LoadGen`, `NetVec`, `VdbClient` over
   `Wire`, the SIFT-1M programs.
2. Done: the proofs of section 4, for all eight components.
3. Done: sorting, and with it the latencies of `CountsAgree`, `PctIsPercentile` and the
   percentiles of `RowIsTrue`.
4. Left: the temporal properties, which stay with TLC; the parts of section 5.
