----------------------------- MODULE IndexLoad ------------------------------
(***************************************************************************)
(* How the SIFT-1M programs (sift1m/) get an index over the base vectors   *)
(* before they measure it: drop, create, load and wait, or reuse of what   *)
(* is there.  A program that fails anywhere leaves the engine as it is,    *)
(* and the next program starts from that.                                  *)
(*                                                                         *)
(* External: Qdrant and RediSearch, which index in the background, and the *)
(* hnswlib and Rostam libraries.                                           *)
(***************************************************************************)
EXTENDS Integers, FiniteSets

CONSTANTS N,         \* base vectors, numbered from 0
          PipeBatch  \* HSETs per pipeline (2000)

ASSUME LoadAssumption == {N, PipeBatch} \subseteq Nat \ {0}

VARIABLES prog,     \* the program that runs
          lpc,      \* where its preparation is
          exists,   \* the collection or index exists
          present,  \* the vectors the engine holds
          indexed,  \* how many of them are in the index
          green,    \* Qdrant's status
          next,     \* Redis: the loop variable
          pipe,     \* Redis: the vectors queued in the pipeline
          sends,    \* history: how often each vector was sent by this program,
                    \* with Qdrant whether it was
          reused    \* the index was there before

engineVars == <<exists, present, indexed, green>>
loadVars == <<prog, lpc, exists, present, indexed, green, next, pipe, sends, reused>>

Vector == 0..N - 1
Rostam == {"rostam_py_client", "rostam_grpc_client"}
Qdrant == {"qdrant_bench", "qdrant_latency_qps"}
Programs == Rostam \cup Qdrant \cup {"redis_bench", "hnswlib_bench"}
Enough == (N * 99) \div 100   \* int(n * 0.99)

\* What an earlier program left behind; hnswlib has nothing outside its process,
\* and the Rostam servers listen only after their build.
LoadInit ==
    /\ prog \in Programs
    /\ lpc = IF prog = "qdrant_latency_qps" THEN "check" ELSE "drop"
    /\ exists \in BOOLEAN /\ (prog \in Rostam \cup {"hnswlib_bench"} => ~exists)
    /\ present \in SUBSET Vector /\ (~exists => present = {})
    /\ indexed \in 0..Cardinality(present)
    /\ green \in BOOLEAN
    /\ next = 0 /\ pipe = {}
    /\ sends = [v \in Vector |-> 0]
    /\ reused = FALSE

Goto(l) == lpc' = l

-----------------------------------------------------------------------------
(* Qdrant *)

\* qdrant_latency_qps.py: an existing collection will do if it is indexed far
\* enough; neither its options nor its status is looked at.
Check ==
    /\ lpc = "check"
    /\ reused' = (exists /\ indexed >= Enough)
    /\ Goto(IF reused' THEN "ready" ELSE "drop")
    /\ UNCHANGED <<prog, engineVars, next, pipe, sends>>

DropQdrant ==
    /\ lpc = "drop" /\ prog \in Qdrant
    /\ exists' = FALSE /\ present' = {} /\ indexed' = 0
    /\ Goto("create")
    /\ UNCHANGED <<prog, green, next, pipe, sends, reused>>

\* upload_collection (external): batches of two processes, in any order; one that
\* fails is sent again, stored or not, and an upsert of what is there changes
\* nothing, so that it is not counted how often.
Upload(v) ==
    /\ lpc = "load" /\ prog \in Qdrant
    /\ sends' = [sends EXCEPT ![v] = 1]
    /\ present' = present \cup {v}
    /\ UNCHANGED <<prog, lpc, exists, indexed, green, next, pipe, reused>>

UploadDone ==
    /\ lpc = "load" /\ prog \in Qdrant /\ \A v \in Vector : sends[v] = 1
    /\ Goto("poll")
    /\ UNCHANGED <<prog, engineVars, next, pipe, sends, reused>>

PollQdrant ==
    /\ lpc = "poll" /\ prog \in Qdrant
    /\ green /\ indexed >= Enough
    /\ Goto("ready")
    /\ UNCHANGED <<prog, engineVars, next, pipe, sends, reused>>

-----------------------------------------------------------------------------
(* RediSearch *)

\* FT.DROPINDEX DD, with the documents; any ResponseError is passed over.
DropRedis ==
    /\ lpc = "drop" /\ prog = "redis_bench"
    /\ \/ exists /\ exists' = FALSE /\ present' = {} /\ indexed' = 0
       \/ UNCHANGED <<exists, present, indexed>>
    /\ Goto("create")
    /\ UNCHANGED <<prog, green, next, pipe, sends, reused>>

\* pipe.execute()
Execute(q) ==
    /\ present' = present \cup q
    /\ sends' = [v \in Vector |-> sends[v] + IF v \in q THEN 1 ELSE 0]
    /\ pipe' = {}

\* One turn of the loop: an HSET is queued, and every PipeBatch of them are sent.
Hset ==
    /\ lpc = "load" /\ prog = "redis_bench" /\ next < N
    /\ next' = next + 1
    /\ IF next % PipeBatch = PipeBatch - 1 THEN Execute(pipe \cup {next})
       ELSE pipe' = pipe \cup {next} /\ UNCHANGED <<present, sends>>
    /\ UNCHANGED <<prog, lpc, exists, indexed, green, reused>>

\* Mutant: what is left in the pipeline after the loop is not sent.
HsetDoneNoFlush ==
    /\ lpc = "load" /\ prog = "redis_bench" /\ next = N
    /\ Goto("poll")
    /\ UNCHANGED <<prog, engineVars, next, pipe, sends, reused>>

HsetDone ==
    /\ lpc = "load" /\ prog = "redis_bench" /\ next = N
    /\ Execute(pipe)
    /\ Goto("poll")
    /\ UNCHANGED <<prog, exists, indexed, green, next, reused>>

\* percent_indexed and indexing of FT.INFO.
PollRedis ==
    /\ lpc = "poll" /\ prog = "redis_bench"
    /\ indexed = Cardinality(present)
    /\ Goto("ready")
    /\ UNCHANGED <<prog, engineVars, next, pipe, sends, reused>>

\* create_collection and FT.CREATE refuse a name that is taken.
Create ==
    /\ lpc = "create" /\ ~exists
    /\ exists' = TRUE
    /\ Goto("load")
    /\ UNCHANGED <<prog, present, indexed, green, next, pipe, sends, reused>>

\* The background indexer of either service (external); Qdrant's status is green
\* when it rests, before it has begun and between two rounds too.
Index ==
    /\ prog \in Qdrant \cup {"redis_bench"} /\ indexed < Cardinality(present)
    /\ indexed' = indexed + 1 /\ green' = FALSE
    /\ UNCHANGED <<prog, lpc, exists, present, next, pipe, sends, reused>>
IndexRests ==
    /\ prog \in Qdrant /\ ~green
    /\ green' = TRUE
    /\ UNCHANGED <<prog, lpc, exists, present, indexed, next, pipe, sends, reused>>

-----------------------------------------------------------------------------
(* hnswlib and Rostam *)

\* hnswlib_bench.py: add_items blocks until all of the base is in the index.
AddItems ==
    /\ prog = "hnswlib_bench" /\ lpc = "drop"
    /\ exists' = TRUE /\ present' = Vector /\ indexed' = N
    /\ sends' = [v \in Vector |-> 1]
    /\ Goto("ready")
    /\ UNCHANGED <<prog, green, next, pipe, reused>>

\* rostam_server, rostam_grpc: BuildConcurrent over all of the base, then listen.
Serve ==
    /\ prog \in Rostam /\ ~exists
    /\ exists' = TRUE /\ present' = Vector /\ indexed' = N
    /\ sends' = [v \in Vector |-> 1]
    /\ UNCHANGED <<prog, lpc, green, next, pipe, reused>>

\* The clients connect; before the server listens that raises.
Connect ==
    /\ prog \in Rostam /\ lpc = "drop" /\ exists
    /\ Goto("ready")
    /\ UNCHANGED <<prog, engineVars, next, pipe, sends, reused>>

\* Any of the calls above raises and ends the program: the services', the files'.
LoadRaises ==
    /\ lpc \notin {"ready", "raised"}
    /\ Goto("raised")
    /\ UNCHANGED <<prog, engineVars, next, pipe, sends, reused>>

LoadQdrant == Check \/ DropQdrant \/ (\E v \in Vector : Upload(v)) \/ UploadDone \/ PollQdrant
LoadRedis == DropRedis \/ Hset \/ HsetDone \/ PollRedis
LoadStep == LoadQdrant \/ LoadRedis \/ Create \/ AddItems \/ Connect

\* Nothing else can happen: the name is taken, or nobody listens.
MustRaise == LoadRaises /\ (prog \in Rostam \/ (lpc = "create" /\ exists))
=============================================================================
