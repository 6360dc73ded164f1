----------------------------- MODULE VdbClient -----------------------------
(***************************************************************************)
(* The VectorDBBench client for Rostam (vectordbbench/rostam/rostam.py):   *)
(* the options (config.py, cli.py), the constructor, chunked inserts with  *)
(* the fallback from the binary bulk wire to JSON, the build, and searches *)
(* with a prepared filter over the binary query wire or JSON; Wire has the *)
(* bodies.  The harness drives one client object per process ("one session *)
(* per worker process"), so its calls are in sequence.                     *)
(*                                                                         *)
(* External: the server, which speaks each binary wire or not.  One that   *)
(* does not answers 400, 404 or 415 and applies nothing; one that does may *)
(* answer 400 for a reason of its own.  A request may also be answered     *)
(* with another error, or end in an exception after it was applied or not. *)
(***************************************************************************)
EXTENDS Naturals, Sequences, Wire

CONSTANTS N,           \* rows of one insert_embeddings call
          INSERT_BATCH,
          K,           \* k of a search
          CaseConfigs, \* the index options a user may give
          MaxCalls,    \* bound: inserts and searches made on the object
          Filters,     \* the NumGE filters prepare_filter may be given
          NoFilter,    \* FilterOp.NonFilter
          Other,       \* a filter of a type the client does not support
          None         \* no collection, no answered search

ASSUME BatchAssumption == {N, INSERT_BATCH, K} \subseteq Nat \ {0} /\ MaxCalls \in Nat
ASSUME FilterAssumption ==
    /\ NoFilter \notin Filters /\ Other \notin Filters \cup {NoFilter}
    /\ None \notin Filters \cup {NoFilter, Other}
ASSUME CaseAssumption ==
    CaseConfigs \subseteq [metric_type : {"L2", "IP", "COSINE", "None"}, m : Nat,
                           ef_construction : Nat, ef_search : Nat,
                           quant : {"empty", "sq8", "bq1", "pq", "sq", "prq"}]

VARIABLES
    speaks,     \* the binary wires the server understands (external)
    coll,       \* the collection: None, or its config and whether this client made it
    dropOld, loadPath,
    asked,      \* index_param() of the case
    binary, proven,            \* _binary, _binary_proven
    binaryQuery, queryProven,  \* _binary_query, _binary_query_proven
    filter,     \* query_filter, for the JSON wire
    blob,       \* _filter_blob, for the binary wire
    pc,         \* where the object is
    start,      \* rows of the current insert that are done
    count, err, \* what the last insert returned
    calls,      \* inserts and searches made
    case,       \* history: the filter of the case the harness runs
    sent,       \* history: the case's search that was answered last, as the server read it
    applied,    \* history: how often each row of the current insert was applied
    stored      \* history: the rows of the current insert as the server read them

config == <<speaks, dropOld, loadPath, asked>>
insertVars == <<binary, proven, start, count, err, applied, stored>>
queryVars == <<binaryQuery, queryProven, filter, blob, case, sent>>
vars == <<speaks, coll, dropOld, loadPath, asked, binary, proven, binaryQuery, queryProven,
          filter, blob, pc, start, count, err, calls, case, sent, applied, stored>>

Row == 1..N
Wires == {"bulk", "query"}
LoadPaths == {"bulk", "payload", "batch"}

\* What the harness hands over: the ids and, as doubles, the vectors and a query.
metadata == [i \in Row |-> 100 + i]
embeddings == [i \in Row |-> 2 * i + 1]
query == 2 * N + 3

-----------------------------------------------------------------------------
(* config.py and cli.py *)

\* RostamConfig.to_dict, as far as the client reads it.  "empty" is the empty string.
to_dict == [load_path : LoadPaths \cup {"empty", "other"}, binary_wire : BOOLEAN, binary_query : BOOLEAN]

\* The command line sets the url only.
Defaults == [load_path |-> "bulk", binary_wire |-> TRUE, binary_query |-> TRUE]

parse_metric(t) == IF t = "L2" THEN "l2" ELSE IF t = "IP" THEN "dot" ELSE "cosine"

index_param(c) == [metric |-> parse_metric(c.metric_type), m |-> c.m,
                   ef_construction |-> c.ef_construction, ef_search |-> c.ef_search,
                   quant |-> c.quant]

\* RostamHNSW: the options of the case as given, the metric left to the harness.
RostamHNSW == {Defaults} \X {c \in CaseConfigs : c.metric_type = "None"}

\* A configuration file sets everything.
Configured == to_dict \X CaseConfigs

\* load_path = db_config.get("load_path") or "bulk"
load_path(db) == IF db.load_path = "empty" THEN "bulk" ELSE db.load_path

Init ==
    /\ speaks \in SUBSET Wires
    /\ coll \in {None} \cup [config : {index_param(c) : c \in CaseConfigs}, made : {FALSE}]
    /\ dropOld \in BOOLEAN
    /\ \E o \in RostamHNSW \cup Configured :
          /\ loadPath = load_path(o[1])
          /\ binary = o[1].binary_wire /\ binaryQuery = o[1].binary_query
          /\ asked = index_param(o[2])
    /\ proven = FALSE /\ queryProven = FALSE
    /\ filter = <<>> /\ blob = <<>>
    /\ pc = IF loadPath \notin LoadPaths THEN "raised" ELSE IF dropOld THEN "drop" ELSE "create"
    /\ start = 0 /\ count = 0 /\ err = FALSE
    /\ calls = 0
    /\ case = NoFilter /\ sent = None
    /\ applied = [i \in Row |-> 0] /\ stored = [i \in Row |-> <<>>]

-----------------------------------------------------------------------------
(* __init__ *)

\* The DELETE: its status is ignored, an exception ends the constructor.
Drop ==
    /\ pc = "drop"
    /\ coll' \in {coll, None}
    /\ pc' \in {"create", "raised"}
    /\ UNCHANGED <<config, calls, insertVars, queryVars>>

\* The body of the create: quant is sent only when it is set.
CreateConfig(idx) ==
    [dim |-> 1, metric |-> idx.metric, m |-> idx.m, ef_construction |-> idx.ef_construction,
     ef_search |-> idx.ef_search, quant |-> IF idx.quant # "empty" THEN <<idx.quant>> ELSE <<>>]

\* The collection the server makes of it (external): unquantized by default.
Collection(cfg) ==
    [config |-> [metric |-> cfg.metric, m |-> cfg.m, ef_construction |-> cfg.ef_construction,
                 ef_search |-> cfg.ef_search, quant |-> IF cfg.quant = <<>> THEN "empty" ELSE cfg.quant[1]],
     made |-> TRUE]

\* _create succeeds.
Created ==
    /\ pc = "create" /\ coll = None
    /\ coll' = Collection(CreateConfig(asked))
    /\ pc' = "ready"
    /\ UNCHANGED <<config, calls, insertVars, queryVars>>

\* Mutant: an existing collection is reused whatever was asked for.
AlreadyExistsReused ==
    /\ pc = "create"
    /\ pc' = "ready"
    /\ UNCHANGED <<config, coll, calls, insertVars, queryVars>>

\* _AlreadyExists: reused, unless it was to be dropped.  It stands for a 409,
\* and for any error whose text holds "exist": one saying that something does
\* not exist included, so the collection may be missing.
AlreadyExists ==
    /\ pc = "create"
    /\ pc' = IF dropOld THEN "raised" ELSE "ready"
    /\ UNCHANGED <<config, coll, calls, insertVars, queryVars>>

\* Any other answer, or an exception, ends the constructor.
CreateFails ==
    /\ pc = "create"
    /\ coll' \in {coll, IF coll = None THEN Collection(CreateConfig(asked)) ELSE coll}
    /\ pc' = "raised"
    /\ UNCHANGED <<config, calls, insertVars, queryVars>>

-----------------------------------------------------------------------------
(* insert_embeddings and optimize *)

InsertStart ==
    /\ pc = "ready" /\ calls < MaxCalls
    /\ calls' = calls + 1
    /\ start' = 0
    /\ applied' = [i \in Row |-> 0] /\ stored' = [i \in Row |-> <<>>]
    /\ pc' = "chunk"
    /\ UNCHANGED <<config, coll, binary, proven, count, err, queryVars>>

Return(n, e) == pc' = "ready" /\ count' = n /\ err' = e

\* The rows of the chunk at start.
end == IF start + INSERT_BATCH < N THEN start + INSERT_BATCH ELSE N
ids == SubSeq(metadata, start + 1, end)
chunk == SubSeq(_as_f32(embeddings), start + 1, end)

\* The route and what goes with it.
inline == loadPath = "batch"
payload_path == loadPath \in {"payload", "batch"}

\* Mutant: one turn of the loop too many.
NextChunkOneMore ==
    /\ start' = start + INSERT_BATCH
    /\ IF start <= N THEN pc' = "chunk" /\ UNCHANGED <<count, err>>
       ELSE Return(N, FALSE)

\* The chunk at start was applied: on to the next one, or return (n, None).
NextChunk ==
    /\ start' = start + INSERT_BATCH
    /\ IF start' < N THEN pc' = "chunk" /\ UNCHANGED <<count, err>>
       ELSE Return(N, FALSE)

\* The server takes a request it can read, if it has the collection; "the staging
\* route rejects" an upsert (rostam.py:345).
Apply(req) ==
    /\ coll # None
    /\ req.upsert => inline
    /\ applied' = [i \in Row |-> applied[i]
                      + IF \E p \in DOMAIN req.points : req.points[p].id = metadata[i] THEN 1 ELSE 0]
    /\ stored' = [i \in Row |->
          IF \E p \in DOMAIN req.points : req.points[p].id = metadata[i]
          THEN LET p == CHOOSE q \in DOMAIN req.points : req.points[q].id = metadata[i]
               IN  <<req.points[p].vec, req.points[p].metadata, req.upsert>>
          ELSE stored[i]]

\* The request of the chunk on either wire.
ApplyBinary ==
    LET body == _binary_body(ids, chunk, inline, payload_path)
    IN  "bulk" \in speaks /\ WellFormedBulk(body) /\ Apply(DecodeBulk(body))
ApplyJson == Apply(DecodeJson(_json_body(ids, chunk, payload_path, inline)))

BinaryOk ==
    /\ pc = "chunk" /\ binary
    /\ ApplyBinary
    /\ proven' = TRUE
    /\ NextChunk
    /\ UNCHANGED <<config, coll, calls, binary, queryVars>>

\* Mutant: a rejection falls back whether or not the wire is proven.
BinaryRejectedAlways ==
    /\ pc = "chunk" /\ binary
    /\ binary' = FALSE
    /\ pc' = "json" /\ UNCHANGED <<count, err>>
    /\ UNCHANGED <<config, coll, calls, proven, start, applied, stored, queryVars>>

\* 400, 404 or 415: before any success the server is taken for an old one and
\* the chunk goes out as JSON; afterwards it is an error.
BinaryRejected ==
    /\ pc = "chunk" /\ binary
    /\ \/ ~proven /\ binary' = FALSE /\ pc' = "json" /\ UNCHANGED <<count, err>>
       \/ proven /\ binary' = binary /\ Return(start, TRUE)
    /\ UNCHANGED <<config, coll, calls, proven, start, applied, stored, queryVars>>

\* After _binary is off, or at once behind a rejected binary request.
JsonTurn == pc = "json" \/ (pc = "chunk" /\ ~binary)

JsonOk ==
    /\ JsonTurn
    /\ ApplyJson
    /\ NextChunk
    /\ UNCHANGED <<config, coll, calls, binary, proven, queryVars>>

\* Mutant: the failing chunk is counted.
InsertErrorCountsIt ==
    /\ pc \in {"chunk", "json"}
    /\ \/ pc = "chunk" /\ binary /\ ApplyBinary
       \/ JsonTurn /\ ApplyJson
       \/ UNCHANGED <<applied, stored>>
    /\ Return(end, TRUE)
    /\ UNCHANGED <<config, coll, calls, binary, proven, start, queryVars>>

\* Any other status, on either wire, for a chunk applied or not: (start, error).
InsertError ==
    /\ pc \in {"chunk", "json"}
    /\ \/ pc = "chunk" /\ binary /\ ApplyBinary
       \/ JsonTurn /\ ApplyJson
       \/ UNCHANGED <<applied, stored>>
    /\ Return(start, TRUE)
    /\ UNCHANGED <<config, coll, calls, binary, proven, start, queryVars>>

\* An exception, after the request was applied or not: (0, e).
InsertException ==
    /\ pc \in {"chunk", "json"}
    /\ \/ pc = "chunk" /\ binary /\ ApplyBinary
       \/ JsonTurn /\ ApplyJson
       \/ UNCHANGED <<applied, stored>>
    /\ Return(0, TRUE)
    /\ UNCHANGED <<config, coll, calls, binary, proven, start, queryVars>>

\* The build of the staged points; nothing to do on the inline path.
OptimizeFails ==
    /\ pc = "ready" /\ loadPath # "batch"
    /\ pc' = "raised"
    /\ UNCHANGED <<config, coll, calls, insertVars, queryVars>>

-----------------------------------------------------------------------------
(* prepare_filter and search_embedding *)

\* None and b"" for no filter, else the tree and its encoding.
FilterTree(f) == IF f = NoFilter THEN <<>> ELSE <<"gte", f>>

Refused(f) == f = Other \/ (f # NoFilter /\ loadPath = "bulk")

\* Mutant: NonFilter leaves the encoded copy behind.
PrepareFilterKeepsBlob(f) ==
    /\ pc = "ready" /\ ~Refused(f)
    /\ case' = f /\ sent' = None
    /\ filter' = FilterTree(f)
    /\ blob' = IF f = NoFilter THEN blob ELSE FilterTree(f)
    /\ pc' = pc
    /\ UNCHANGED <<config, coll, calls, insertVars, binaryQuery, queryProven>>

\* Both encodings of the filter; a load without payload refuses a filter.
PrepareFilter(f) ==
    /\ pc = "ready"
    /\ case' = f /\ sent' = None
    /\ \/ ~Refused(f) /\ filter' = FilterTree(f) /\ blob' = FilterTree(f) /\ pc' = pc
       \/ Refused(f) /\ pc' = "raised" /\ UNCHANGED <<filter, blob>>
    /\ UNCHANGED <<config, coll, calls, insertVars, binaryQuery, queryProven>>

SearchStart ==
    /\ pc = "ready" /\ calls < MaxCalls
    /\ calls' = calls + 1
    /\ pc' = IF binaryQuery THEN "query" ELSE "jsonQuery"
    /\ UNCHANGED <<config, coll, insertVars, queryVars>>

QueryOk ==
    /\ pc = "query" /\ "query" \in speaks /\ coll # None
    /\ queryProven' = TRUE
    /\ sent' = DecodeQuery(_query_body(query, K, blob))
    /\ pc' = "ready"
    /\ UNCHANGED <<config, coll, calls, insertVars, binaryQuery, filter, blob, case>>

\* The query wire's own fallback, for the rest of the run.
QueryRejected ==
    /\ pc = "query" /\ ~queryProven
    /\ binaryQuery' = FALSE
    /\ pc' = "jsonQuery"
    /\ UNCHANGED <<config, coll, calls, insertVars, queryProven, filter, blob, case, sent>>

JsonQueryOk ==
    /\ pc = "jsonQuery" /\ coll # None
    /\ sent' = DecodeJsonQuery(JsonQuery(query, K, filter))
    /\ pc' = "ready"
    /\ UNCHANGED <<config, coll, calls, insertVars, binaryQuery, queryProven, filter, blob, case>>

\* raise_for_status, or an exception, which may also come from the body of a
\* good answer: the search raises, the object stays.
SearchFails ==
    /\ pc \in {"query", "jsonQuery"}
    /\ \/ queryProven' = queryProven
       \/ pc = "query" /\ "query" \in speaks /\ coll # None /\ queryProven' = TRUE
    /\ pc' = "ready"
    /\ UNCHANGED <<config, coll, calls, insertVars, binaryQuery, filter, blob, case, sent>>

-----------------------------------------------------------------------------
Insert == InsertStart \/ BinaryOk \/ BinaryRejected \/ JsonOk \/ InsertError \/ InsertException
Search == SearchStart \/ QueryOk \/ QueryRejected \/ JsonQueryOk \/ SearchFails

\* The object is of no more use, or the harness is done with it.
Finished == (pc = "raised" \/ (pc = "ready" /\ calls = MaxCalls)) /\ UNCHANGED vars

Next == \/ Drop \/ Created \/ AlreadyExists \/ CreateFails
        \/ Insert \/ OptimizeFails
        \/ \E f \in Filters \cup {NoFilter, Other} : PrepareFilter(f)
        \/ Search
        \/ Finished

Spec == Init /\ [][Next]_vars

-----------------------------------------------------------------------------
(* Properties *)

\* The type invariant of the client object.
TypeOK ==
    /\ coll # None => coll.made \in BOOLEAN
    /\ binary \in BOOLEAN /\ proven \in BOOLEAN
    /\ binaryQuery \in BOOLEAN /\ queryProven \in BOOLEAN
    /\ {filter, blob} \subseteq {FilterTree(f) : f \in Filters \cup {NoFilter}}
    /\ case \in Filters \cup {NoFilter, Other}
    /\ pc \in {"drop", "create", "ready", "chunk", "json", "query", "jsonQuery", "raised"}
    /\ start \in 0..N + INSERT_BATCH - 1 /\ count \in 0..N /\ err \in BOOLEAN
    /\ calls \in 0..MaxCalls

\* What insert_embeddings reports is true of the server: the rows before the
\* count were applied, all of them if there is no error, and none of the call's
\* rows twice, those that were resent as JSON included.
ReportIsTrue ==
    /\ \A i \in Row : applied[i] <= 1
    /\ pc = "ready" => \A i \in Row : i <= count => applied[i] = 1
    /\ pc = "ready" /\ start >= N => count = N /\ ~err

\* "so re-sending the same chunk as JSON is safe" (rostam.py:153): whichever wire
\* a row went over, and if the wire was left in the middle of a load, the server
\* read its own id with its own vector as float32, a payload if and only if the
\* load path has payloads, and an upsert if and only if it is the inline path.
WiresAgree ==
    \A i \in Row : applied[i] > 0 =>
        stored[i] = <<F32(embeddings[i]),
                      IF loadPath = "bulk" THEN <<>> ELSE Payload(metadata[i]),
                      loadPath = "batch">>

\* "so the two wires would measure different work and return different rows"
\* (rostam.py:206): an answered search was, on either wire, the query, the k and
\* the filter of the case it was made for, and has a filter only where payloads
\* were loaded.  A case whose filter the client does not know has no search at all.
SearchIsTheCase ==
    sent # None =>
        /\ sent = [query |-> F32(query), k |-> K, filter |-> FilterTree(case)]
        /\ case # NoFilter => loadPath # "bulk"
        /\ case # Other

\* "To sweep ef you re-run the case with drop_old=True (rebuild)" (config.py:55):
\* drop_old means a collection of this client's own with the options of the case,
\* or no client at all, although the status of the DELETE is ignored and an
\* existing collection keeps the options it was made with.
DropMeansNew ==
    dropOld /\ pc \notin {"drop", "create", "raised"} => coll = [config |-> asked, made |-> TRUE]

\* "must surface instead of silently degrading the rest of the load to JSON"
\* (rostam.py:166): once a binary insert has succeeded the wire is not left.
ProvenWireIsKept == proven => binary

\* "StrEqual / label-filter cases and tenant are accepted-and-ignored" (README.md:420
\* of vectordbbench): with payloads loaded, such a case does not end the client.
LabelFilterAccepted == case = Other /\ loadPath # "bulk" => pc # "raised"
=============================================================================
