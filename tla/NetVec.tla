------------------------------- MODULE NetVec -------------------------------
(***************************************************************************)
(* One invocation of the vector load generator netvec (netvec/main.go): it *)
(* tries its candidate nodes one after the other, with setup() or probe(), *)
(* and drives the first that serves the collection: in bulk mode it stages *)
(* [0, total) in chunks over concurrent workers, waits for them and runs   *)
(* one build; in upsert mode it runs the measuring loop of LoadGen.        *)
(*                                                                         *)
(* External: the cluster.  Any request may fail before or after it was     *)
(* applied, a node may answer "not leader", and a create of an existing    *)
(* collection is answered "already exists" or with an opaque 500 (the      *)
(* comment at main.go:80 and the branch at main.go:183 name one each).     *)
(***************************************************************************)
EXTENDS Integers, FiniteSets

CONSTANTS Worker,     \* -conns staging goroutines
          NumNodes,   \* candidates in -addr
          Attempts,   \* setup's 10 create attempts
          Total,      \* -total
          Chunk,      \* -chunk
          NoJob

ASSUME NodeAssumption == NumNodes \in Nat \ {0} /\ Attempts \in Nat \ {0}
ASSUME BulkAssumption == Total \in Nat /\ Chunk \in Nat \ {0} /\ Worker # {}

Ids == 0..Total - 1
Job == [lo : 0..Total, hi : 0..Total]
ASSUME JobAssumption == NoJob \notin Job

VARIABLES
    doSetup, drop, mode,  \* -setup, -drop, -mode
    pc,          \* where main() is
    node,        \* the candidate tried or used
    attempt,     \* setup's loop counter
    coll,        \* the collection: "none", "old" (left over) or "fresh"
    lo,          \* the next point of the chunk loop
    job,         \* what each staging worker took from the channel
    staged, failed,
    firstErr,    \* firstErr holds an error
    built,       \* the points the build made searchable
    row,         \* the row printed: "none", "ok" or "FAILED"
    applied      \* history: how often each point was staged

flags    == <<doSetup, drop, mode>>
bulkVars == <<lo, job, staged, failed, firstErr, built, applied>>
vars     == <<doSetup, drop, mode, pc, node, attempt, coll, lo, job, staged, failed,
              firstErr, built, row, applied>>

Init ==
    /\ doSetup \in BOOLEAN /\ drop \in BOOLEAN /\ mode \in {"bulk", "upsert"}
    /\ pc = "try"
    /\ node = 1
    /\ attempt = 0
    /\ coll \in {"none", "old"}
    /\ lo = 0
    /\ job = [w \in Worker |-> NoJob]
    /\ staged = 0 /\ failed = 0 /\ firstErr = FALSE
    /\ built = {}
    /\ row = "none"
    /\ applied = [i \in Ids |-> 0]

-----------------------------------------------------------------------------
(* main: the candidates *)

\* setup or probe of the candidate begins; setup first drops, if asked to.
Try ==
    /\ pc = "try"
    /\ attempt' = 0
    /\ pc' = IF ~doSetup THEN "probe" ELSE IF drop THEN "drop" ELSE "create"
    /\ UNCHANGED <<flags, node, coll, row, bulkVars>>

\* err == nil: this candidate is base.
Serve == pc' = IF mode = "bulk" THEN "stage" ELSE "run"

\* The candidate cannot serve: the next one, or none is left.
Refuse == IF node < NumNodes
          THEN pc' = "try" /\ node' = node + 1
          ELSE pc' = "none" /\ node' = node

\* base == "": a row-shaped failure, exit status 1.
NoNode ==
    /\ pc = "none"
    /\ row' = "FAILED"
    /\ pc' = "exit"
    /\ UNCHANGED <<flags, node, attempt, coll, bulkVars>>

-----------------------------------------------------------------------------
(* setup and probe *)

\* The DELETE: neither its error nor its status is looked at.
SetupDrop ==
    /\ pc = "drop"
    /\ coll' \in {coll, "none"}
    /\ pc' = "create"
    /\ UNCHANGED <<flags, node, attempt, row, bulkVars>>

\* The create is answered 2xx, or says that the collection is there already.
CreateOk ==
    /\ pc = "create"
    /\ coll' = IF coll = "none" THEN "fresh" ELSE coll
    /\ Serve
    /\ UNCHANGED <<flags, node, attempt, row, bulkVars>>

\* Mutant: one attempt more than the loop has.
CreateAgainOnceMore ==
    /\ pc = "create"
    /\ coll' \in {coll, IF coll = "none" THEN "fresh" ELSE coll}
    /\ \/ attempt < Attempts /\ attempt' = attempt + 1 /\ UNCHANGED <<pc, node>>
       \/ attempt = Attempts /\ attempt' = attempt /\ Refuse
    /\ UNCHANGED <<flags, row, bulkVars>>

\* A transport error, after which the collection may exist, or "not leader":
\* another attempt, until the loop ends with lastErr.
CreateAgain ==
    /\ pc = "create"
    /\ coll' \in {coll, IF coll = "none" THEN "fresh" ELSE coll}
    /\ \/ attempt + 1 < Attempts /\ attempt' = attempt + 1 /\ UNCHANGED <<pc, node>>
       \/ attempt + 1 = Attempts /\ attempt' = attempt /\ Refuse
    /\ UNCHANGED <<flags, row, bulkVars>>

\* Any other status is final: the opaque 500 of an existing collection, and that of a
\* create which was applied all the same, in part of its partitions or in all.
CreateRejected ==
    /\ pc = "create"
    /\ coll' \in {coll, IF coll = "none" THEN "fresh" ELSE coll}
    /\ Refuse
    /\ UNCHANGED <<flags, attempt, row, bulkVars>>

\* probe: one real write to an existing collection.
ProbeOk ==
    /\ pc = "probe" /\ coll # "none"
    /\ Serve
    /\ UNCHANGED <<flags, node, attempt, coll, row, bulkVars>>

ProbeErr ==
    /\ pc = "probe"
    /\ Refuse
    /\ UNCHANGED <<flags, attempt, coll, row, bulkVars>>

-----------------------------------------------------------------------------
(* runBulk *)

Size(j) == j.hi - j.lo

\* Mutant: the last chunk is not cut at total.
nextJobUncut == [lo |-> lo, hi |-> lo + Chunk]

nextJob == [lo |-> lo, hi |-> IF lo + Chunk > Total THEN Total ELSE lo + Chunk]

\* jobs <- job{lo, hi}: the channel is unbuffered, an idle worker takes it.
HandOff(w) ==
    /\ pc = "stage" /\ lo < Total /\ job[w] = NoJob
    /\ job' = [job EXCEPT ![w] = nextJob]
    /\ lo' = lo + Chunk
    /\ UNCHANGED <<flags, pc, node, attempt, coll, row, staged, failed, firstErr, built, applied>>

\* The points of w's job are staged on the server.
Apply(w) == applied' = [i \in Ids |->
    IF job[w].lo <= i /\ i < job[w].hi THEN applied[i] + 1 ELSE applied[i]]

\* The staging request is answered 2xx.
StageOk(w) ==
    /\ job[w] # NoJob
    /\ Apply(w)
    /\ staged' = staged + Size(job[w])
    /\ job' = [job EXCEPT ![w] = NoJob]
    /\ UNCHANGED <<flags, pc, node, attempt, coll, row, lo, failed, firstErr, built>>

\* It fails, applied or not: counted as failed, and on to the next job.
StageErr(w) ==
    /\ job[w] # NoJob
    /\ Apply(w) \/ applied' = applied
    /\ failed' = failed + Size(job[w])
    /\ firstErr' = TRUE
    /\ job' = [job EXCEPT ![w] = NoJob]
    /\ UNCHANGED <<flags, pc, node, attempt, coll, row, lo, staged, built>>

\* Mutant: the build does not wait for the workers.
StagingDoneEarly ==
    /\ pc = "stage" /\ lo >= Total
    /\ pc' = "build"
    /\ UNCHANGED <<flags, node, attempt, coll, row, bulkVars>>

\* Mutant: the chunk loop ends on lo = total only.
StagingDoneExact ==
    /\ pc = "stage" /\ lo = Total /\ \A w \in Worker : job[w] = NoJob
    /\ pc' = "build"
    /\ UNCHANGED <<flags, node, attempt, coll, row, bulkVars>>

\* close(jobs); wg.Wait()
StagingDone ==
    /\ pc = "stage" /\ lo >= Total /\ \A w \in Worker : job[w] = NoJob
    /\ pc' = "build"
    /\ UNCHANGED <<flags, node, attempt, coll, row, bulkVars>>

\* The build and the row: FAILED if it failed or if any staging request did.
Build ==
    /\ pc = "build"
    /\ \E ok \in BOOLEAN :
        /\ built' \in IF ok THEN {{i \in Ids : applied[i] > 0}}
                      ELSE {{}, {i \in Ids : applied[i] > 0}}
        /\ row' = IF ok /\ failed = 0 THEN "ok" ELSE "FAILED"
    /\ pc' = "exit"
    /\ UNCHANGED <<flags, node, attempt, coll, lo, job, staged, failed, firstErr, applied>>

\* Upsert mode: run() and print().
RunUpsert ==
    /\ pc = "run"
    /\ row' = "ok"
    /\ pc' = "exit"
    /\ UNCHANGED <<flags, node, attempt, coll, bulkVars>>

-----------------------------------------------------------------------------
Main == \/ Try \/ NoNode \/ SetupDrop \/ CreateOk \/ CreateAgain \/ CreateRejected
        \/ ProbeOk \/ ProbeErr \/ StagingDone \/ Build \/ RunUpsert
        \/ \E w \in Worker : HandOff(w)

Stage(w) == StageOk(w) \/ StageErr(w)

Finished == pc = "exit" /\ UNCHANGED vars

Next == Main \/ (\E w \in Worker : Stage(w)) \/ Finished

Spec == Init /\ [][Next]_vars

\* main and its workers run; every request ends, its client has a timeout.
FairSpec == Spec /\ WF_vars(Main) /\ \A w \in Worker : WF_vars(Stage(w))

-----------------------------------------------------------------------------
(* Properties *)

\* The type invariant of main's and runBulk's state.
TypeOK ==
    /\ pc \in {"try", "none", "drop", "create", "probe", "stage", "build", "run", "exit"}
    /\ node \in 1..NumNodes
    /\ attempt \in 0..Attempts - 1
    /\ coll \in {"none", "old", "fresh"}
    /\ lo \in 0..Total + Chunk
    /\ job \in [Worker -> Job \cup {NoJob}]
    /\ staged \in Nat /\ failed \in Nat /\ firstErr \in BOOLEAN
    /\ built \subseteq Ids
    /\ row \in {"none", "ok", "FAILED"}

\* The points that are with a worker or were not handed out yet.
Pending == {i \in Ids : i >= lo \/ \E w \in Worker : job[w] # NoJob /\ job[w].lo <= i /\ i < job[w].hi}

\* The chunks partition [0, total): no point is with two workers, and every point
\* is counted once as staged or as failed, or is pending.
PointsConserved ==
    /\ \A v, w \in Worker : v # w /\ job[v] # NoJob /\ job[w] # NoJob
                            => job[v].hi <= job[w].lo \/ job[w].hi <= job[v].lo
    /\ staged + failed + Cardinality(Pending) = Total

\* A row with a bulk number means what it says, "pts/s to-searchable": all
\* points were staged exactly once and the build made every one searchable.
RowMeansSearchable ==
    row = "ok" /\ mode = "bulk" =>
        /\ staged = Total /\ built = Ids
        /\ \A i \in Ids : applied[i] = 1

\* Every invocation prints a row, "failed" instead of a gap (main.go:103).
EveryRunPrints == <>(row # "none")

\* "A benchmark that silently measured writes into a collection left over from
\* a previous run ... would not be comparable across postures, so -drop is the
\* default" (main.go:139): after a setup with -drop nothing old is measured.
DroppedIsFresh ==
    doSetup /\ drop /\ pc \in {"stage", "build", "run"} => coll = "fresh"
=============================================================================
