---------------------------- MODULE NetVecProofs ----------------------------
(***************************************************************************)
(* The safety of netvec's bulk mode, for any number of workers, nodes,     *)
(* attempts and points, and any chunk size: the chunks partition the       *)
(* points, and a row without FAILED means that all are searchable.         *)
(***************************************************************************)
EXTENDS NetVec, FiniteSetTheorems, TLAPS

\* What the steps need of the history variable and of the flags.
MoreTypes == applied \in [Ids -> Nat] /\ mode \in {"bulk", "upsert"}

\* A job is a non-empty chunk below the next one, and jobs are out only while
\* runBulk hands them out or waits for them.
JobInv ==
    \A w \in Worker : job[w] # NoJob =>
        /\ pc = "stage"
        /\ 0 <= job[w].lo /\ job[w].lo < job[w].hi /\ job[w].hi <= Total /\ job[w].hi <= lo

\* A pending point was not staged; any other at most once, and surely if no
\* request has failed.
AppliedInv ==
    \A i \in Ids : IF i \in Pending THEN applied[i] = 0
                   ELSE applied[i] <= 1 /\ (failed = 0 => applied[i] = 1)

\* The build comes after the last chunk, and its row is the last thing.
RowInv ==
    /\ pc = "build" => lo >= Total
    /\ pc = "run" => mode = "upsert"
    /\ row # "none" => pc = "exit"
    /\ row = "ok" /\ mode = "bulk" => lo >= Total /\ failed = 0 /\ built = Ids

IInv == TypeOK /\ MoreTypes /\ JobInv /\ PointsConserved /\ AppliedInv /\ RowInv

-----------------------------------------------------------------------------
(* The points of a job, and the pending points. *)

Points(w) == job[w].lo..job[w].hi - 1

\* The points are finitely many, pending or not.
LEMMA PendingFinite ==
    IsFiniteSet(Ids) /\ IsFiniteSet(Pending) /\ Cardinality(Pending) \in Nat /\ Cardinality(Ids) = Total
<1>1. IsFiniteSet(Ids) /\ Cardinality(Ids) = Total
  <2>1. 0 \in Int /\ Total - 1 \in Int /\ Total \in Nat
    BY BulkAssumption
  <2>2. IsFiniteSet(0..Total - 1) /\ Cardinality(0..Total - 1) = IF 0 > Total - 1 THEN 0 ELSE (Total - 1) - 0 + 1
    BY <2>1, FS_Interval
  <2> QED BY <2>1, <2>2 DEF Ids
<1>2. Pending \in SUBSET Ids
  BY DEF Pending
<1> QED BY <1>1, <1>2, FS_Subset, FS_CardinalityType

\* The job of a worker, with its types.
LEMMA JobFacts ==
    ASSUME IInv, NEW w \in Worker, job[w] # NoJob
    PROVE  /\ pc = "stage" /\ job[w].lo \in Nat /\ job[w].hi \in Nat /\ lo \in Nat
           /\ job[w].lo < job[w].hi /\ job[w].hi <= Total /\ job[w].hi <= lo
           /\ Size(job[w]) \in Nat \ {0}
           /\ Points(w) \subseteq Pending
           /\ Cardinality(Points(w)) = Size(job[w])
<1>1. job[w] \in Job
  BY DEF IInv, TypeOK
<1>2. /\ pc = "stage" /\ job[w].lo \in Nat /\ job[w].hi \in Nat /\ lo \in Nat
      /\ job[w].lo < job[w].hi /\ job[w].hi <= Total /\ job[w].hi <= lo
  BY <1>1, BulkAssumption DEF IInv, JobInv, TypeOK, Job
<1>3. Size(job[w]) \in Nat \ {0}
  BY <1>2 DEF Size
<1>4. Points(w) \subseteq Pending
  <2> SUFFICES ASSUME NEW i \in Points(w) PROVE i \in Pending
    OBVIOUS
  <2>1. i \in Ids /\ job[w].lo <= i /\ i < job[w].hi
    BY <1>2, BulkAssumption DEF Points, Ids
  <2> QED BY <2>1 DEF Pending
<1>5. Cardinality(Points(w)) = Size(job[w])
  <2>1. job[w].hi - 1 \in Int /\ job[w].lo \in Int
    BY <1>2
  <2>2. Cardinality(Points(w)) = IF job[w].lo > job[w].hi - 1 THEN 0 ELSE (job[w].hi - 1) - job[w].lo + 1
    BY <2>1, FS_Interval DEF Points
  <2> QED BY <1>2, <2>2 DEF Size
<1> QED BY <1>2, <1>3, <1>4, <1>5

\* When a worker is done with its job, exactly the points of the job leave.
LEMMA JobDone ==
    ASSUME IInv, NEW w \in Worker, job[w] # NoJob,
           job' = [job EXCEPT ![w] = NoJob], lo' = lo
    PROVE  /\ Pending' = Pending \ Points(w)
           /\ Cardinality(Pending') = Cardinality(Pending) - Size(job[w])
<1>1. \A v \in Worker \ {w} : job'[v] = job[v]
  BY DEF IInv, TypeOK
<1>2. job'[w] = NoJob
  BY DEF IInv, TypeOK
<1>3. ASSUME NEW i \in Ids PROVE i \in Pending' <=> i \in Pending /\ i \notin Points(w)
  <2>1. i \in Points(w) <=> job[w].lo <= i /\ i < job[w].hi
    BY JobFacts, BulkAssumption DEF Points, Ids
  <2>2. ASSUME i \in Points(w) PROVE i \notin Pending'
    <3>1. ~(i >= lo)
      BY <2>1, <2>2, JobFacts, BulkAssumption DEF Ids
    <3>2. ASSUME NEW v \in Worker, job'[v] # NoJob PROVE ~(job'[v].lo <= i /\ i < job'[v].hi)
      <4>1. v # w /\ job[v] # NoJob /\ job'[v] = job[v]
        BY <1>1, <1>2, <3>2
      <4>2. job[v].hi <= job[w].lo \/ job[w].hi <= job[v].lo
        BY <4>1 DEF IInv, PointsConserved
      <4>3. /\ job[v].lo \in Nat /\ job[v].hi \in Nat /\ job[w].lo \in Nat /\ job[w].hi \in Nat
            /\ i \in Int
        BY <4>1, JobFacts, BulkAssumption DEF Ids
      <4>4. job[w].lo <= i /\ i < job[w].hi
        BY <2>1, <2>2
      <4> HIDE DEF IInv
      <4> QED BY <4>1, <4>2, <4>3, <4>4
    <3> QED BY <3>1, <3>2 DEF Pending
  <2>3. ASSUME i \in Pending, i \notin Points(w) PROVE i \in Pending'
    BY <1>1, <2>1, <2>3 DEF Pending
  <2>4. ASSUME i \in Pending' PROVE i \in Pending
    BY <1>1, <1>2, <2>4 DEF Pending
  <2> QED BY <2>2, <2>3, <2>4
<1>4. Pending' = Pending \ Points(w)
  <2>1. Pending' \subseteq Ids /\ Pending \subseteq Ids
    BY DEF Pending
  <2> QED BY <1>3, <2>1
<1>5. Pending \cap Points(w) = Points(w)
  BY JobFacts
<1>6. Cardinality(Pending \ Points(w)) = Cardinality(Pending) - Cardinality(Pending \cap Points(w))
  BY PendingFinite, FS_Difference
<1>7. Cardinality(Points(w)) = Size(job[w])
  BY JobFacts
<1> QED BY <1>4, <1>5, <1>6, <1>7

\* What main() starts from.
LEMMA InitIInv == Init => IInv
<1> SUFFICES ASSUME Init PROVE IInv
  OBVIOUS
<1> USE NodeAssumption, BulkAssumption DEF Init
<1>1. TypeOK
  <2>1. /\ node \in 1..NumNodes /\ attempt \in 0..Attempts - 1 /\ lo \in 0..Total + Chunk
        /\ staged \in Nat /\ failed \in Nat
    OBVIOUS
  <2>2. job \in [Worker -> Job \cup {NoJob}] /\ built \subseteq Ids
    OBVIOUS
  <2> QED BY <2>1, <2>2 DEF TypeOK
<1>5. MoreTypes
  BY DEF MoreTypes
<1>6. JobInv /\ RowInv
  BY DEF JobInv, RowInv
<1>2. Pending = Ids
  BY DEF Pending, Ids
<1>3. PointsConserved
  BY <1>2, PendingFinite DEF PointsConserved
<1>4. AppliedInv
  BY <1>2 DEF AppliedInv
<1> QED BY <1>1, <1>3, <1>4, <1>5, <1>6 DEF IInv

-----------------------------------------------------------------------------
(* The steps. *)

\* Setup and probe, and the steps that only end something, leave the points alone.
LEMMA MainStep ==
    ASSUME IInv,
           \/ Try \/ NoNode \/ SetupDrop \/ CreateOk \/ CreateAgain \/ CreateRejected
           \/ ProbeOk \/ ProbeErr \/ StagingDone \/ RunUpsert \/ UNCHANGED vars
    PROVE  IInv'
<1> USE DEF IInv
<1>1. /\ UNCHANGED <<doSetup, drop, mode, lo, job, staged, failed, firstErr, built, applied>>
      /\ row' \in {"none", "ok", "FAILED"} /\ coll' \in {"none", "old", "fresh"}
  BY DEF Try, NoNode, SetupDrop, CreateOk, CreateAgain, CreateRejected, ProbeOk, ProbeErr,
         StagingDone, RunUpsert, vars, flags, bulkVars, TypeOK
<1>2. pc' # pc => \A w \in Worker : job[w] = NoJob
  BY DEF Try, NoNode, SetupDrop, CreateOk, CreateAgain, CreateRejected, ProbeOk, ProbeErr,
         StagingDone, RunUpsert, vars, JobInv
<1>3. pc' \in {"try", "none", "drop", "create", "probe", "stage", "build", "run", "exit"}
  BY DEF Try, NoNode, SetupDrop, CreateOk, CreateAgain, CreateRejected, ProbeOk, ProbeErr,
         StagingDone, RunUpsert, vars, Serve, Refuse, TypeOK
<1>4. node' \in 1..NumNodes
  BY NodeAssumption DEF Try, NoNode, SetupDrop, CreateOk, CreateAgain, CreateRejected, ProbeOk, ProbeErr,
         StagingDone, RunUpsert, vars, Refuse, TypeOK
<1>5. attempt' \in 0..Attempts - 1
  BY NodeAssumption DEF Try, NoNode, SetupDrop, CreateOk, CreateAgain, CreateRejected, ProbeOk, ProbeErr,
         StagingDone, RunUpsert, vars, TypeOK
<1>6. TypeOK' /\ MoreTypes'
  BY <1>1, <1>3, <1>4, <1>5 DEF TypeOK, MoreTypes
<1>7. JobInv'
  BY <1>1, <1>2 DEF JobInv
<1>8. PointsConserved' /\ AppliedInv'
  <2>1. Pending' = Pending
    BY <1>1 DEF Pending
  <2> QED BY <1>1, <2>1 DEF PointsConserved, AppliedInv
<1>9. RowInv'
  BY <1>1 DEF Try, NoNode, SetupDrop, CreateOk, CreateAgain, CreateRejected, ProbeOk, ProbeErr,
         StagingDone, RunUpsert, vars, Serve, Refuse, RowInv, TypeOK, MoreTypes
<1> QED BY <1>6, <1>7, <1>8, <1>9

\* A chunk goes to an idle worker: pending it was, and pending it is.
LEMMA HandOffStep ==
    ASSUME IInv, NEW w \in Worker, HandOff(w)
    PROVE  IInv'
<1> USE DEF IInv
<1>1. /\ pc = "stage" /\ lo < Total /\ job[w] = NoJob
      /\ job' = [job EXCEPT ![w] = nextJob] /\ lo' = lo + Chunk
      /\ UNCHANGED <<mode, pc, node, attempt, coll, row, staged, failed, firstErr, built, applied>>
  BY DEF HandOff, flags
<1>2. lo \in Nat /\ Total \in Nat /\ Chunk \in Nat \ {0}
  BY BulkAssumption DEF TypeOK
<1>3. /\ nextJob.lo = lo /\ nextJob.hi \in Nat /\ lo < nextJob.hi
      /\ nextJob.hi <= Total /\ nextJob.hi <= lo + Chunk
      /\ nextJob.hi = Total \/ nextJob.hi = lo + Chunk
  BY <1>1, <1>2 DEF nextJob
<1>4. nextJob \in Job
  BY <1>1, <1>2, <1>3 DEF nextJob, Job
<1>5. nextJob # NoJob
  BY <1>4, JobAssumption
<1> HIDE DEF IInv
<1>6. job'[w] = nextJob /\ \A v \in Worker \ {w} : job'[v] = job[v]
  BY <1>1 DEF TypeOK, IInv
<1>7. TypeOK' /\ MoreTypes'
  <2>1. job' \in [Worker -> Job \cup {NoJob}]
    BY <1>1, <1>4 DEF TypeOK, IInv
  <2>2. lo' \in 0..Total + Chunk
    BY <1>1, <1>2
  <2> QED BY <1>1, <2>1, <2>2 DEF TypeOK, MoreTypes, IInv
<1>8. JobInv'
  <2> SUFFICES ASSUME NEW v \in Worker, job'[v] # NoJob
               PROVE  /\ pc' = "stage" /\ 0 <= job'[v].lo /\ job'[v].lo < job'[v].hi
                      /\ job'[v].hi <= Total /\ job'[v].hi <= lo'
    BY DEF JobInv
  <2>1. CASE v = w
    BY <1>1, <1>2, <1>3, <1>6, <2>1
  <2>2. CASE v # w
    BY <1>1, <1>2, <1>6, <2>2, JobFacts
  <2> QED BY <2>1, <2>2
<1>9. Pending' = Pending
  <2> SUFFICES ASSUME NEW i \in Ids PROVE i \in Pending' <=> i \in Pending
    BY DEF Pending
  <2>1. i \in Nat /\ i < Total
    BY <1>2 DEF Ids
  <2>2. i >= lo <=> i >= lo' \/ (nextJob.lo <= i /\ i < nextJob.hi)
    BY <1>1, <1>2, <1>3, <2>1
  <2> HIDE DEF nextJob
  <2> QED BY <1>1, <1>5, <1>6, <2>2 DEF Pending
<1>10. PointsConserved'
  <2>1. ASSUME NEW u \in Worker, NEW v \in Worker, u # v, job'[u] # NoJob, job'[v] # NoJob
        PROVE  job'[u].hi <= job'[v].lo \/ job'[v].hi <= job'[u].lo
    <3>1. CASE u = w
      BY <1>3, <1>6, <2>1, <3>1, JobFacts
    <3>2. CASE v = w
      BY <1>3, <1>6, <2>1, <3>2, JobFacts
    <3>3. CASE u # w /\ v # w
      BY <1>6, <2>1, <3>3 DEF PointsConserved, IInv
    <3> QED BY <3>1, <3>2, <3>3
  <2> QED BY <1>1, <1>9, <2>1 DEF PointsConserved, IInv
<1>11. AppliedInv' /\ RowInv'
  BY <1>1, <1>2, <1>9 DEF AppliedInv, RowInv, IInv
<1> QED BY <1>7, <1>8, <1>10, <1>11 DEF IInv

\* A staging request ends, with or without an error.
LEMMA StageStep ==
    ASSUME IInv, NEW w \in Worker, Stage(w)
    PROVE  IInv'
<1> DEFINE size == Size(job[w])
<1>1. /\ job[w] # NoJob /\ job' = [job EXCEPT ![w] = NoJob]
      /\ UNCHANGED <<mode, pc, node, attempt, coll, row, lo, built>>
      /\ \/ Apply(w) /\ staged' = staged + size /\ UNCHANGED <<failed, firstErr>>
         \/ /\ Apply(w) \/ applied' = applied
            /\ failed' = failed + size /\ firstErr' = TRUE /\ UNCHANGED staged
  BY DEF Stage, StageOk, StageErr, flags
<1>2. /\ pc = "stage" /\ size \in Nat \ {0} /\ Points(w) \subseteq Pending
      /\ job[w].lo \in Nat /\ job[w].hi \in Nat
  BY <1>1, JobFacts
<1>3. /\ Pending' = Pending \ Points(w)
      /\ Cardinality(Pending') = Cardinality(Pending) - size
  BY <1>1, JobDone
<1>4. staged \in Nat /\ failed \in Nat /\ Cardinality(Pending) \in Nat
      /\ staged + failed + Cardinality(Pending) = Total
  BY PendingFinite DEF IInv, TypeOK, PointsConserved
<1> HIDE DEF size
<1>5. job'[w] = NoJob /\ \A v \in Worker \ {w} : job'[v] = job[v]
  BY <1>1 DEF IInv, TypeOK
<1>6. staged' \in Nat /\ failed' \in Nat /\ (failed' = 0 => failed = 0 /\ Apply(w))
      /\ staged' + failed' = staged + failed + size
  BY <1>1, <1>2, <1>4
<1>7. applied' \in [Ids -> Nat]
  BY <1>1 DEF Apply, IInv, MoreTypes
<1>8. TypeOK' /\ MoreTypes'
  <2>1. job' \in [Worker -> Job \cup {NoJob}]
    BY <1>1 DEF TypeOK, IInv
  <2>2. firstErr' \in BOOLEAN
    BY <1>1 DEF TypeOK, IInv
  <2> QED BY <1>1, <1>6, <1>7, <2>1, <2>2 DEF TypeOK, MoreTypes, IInv
<1>9. JobInv'
  BY <1>1, <1>5 DEF JobInv, IInv
<1>10. PointsConserved'
  <2>1. staged' + failed' + Cardinality(Pending') = Total
    <3>1. staged' + failed' = staged + failed + size
      BY <1>6
    <3>2. size \in Nat
      BY <1>2
    <3>3. (staged + failed + size) + (Cardinality(Pending) - size) = Total
      BY <1>4, <3>2
    <3> QED BY <1>3, <3>1, <3>3
  <2> QED BY <1>5, <2>1 DEF PointsConserved, IInv
<1>11. AppliedInv'
  <2> SUFFICES ASSUME NEW i \in Ids
               PROVE  IF i \in Pending' THEN applied'[i] = 0
                      ELSE applied'[i] <= 1 /\ (failed' = 0 => applied'[i] = 1)
    BY DEF AppliedInv
  <2>1. i \in Points(w) <=> job[w].lo <= i /\ i < job[w].hi
    BY <1>2, BulkAssumption DEF Points, Ids
  <2>2. CASE i \in Points(w)
    <3>1. applied[i] = 0 /\ i \notin Pending'
      BY <1>2, <1>3, <2>2 DEF IInv, AppliedInv
    <3>2. Apply(w) => applied'[i] = 1
      BY <2>1, <2>2, <3>1 DEF Apply
    <3>3. applied'[i] \in {0, 1}
      BY <1>1, <3>1, <3>2
    <3> QED BY <1>6, <3>1, <3>2, <3>3
  <2>3. CASE i \notin Points(w)
    <3>1. applied'[i] = applied[i] /\ (i \in Pending' <=> i \in Pending)
      BY <1>1, <1>3, <2>1, <2>3 DEF Apply
    <3> QED BY <1>6, <3>1 DEF IInv, AppliedInv
  <2> QED BY <2>2, <2>3
<1>12. RowInv'
  BY <1>1, <1>2 DEF IInv, RowInv
<1> QED BY <1>8, <1>9, <1>10, <1>11, <1>12 DEF IInv

\* The build, when nothing is pending any more.
LEMMA BuildStep ==
    ASSUME IInv, Build
    PROVE  IInv'
<1>1. /\ pc = "build" /\ pc' = "exit"
      /\ UNCHANGED <<mode, node, attempt, coll, lo, job, staged, failed, firstErr, applied>>
      /\ row' \in {"ok", "FAILED"}
      /\ built' \in {{}, {i \in Ids : applied[i] > 0}}
      /\ row' = "ok" => failed = 0 /\ built' = {i \in Ids : applied[i] > 0}
  BY DEF Build, flags
<1>2. lo >= Total /\ \A w \in Worker : job[w] = NoJob
  BY <1>1 DEF IInv, RowInv, JobInv
<1>3. Pending = {} /\ Pending' = Pending
  <2>1. \A i \in Ids : ~(i >= lo)
    BY <1>2, BulkAssumption DEF Ids, IInv, TypeOK
  <2> QED BY <1>1, <1>2, <2>1 DEF Pending
<1>4. failed = 0 => {i \in Ids : applied[i] > 0} = Ids
  BY <1>3 DEF IInv, AppliedInv
<1>5. TypeOK' /\ MoreTypes'
  BY <1>1 DEF IInv, TypeOK, MoreTypes
<1>6. JobInv' /\ RowInv'
  BY <1>1, <1>2, <1>4 DEF IInv, JobInv, RowInv
<1>7. PointsConserved' /\ AppliedInv'
  BY <1>1, <1>3 DEF IInv, PointsConserved, AppliedInv
<1> QED BY <1>5, <1>6, <1>7 DEF IInv

-----------------------------------------------------------------------------
(* The theorems. *)

\* IInv is an invariant of main() and its staging workers.
THEOREM InvariantHolds == Spec => []IInv
<1>1. IInv /\ [Next]_vars => IInv'
  BY MainStep, HandOffStep, StageStep, BuildStep DEF Next, Main, Finished
<1> QED BY <1>1, InitIInv, PTL DEF Spec

\* Type correctness: attempts, candidates and chunks stay in their ranges.
THEOREM TypeCorrect == Spec => []TypeOK
<1>1. IInv => TypeOK
  BY DEF IInv
<1> QED BY <1>1, InvariantHolds, PTL

\* Whatever fails, every point is counted once or pending (netvec/main.go:252-300).
THEOREM PointsAreConserved == Spec => []PointsConserved
<1>1. IInv => PointsConserved
  BY DEF IInv
<1> QED BY <1>1, InvariantHolds, PTL

\* A bulk row without FAILED is over all points, each staged once and searchable
\* (netvec/main.go:300-330).
THEOREM RowIsSearchable == Spec => []RowMeansSearchable
<1>1. IInv => RowMeansSearchable
  <2> SUFFICES ASSUME IInv, row = "ok", mode = "bulk"
               PROVE  staged = Total /\ built = Ids /\ \A i \in Ids : applied[i] = 1
    BY DEF RowMeansSearchable
  <2>1. lo >= Total /\ failed = 0 /\ built = Ids /\ pc = "exit"
    BY DEF IInv, RowInv
  <2>2. \A w \in Worker : job[w] = NoJob
    BY <2>1 DEF IInv, JobInv
  <2>3. Pending = {}
    <3>1. \A i \in Ids : ~(i >= lo)
      BY <2>1, BulkAssumption DEF Ids, IInv, TypeOK
    <3> QED BY <2>2, <3>1 DEF Pending
  <2>4. Cardinality(Pending) = 0
    BY <2>3, FS_EmptySet
  <2>5. staged = Total
    BY <2>1, <2>4, BulkAssumption DEF IInv, PointsConserved, TypeOK
  <2> QED BY <2>1, <2>3, <2>5 DEF IInv, AppliedInv
<1> QED BY <1>1, InvariantHolds, PTL
=============================================================================
