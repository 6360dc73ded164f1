--------------------------- MODULE SiftBenchProofs --------------------------
(***************************************************************************)
(* The safety of the SIFT-1M programs, for any base, any ground truth, any *)
(* number of workers and any interleaving with the engine: what is         *)
(* measured, the recall and the percentiles of a row, and the throughput.  *)
(***************************************************************************)
EXTENDS SiftBench, FiniteSetTheorems, SequenceTheorems, FunctionTheorems,
        WellFoundedInduction, TLAPS

-----------------------------------------------------------------------------
(* Sums, by induction on the sets summed over: the library's principles    *)
(* take the formula as a parameter, so the induction is that a set of      *)
(* counterexamples would have a smallest one.                              *)

\* A set of natural numbers has a least one.
LEMMA Least ==
    ASSUME NEW T \in SUBSET Nat, T # {}
    PROVE  \E x \in T : \A y \in T : x <= y
<1>1. \A x \in Nat, y \in Nat : <<y, x>> \in OpToRel(<, Nat) <=> y < x
  BY DEF OpToRel
<1>2. PICK R : IsWellFoundedOn(R, Nat) /\ \A x \in Nat, y \in Nat : <<y, x>> \in R <=> y < x
  BY <1>1, NatLessThanWellFounded, Zenon
<1>3. PICK x \in T : \A y \in T : ~(<<y, x>> \in R)
  BY <1>2, WFMin
<1>4. x \in Nat /\ \A y \in T : y \in Nat /\ ~(y < x)
  BY <1>2, <1>3
<1>5. \A y \in T : x <= y
  BY <1>4
<1> QED BY <1>5

Pick(s) == CHOOSE x \in s : TRUE
Rest(s) == s \ {Pick(s)}

LEMMA PickRest ==
    ASSUME NEW s, s # {}, IsFiniteSet(s)
    PROVE  Pick(s) \in s /\ IsFiniteSet(Rest(s)) /\ Cardinality(Rest(s)) = Cardinality(s) - 1 /\ Cardinality(s) \in Nat \ {0}
<1>1. Pick(s) \in s
  BY DEF Pick
<1>2. IsFiniteSet(Rest(s)) /\ Cardinality(Rest(s)) = Cardinality(s) - 1
  BY <1>1, FS_RemoveElement DEF Rest
<1>3. Cardinality(s) \in Nat /\ Cardinality(s) # 0
  BY FS_CardinalityType, FS_EmptySet
<1> QED BY <1>1, <1>2, <1>3

LEMMA SubsetInduction ==
    ASSUME NEW S, IsFiniteSet(S), NEW Good,
           {} \in Good, \A s \in SUBSET S : s # {} /\ Rest(s) \in Good => s \in Good
    PROVE  SUBSET S \subseteq Good
<1> SUFFICES ASSUME ~(SUBSET S \subseteq Good) PROVE FALSE
  OBVIOUS
<1> DEFINE Bad == {Cardinality(s) : s \in (SUBSET S) \ Good}
<1>1. \A s \in SUBSET S : IsFiniteSet(s) /\ Cardinality(s) \in Nat
  BY FS_Subset, FS_CardinalityType
<1>2. Bad \in SUBSET Nat /\ Bad # {}
  BY <1>1
<1>3. PICK k \in Bad : \A y \in Bad : k <= y
  BY <1>2, Least
<1>4. PICK s \in (SUBSET S) \ Good : k = Cardinality(s)
  BY <1>3
<1>5. s # {} /\ IsFiniteSet(s)
  BY <1>1, <1>4
<1>6. Rest(s) \in SUBSET S /\ Rest(s) \notin Good
  BY <1>4, <1>5 DEF Rest
<1>7. Cardinality(Rest(s)) \in Bad
  BY <1>6
<1>8. k <= Cardinality(s) - 1 /\ Cardinality(s) \in Nat
  BY <1>3, <1>5, <1>7, PickRest
<1> QED BY <1>4, <1>8

SumOver(f, S) == MapThenSumSet(LAMBDA w : f[w], S)
Sums(f, D, g) == g = [s \in D |-> IF s = {} THEN 0 ELSE f[Pick(s)] + g[Rest(s)]]
SumsOf(f, S) == CHOOSE g : Sums(f, SUBSET S, g)

LEMMA SumIsOf ==
    ASSUME NEW f, NEW S
    PROVE  SumOver(f, S) = SumsOf(f, S)[S]
BY DEF SumOver, MapThenSumSet, MapThenFoldSet, Pick, Rest, SumsOf, Sums

\* The sets with at most k elements.
Upto(S, k) == {s \in SUBSET S : Cardinality(s) <= k}

LEMMA SumsStart ==
    ASSUME NEW f, NEW S, IsFiniteSet(S)
    PROVE  \E g : Sums(f, Upto(S, 0), g)
<1>1. \A s \in SUBSET S : IsFiniteSet(s) /\ Cardinality(s) \in Nat /\ (Cardinality(s) = 0 <=> s = {})
  BY FS_Subset, FS_CardinalityType, FS_EmptySet
<1>2. \A s \in Upto(S, 0) : s = {}
  BY <1>1 DEF Upto
<1> WITNESS [s \in Upto(S, 0) |-> 0]
<1> QED BY <1>2 DEF Sums

LEMMA SumsStep ==
    ASSUME NEW f, NEW S, IsFiniteSet(S), NEW k \in Nat \ {0}, NEW h, Sums(f, Upto(S, k - 1), h)
    PROVE  \E g : Sums(f, Upto(S, k), g)
<1> DEFINE g == [s \in Upto(S, k) |-> IF s = {} THEN 0 ELSE f[Pick(s)] + h[Rest(s)]]
<1>1. \A s \in SUBSET S : IsFiniteSet(s) /\ Cardinality(s) \in Nat
  BY FS_Subset, FS_CardinalityType
<1>2. \A t \in Upto(S, k - 1) : t \in Upto(S, k) /\ h[t] = IF t = {} THEN 0 ELSE f[Pick(t)] + h[Rest(t)]
  <2>1. \A t \in Upto(S, k - 1) : t \in Upto(S, k)
    BY <1>1 DEF Upto
  <2> QED BY <2>1 DEF Sums
<1>3. \A t \in Upto(S, k - 1) : g[t] = h[t]
  BY <1>2
<1>4. \A s \in Upto(S, k) : s # {} => Rest(s) \in Upto(S, k - 1)
  <2> SUFFICES ASSUME NEW s \in Upto(S, k), s # {} PROVE Rest(s) \in Upto(S, k - 1)
    OBVIOUS
  <2>1. s \in SUBSET S /\ Cardinality(s) <= k /\ IsFiniteSet(s)
    BY <1>1 DEF Upto
  <2>2. Cardinality(Rest(s)) = Cardinality(s) - 1 /\ Cardinality(s) \in Nat
    BY <2>1, PickRest
  <2>3. Cardinality(Rest(s)) <= k - 1
    BY <2>1, <2>2
  <2> QED BY <2>1, <2>3 DEF Rest, Upto
<1>5. Sums(f, Upto(S, k), g)
  <2>1. \A s \in Upto(S, k) : s # {} => g[Rest(s)] = h[Rest(s)]
    BY <1>3, <1>4
  <2>2. \A s \in Upto(S, k) : (IF s = {} THEN 0 ELSE f[Pick(s)] + h[Rest(s)])
                              = (IF s = {} THEN 0 ELSE f[Pick(s)] + g[Rest(s)])
    BY <2>1
  <2>3. g = [s \in Upto(S, k) |-> IF s = {} THEN 0 ELSE f[Pick(s)] + g[Rest(s)]]
    BY <2>2
  <2> QED BY <2>3 DEF Sums
<1> QED BY <1>5

LEMMA SumsExist ==
    ASSUME NEW f, NEW S, IsFiniteSet(S)
    PROVE  Sums(f, SUBSET S, SumsOf(f, S))
<1> DEFINE Bad == {k \in Nat : ~\E g : Sums(f, Upto(S, k), g)}
<1>1. Bad = {}
  <2> SUFFICES ASSUME Bad # {} PROVE FALSE
    OBVIOUS
  <2>0. Bad \in SUBSET Nat
    OBVIOUS
  <2>1. PICK k \in Bad : \A y \in Bad : k <= y
    BY <2>0, Least
  <2>2. k \in Nat \ {0}
    BY <2>1, SumsStart
  <2>3. k - 1 \in Nat /\ ~(k <= k - 1)
    BY <2>2
  <2>4. PICK h : Sums(f, Upto(S, k - 1), h)
    BY <2>1, <2>3
  <2> QED BY <2>1, <2>2, <2>4, SumsStep
<1>2. Cardinality(S) \in Nat /\ \A s \in SUBSET S : Cardinality(s) <= Cardinality(S)
  BY FS_CardinalityType, FS_Subset
<1>3. Upto(S, Cardinality(S)) = SUBSET S
  BY <1>2 DEF Upto
<1>4. \E g : Sums(f, SUBSET S, g)
  <2>1. \E g : Sums(f, Upto(S, Cardinality(S)), g)
    BY <1>1, <1>2
  <2> QED BY <1>3, <2>1
<1> QED BY <1>4 DEF SumsOf
\* A sum of a set is an element and the sum of the rest.
LEMMA SumOfRest ==
    ASSUME NEW f, NEW S, IsFiniteSet(S)
    PROVE  /\ SumsOf(f, S)[{}] = 0
           /\ \A s \in SUBSET S : s # {} => /\ Pick(s) \in S /\ Rest(s) \in SUBSET S
                                         /\ SumsOf(f, S)[s] = f[Pick(s)] + SumsOf(f, S)[Rest(s)]
<1>1. \A s \in SUBSET S : SumsOf(f, S)[s] = IF s = {} THEN 0 ELSE f[Pick(s)] + SumsOf(f, S)[Rest(s)]
  <2>1. ASSUME NEW g, Sums(f, SUBSET S, g)
        PROVE  \A s \in SUBSET S : g[s] = IF s = {} THEN 0 ELSE f[Pick(s)] + g[Rest(s)]
    BY <2>1 DEF Sums
  <2> QED BY <2>1, SumsExist
<1>2. \A s \in SUBSET S : s # {} => Pick(s) \in S /\ Rest(s) \in SUBSET S
  BY DEF Pick, Rest
<1> QED BY <1>1, <1>2

LEMMA SumType ==
    ASSUME NEW S, IsFiniteSet(S), NEW f \in [S -> Nat]
    PROVE  \A s \in SUBSET S : SumsOf(f, S)[s] \in Nat
<1> DEFINE Good == {s \in SUBSET S : SumsOf(f, S)[s] \in Nat}
<1>1. {} \in Good
  BY SumOfRest
<1>2. ASSUME NEW s \in SUBSET S, s # {}, Rest(s) \in Good PROVE s \in Good
  <2>1. SumsOf(f, S)[s] = f[Pick(s)] + SumsOf(f, S)[Rest(s)] /\ f[Pick(s)] \in Nat
    BY <1>2, SumOfRest
  <2> QED BY <1>2, <2>1
<1> HIDE DEF Good
<1>3. SUBSET S \subseteq Good
  BY <1>1, <1>2, SubsetInduction
<1> QED BY <1>3 DEF Good

\* The sum of nothing.
LEMMA SumZero ==
    ASSUME NEW S, IsFiniteSet(S), NEW f, \A x \in S : f[x] = 0
    PROVE  SumOver(f, S) = 0
<1> DEFINE Good == {s \in SUBSET S : SumsOf(f, S)[s] = 0}
<1>1. {} \in Good
  BY SumOfRest
<1>2. ASSUME NEW s \in SUBSET S, s # {}, Rest(s) \in Good PROVE s \in Good
  BY <1>2, SumOfRest
<1> HIDE DEF Good
<1>3. S \in Good
  BY <1>1, <1>2, SubsetInduction
<1> QED BY <1>3, SumIsOf DEF Good

\* One more at one place is one more in the sum.
LEMMA SumPlusOne ==
    ASSUME NEW S, IsFiniteSet(S), NEW f \in [S -> Nat], NEW w \in S
    PROVE  SumOver([f EXCEPT ![w] = @ + 1], S) = SumOver(f, S) + 1
<1> DEFINE g == [f EXCEPT ![w] = @ + 1]
           F == SumsOf(f, S)
           G == SumsOf(g, S)
           Good == {s \in SUBSET S : G[s] = F[s] + IF w \in s THEN 1 ELSE 0}
<1>1. g \in [S -> Nat] /\ g[w] = f[w] + 1 /\ \A x \in S : x # w => g[x] = f[x]
  OBVIOUS
<1>2. /\ \A s \in SUBSET S : F[s] \in Nat /\ G[s] \in Nat
      /\ F[{}] = 0 /\ G[{}] = 0
      /\ \A s \in SUBSET S : s # {} => /\ Pick(s) \in S /\ Rest(s) \in SUBSET S
                                    /\ F[s] = f[Pick(s)] + F[Rest(s)] /\ G[s] = g[Pick(s)] + G[Rest(s)]
  <2> HIDE DEF g
  <2>1. \A s \in SUBSET S : F[s] \in Nat /\ G[s] \in Nat
    BY <1>1, SumType
  <2>2. F[{}] = 0 /\ G[{}] = 0
    BY SumOfRest
  <2>3. \A s \in SUBSET S : s # {} => /\ Pick(s) \in S /\ Rest(s) \in SUBSET S
                                    /\ F[s] = f[Pick(s)] + F[Rest(s)] /\ G[s] = g[Pick(s)] + G[Rest(s)]
    BY SumOfRest
  <2> QED BY <2>1, <2>2, <2>3
<1> HIDE DEF g, F, G
<1>3. {} \in Good
  BY <1>2
<1>4. ASSUME NEW s \in SUBSET S, s # {}, Rest(s) \in Good PROVE s \in Good
  <2>1. G[Rest(s)] = F[Rest(s)] + IF w \in Rest(s) THEN 1 ELSE 0
    BY <1>4
  <2>2. /\ F[s] = f[Pick(s)] + F[Rest(s)] /\ G[s] = g[Pick(s)] + G[Rest(s)]
        /\ f[Pick(s)] \in Nat /\ F[Rest(s)] \in Nat /\ f[w] \in Nat /\ Pick(s) \in S
    BY <1>2, <1>4
  <2>3. Pick(s) \in s /\ Rest(s) = s \ {Pick(s)}
    BY <1>4 DEF Pick, Rest
  <2>4. CASE Pick(s) = w
    <3>1. w \in s /\ w \notin Rest(s) /\ g[Pick(s)] = f[Pick(s)] + 1
      BY <1>1, <2>3, <2>4
    <3> QED BY <2>1, <2>2, <3>1
  <2>5. CASE Pick(s) # w
    <3>1. (w \in s <=> w \in Rest(s)) /\ g[Pick(s)] = f[Pick(s)]
      BY <1>1, <2>2, <2>3, <2>5
    <3> QED BY <2>1, <2>2, <3>1
  <2> QED BY <2>4, <2>5
<1>5. S \in Good
  <2> HIDE DEF Good
  <2> QED BY <1>3, <1>4, SubsetInduction
<1>6. G[S] = F[S] + 1
  BY <1>5
<1> QED BY <1>6, SumIsOf DEF g, F, G

-----------------------------------------------------------------------------
(* The inductive invariant *)

\* The preparation: what each place of the code knows.
LoadTypes ==
    /\ prog \in Programs /\ lpc \in {"check", "drop", "create", "load", "poll", "ready", "raised"}
    /\ exists \in BOOLEAN /\ reused \in BOOLEAN
    /\ present \in SUBSET Vector /\ indexed \in Nat /\ indexed <= Cardinality(present)
    /\ next \in 0..N /\ pipe \in SUBSET Vector /\ sends \in [Vector -> Nat]

Services == Qdrant \cup {"redis_bench"}

\* All of the base was sent, once, and is there.
Loaded == present = Vector /\ \A v \in Vector : sends[v] = 1
Unsent == next = 0 /\ pipe = {} /\ \A v \in Vector : sends[v] = 0

LoadInv ==
    /\ ~exists => present = {}
    /\ prog \notin Services => lpc \in {"drop", "ready", "raised"}
    /\ prog \in Rostam => (exists \/ lpc = "ready" => Loaded /\ indexed = N)
    /\ lpc = "check" \/ reused => prog \in Qdrant
    /\ lpc \in {"check", "drop", "create", "load", "poll"} => ~reused
    /\ lpc \in {"check", "drop", "create"} /\ prog \in Services => Unsent
    /\ lpc \in {"load", "poll"} => exists
    /\ lpc = "load" /\ prog \in Qdrant =>
          \A v \in Vector : sends[v] \in {0, 1} /\ (v \in present <=> sends[v] = 1)
    /\ lpc = "load" /\ prog = "redis_bench" =>
          /\ \A v \in pipe : v < next
          /\ \A v \in Vector : /\ sends[v] = IF v < next /\ v \notin pipe THEN 1 ELSE 0
                               /\ v \in present <=> sends[v] = 1
    /\ lpc = "poll" => Loaded
    /\ lpc = "ready" =>
          /\ IF prog \in Qdrant THEN indexed >= Enough ELSE indexed = N
          /\ ~reused => Loaded

\* The main program begins behind the preparation.
PcInv ==
    /\ pc \in {"prepare", "query", "await", "measured", "pool", "row", "done", "raised"}
    /\ pc # "prepare" => lpc = "ready"

\* The clock and the tasks, and what the server has answered.
QpsTypes ==
    /\ now \in Nat /\ served \in Nat /\ last \in Nat /\ last <= now /\ i \in Nat
    /\ st \in [Task -> {"none", "queued", "top", "batch", "returned", "raised"}]
    /\ n \in [Task -> Nat] /\ stop \in [Task -> Nat]
QpsInv ==
    /\ pc \in {"query", "await"} => served = i
    /\ pc = "pool" =>
          /\ served = SumOver(n, Task)
          /\ \A w \in Task : /\ st[w] \in {"top", "batch", "returned"} => stop[w] > 0
                             /\ st[w] = "returned" => now >= stop[w]
    /\ pc \notin {"pool", "raised"} => n = Zero
    /\ IF pc \in {"row", "done"} THEN qps.total = served /\ qps.time >= last /\ qps.time > 0
       ELSE qps = Nothing

\* The frame under way is as long as it says, and is read when all of it is there.
WireInv ==
    pc = "await" /\ prog = "rostam_py_client" =>
        /\ reply[3] \in Nat /\ reply[0] = 3 + 2 * reply[3]
        /\ phase = "read" => got = reply[0]

\* The recall: what is counted, and what the answer under way will add.
SentIds == {reply[2 + 2 * j] : j \in 1..reply[3]}
IdsOf == IF prog = "rostam_py_client" THEN SentIds ELSE answer
Legible == prog = "rostam_py_client" => reply[1] = 0
RecallInv ==
    /\ hits \in Nat /\ found \in Nat
    /\ pc \in {"measured", "pool"} => prog \in Latency
    /\ pc \in {"query", "await"} => i <= Asked /\ hits <= i * K
    /\ pc = "query" => hits = found
    /\ pc = "await" => /\ i < Asked
                       /\ Legible => /\ found = hits + Cardinality(IdsOf \cap Truth(i))
                                     /\ found <= (i + 1) * K
    /\ RecallIsTrue

IInv == LoadTypes /\ LoadInv /\ PcInv /\ QpsTypes /\ QpsInv /\ WireInv /\ RecallInv

-----------------------------------------------------------------------------
(* The preparation *)

\* The base, and that every name is of one program.
LEMMA Base ==
    /\ N \in Nat \ {0} /\ Enough \in Int
    /\ IsFiniteSet(Vector) /\ Cardinality(Vector) = N /\ Vector \subseteq Nat
    /\ \A v \in Vector : v < N
<1>1. N \in Nat \ {0}
  BY LoadAssumption
<1>2. IsFiniteSet(0..N - 1) /\ Cardinality(0..N - 1) = N
  <2>1. IsFiniteSet(0..N - 1) /\ Cardinality(0..N - 1) = IF 0 > N - 1 THEN 0 ELSE (N - 1) - 0 + 1
    BY <1>1, FS_Interval
  <2> QED BY <1>1, <2>1
<1>3. Enough \in Int
  BY <1>1 DEF Enough
<1> QED BY <1>1, <1>2, <1>3 DEF Vector

LEMMA PresentFinite ==
    ASSUME NEW S \in SUBSET Vector
    PROVE  IsFiniteSet(S) /\ Cardinality(S) \in Nat
BY Base, FS_Subset, FS_CardinalityType

\* What is there already can only become more.
LEMMA MorePresent ==
    ASSUME NEW S \in SUBSET Vector, NEW T \in SUBSET S
    PROVE  Cardinality(T) <= Cardinality(S)
BY PresentFinite, FS_Subset

LEMMA InitLoad == LoadInit => LoadTypes /\ LoadInv
<1> SUFFICES ASSUME LoadInit PROVE LoadTypes /\ LoadInv
  OBVIOUS
<1>1. /\ prog \in Programs /\ lpc = IF prog = "qdrant_latency_qps" THEN "check" ELSE "drop"
      /\ exists \in BOOLEAN /\ (prog \in Rostam \cup {"hnswlib_bench"} => ~exists)
      /\ present \in SUBSET Vector /\ (~exists => present = {}) /\ indexed \in 0..Cardinality(present)
      /\ next = 0 /\ pipe = {} /\ sends = [v \in Vector |-> 0] /\ reused = FALSE
  BY DEF LoadInit
<1>2. indexed \in Nat /\ indexed <= Cardinality(present)
  BY <1>1, PresentFinite
<1>3. next \in 0..N /\ sends \in [Vector -> Nat]
  BY <1>1, Base
<1>4. LoadTypes
  BY <1>1, <1>2, <1>3 DEF LoadTypes
<1>5. LoadInv
  BY <1>1 DEF LoadInv, Unsent, Services, Rostam, Qdrant, Programs
<1> QED BY <1>4, <1>5

USE DEF Goto

\* The indexers, the build of the Rostam servers, an exception: wherever the code is.
LEMMA EngineStep ==
    ASSUME LoadTypes, LoadInv, Index \/ IndexRests \/ Serve \/ LoadRaises
    PROVE  LoadTypes' /\ LoadInv' /\ (lpc' = lpc \/ LoadRaises)
<1>1. CASE Index
  <2>1. /\ prog \in Services /\ indexed < Cardinality(present) /\ indexed' = indexed + 1
        /\ UNCHANGED <<prog, lpc, exists, present, next, pipe, sends, reused>>
    BY <1>1 DEF Index, Services
  <2>2. indexed' \in Nat /\ indexed' <= Cardinality(present') /\ indexed' > indexed
    BY <2>1, PresentFinite DEF LoadTypes
  <2>3. LoadTypes'
    BY <2>1, <2>2 DEF LoadTypes
  <2>4. lpc = "ready" => prog \in Qdrant
    <3> SUFFICES ASSUME lpc = "ready", prog \notin Qdrant PROVE FALSE
      OBVIOUS
    <3>1. indexed = N /\ present = Vector
      BY DEF LoadInv, Loaded, LoadTypes
    <3> QED BY <2>1, <3>1, Base
  <2>5. prog \notin Rostam
    BY <2>1 DEF Services, Qdrant, Rostam
  <2>6. indexed >= Enough => indexed' >= Enough
    BY <2>1, <2>2, Base DEF LoadTypes
  <2> QED BY <2>1, <2>3, <2>4, <2>5, <2>6 DEF LoadInv, Loaded, Unsent
<1>2. CASE IndexRests
  BY <1>2 DEF IndexRests, LoadTypes, LoadInv, Loaded, Unsent
<1>3. CASE Serve
  <2>1. /\ prog \in Rostam /\ ~exists /\ exists' = TRUE /\ present' = Vector /\ indexed' = N
        /\ sends' = [v \in Vector |-> 1]
        /\ UNCHANGED <<prog, lpc, next, pipe, reused>>
    BY <1>3 DEF Serve
  <2>2. LoadTypes'
    BY <2>1, Base DEF LoadTypes
  <2>3. Loaded'
    BY <2>1 DEF Loaded
  <2>4. prog \notin Services /\ prog \notin Qdrant /\ prog # "redis_bench"
    BY <2>1 DEF Services, Rostam, Qdrant
  <2> QED BY <2>1, <2>2, <2>3, <2>4 DEF LoadInv
<1>4. CASE LoadRaises
  <2>1. lpc' = "raised" /\ UNCHANGED <<prog, exists, present, indexed, green, next, pipe, sends, reused>>
    BY <1>4 DEF LoadRaises, engineVars
  <2> QED BY <1>4, <2>1 DEF LoadTypes, LoadInv, Loaded
<1> QED BY <1>1, <1>2, <1>3, <1>4

\* Qdrant: reuse, or drop, upload and poll.
LEMMA QdrantStep ==
    ASSUME LoadTypes, LoadInv, LoadQdrant
    PROVE  LoadTypes' /\ LoadInv'
<1>1. CASE Check
  <2>1. /\ lpc = "check" /\ reused' = (exists /\ indexed >= Enough)
        /\ lpc' = IF reused' THEN "ready" ELSE "drop"
        /\ UNCHANGED <<prog, exists, present, indexed, green, next, pipe, sends>>
    BY <1>1 DEF Check, engineVars
  <2>2. prog \in Qdrant /\ prog \notin Rostam /\ prog \in Services
    BY <2>1 DEF LoadInv, Services, Qdrant, Rostam
  <2>3. reused' \in BOOLEAN
    BY <2>1
  <2>4. LoadTypes'
    BY <2>1, <2>3 DEF LoadTypes
  <2>5. LoadInv'
    BY <2>1, <2>2, <2>3 DEF LoadInv, Unsent
  <2> QED BY <2>4, <2>5
<1>2. CASE DropQdrant
  <2>1. /\ lpc = "drop" /\ prog \in Qdrant /\ lpc' = "create"
        /\ exists' = FALSE /\ present' = {} /\ indexed' = 0
        /\ UNCHANGED <<prog, green, next, pipe, sends, reused>>
    BY <1>2 DEF DropQdrant
  <2>2. prog \notin Rostam /\ prog \in Services
    BY <2>1 DEF Services, Qdrant, Rostam
  <2>3. LoadTypes'
    <3>1. Cardinality({}) = 0
      BY FS_EmptySet
    <3>2. present' \in SUBSET Vector /\ indexed' \in Nat /\ indexed' <= Cardinality(present')
      BY <2>1, <3>1
    <3> QED BY <2>1, <3>2 DEF LoadTypes
  <2> QED BY <2>1, <2>2, <2>3 DEF LoadInv, Unsent
<1>3. ASSUME NEW u \in Vector, Upload(u) PROVE LoadTypes' /\ LoadInv'
  <2>1. /\ lpc = "load" /\ prog \in Qdrant
        /\ sends' = [sends EXCEPT ![u] = 1] /\ present' = present \cup {u}
        /\ UNCHANGED <<prog, lpc, exists, indexed, green, next, pipe, reused>>
    BY <1>3 DEF Upload
  <2>2. prog \notin Rostam /\ prog \in Services /\ prog # "redis_bench"
    BY <2>1 DEF Services, Qdrant, Rostam
  <2>3. present' \in SUBSET Vector /\ present \in SUBSET present' /\ sends' \in [Vector -> Nat]
    BY <2>1 DEF LoadTypes
  <2>4. indexed <= Cardinality(present')
    <3>1. Cardinality(present) <= Cardinality(present')
      BY <2>3, MorePresent
    <3>2. Cardinality(present) \in Nat /\ Cardinality(present') \in Nat
      BY <2>3, PresentFinite DEF LoadTypes
    <3> QED BY <3>1, <3>2 DEF LoadTypes
  <2>5. LoadTypes'
    BY <2>1, <2>3, <2>4 DEF LoadTypes
  <2>6. \A v \in Vector : sends'[v] \in {0, 1} /\ (v \in present' <=> sends'[v] = 1)
    <3>1. \A v \in Vector : sends[v] \in {0, 1} /\ (v \in present <=> sends[v] = 1)
      BY <2>1 DEF LoadInv
    <3> QED BY <2>1, <3>1 DEF LoadTypes
  <2> QED BY <2>1, <2>2, <2>5, <2>6 DEF LoadInv
<1>4. CASE UploadDone
  <2>1. /\ lpc = "load" /\ prog \in Qdrant /\ (\A v \in Vector : sends[v] = 1) /\ lpc' = "poll"
        /\ UNCHANGED <<prog, exists, present, indexed, green, next, pipe, sends, reused>>
    BY <1>4 DEF UploadDone, engineVars
  <2>2. prog \notin Rostam /\ prog \in Services
    BY <2>1 DEF Services, Qdrant, Rostam
  <2>3. Loaded
    BY <2>1 DEF LoadInv, LoadTypes, Loaded
  <2> QED BY <2>1, <2>2, <2>3 DEF LoadTypes, LoadInv, Loaded
<1>5. CASE PollQdrant
  <2>1. /\ lpc = "poll" /\ prog \in Qdrant /\ indexed >= Enough /\ lpc' = "ready"
        /\ UNCHANGED <<prog, exists, present, indexed, green, next, pipe, sends, reused>>
    BY <1>5 DEF PollQdrant, engineVars
  <2>2. prog \notin Rostam /\ prog \in Services
    BY <2>1 DEF Services, Qdrant, Rostam
  <2> QED BY <2>1, <2>2 DEF LoadTypes, LoadInv, Loaded
<1> QED BY <1>1, <1>2, <1>3, <1>4, <1>5 DEF LoadQdrant

\* RediSearch: drop, the pipelined HSETs, and the poll.
LEMMA RedisStep ==
    ASSUME LoadTypes, LoadInv, LoadRedis
    PROVE  LoadTypes' /\ LoadInv'
<1>0. prog = "redis_bench" /\ prog \notin Rostam /\ prog \notin Qdrant /\ prog \in Services
  BY DEF LoadRedis, DropRedis, Hset, HsetDone, PollRedis, Services, Qdrant, Rostam
<1>1. CASE DropRedis
  <2>1. /\ lpc = "drop" /\ lpc' = "create"
        /\ \/ exists' = FALSE /\ present' = {} /\ indexed' = 0
           \/ UNCHANGED <<exists, present, indexed>>
        /\ UNCHANGED <<prog, green, next, pipe, sends, reused>>
    BY <1>1 DEF DropRedis
  <2>2. LoadTypes'
    <3>1. Cardinality({}) = 0
      BY FS_EmptySet
    <3>2. /\ exists' \in BOOLEAN
          /\ present' \in SUBSET Vector /\ indexed' \in Nat /\ indexed' <= Cardinality(present')
      <4>1. CASE exists' = FALSE /\ present' = {} /\ indexed' = 0
        <5>1. exists' \in BOOLEAN
          BY <4>1
        <5>2. present' \in SUBSET Vector /\ indexed' \in Nat /\ indexed' <= Cardinality(present')
          BY <3>1, <4>1
        <5> QED BY <5>1, <5>2
      <4>2. CASE UNCHANGED <<exists, present, indexed>>
        BY <4>2 DEF LoadTypes
      <4> QED BY <2>1, <4>1, <4>2
    <3> QED BY <2>1, <3>2 DEF LoadTypes
  <2> QED BY <1>0, <2>1, <2>2 DEF LoadInv, Unsent
\* What a pipeline that is executed does.
<1>2. ASSUME NEW q \in SUBSET Vector, Execute(q), lpc = "load", \A v \in q : sends[v] = 0
      PROVE  /\ present' \in SUBSET Vector /\ sends' \in [Vector -> Nat] /\ indexed <= Cardinality(present')
             /\ pipe' = {}
             /\ \A v \in Vector : /\ sends'[v] = IF v \in q THEN 1 ELSE sends[v]
                                  /\ v \in present' <=> sends'[v] = 1
  <2>1. present' = present \cup q /\ sends' = [v \in Vector |-> sends[v] + IF v \in q THEN 1 ELSE 0] /\ pipe' = {}
    BY <1>2 DEF Execute
  <2>2. present' \in SUBSET Vector /\ present \in SUBSET present'
    BY <2>1 DEF LoadTypes
  <2>3. indexed <= Cardinality(present')
    <3>1. Cardinality(present) <= Cardinality(present')
      BY <2>2, MorePresent
    <3>2. Cardinality(present) \in Nat /\ Cardinality(present') \in Nat
      BY <2>2, PresentFinite DEF LoadTypes
    <3> QED BY <3>1, <3>2 DEF LoadTypes
  <2>4. \A v \in Vector : sends[v] \in Nat /\ (v \in present <=> sends[v] = 1)
    BY <1>0, <1>2 DEF LoadTypes, LoadInv
  <2>5. \A v \in Vector : sends'[v] = IF v \in q THEN 1 ELSE sends[v]
    BY <1>2, <2>1, <2>4
  <2>6. sends' \in [Vector -> Nat]
    BY <2>1, <2>4
  <2>7. \A v \in Vector : v \in present' <=> sends'[v] = 1
    BY <2>1, <2>4, <2>5
  <2> QED BY <2>1, <2>2, <2>3, <2>5, <2>6, <2>7
<1>3. CASE Hset
  <2>1. /\ lpc = "load" /\ next < N /\ next' = next + 1
        /\ IF next % PipeBatch = PipeBatch - 1 THEN Execute(pipe \cup {next})
           ELSE pipe' = pipe \cup {next} /\ UNCHANGED <<present, sends>>
        /\ UNCHANGED <<prog, lpc, exists, indexed, green, reused>>
    BY <1>3 DEF Hset
  <2>2. next \in Vector /\ next' \in 0..N /\ next \in Nat /\ pipe \cup {next} \in SUBSET Vector
    BY <2>1, Base DEF LoadTypes, Vector
  <2>3. /\ \A v \in pipe : v < next
        /\ \A v \in Vector : /\ sends[v] = IF v < next /\ v \notin pipe THEN 1 ELSE 0
                             /\ v \in present <=> sends[v] = 1
    BY <1>0, <2>1 DEF LoadInv
  <2>4. \A v \in Vector : v < next' <=> v < next \/ v = next
    BY <2>1, <2>2, Base
  <2>5. \A v \in pipe \cup {next} : sends[v] = 0
    <3>1. sends[next] = 0
      BY <2>2, <2>3
    <3>2. \A v \in pipe : v \in Vector /\ sends[v] = 0
      BY <2>3 DEF LoadTypes
    <3> QED BY <3>1, <3>2
  <2>6. CASE next % PipeBatch = PipeBatch - 1
    <3>1. Execute(pipe \cup {next})
      BY <2>1, <2>6
    <3>2. /\ present' \in SUBSET Vector /\ sends' \in [Vector -> Nat] /\ indexed <= Cardinality(present')
          /\ pipe' = {}
          /\ \A v \in Vector : /\ sends'[v] = IF v \in pipe \cup {next} THEN 1 ELSE sends[v]
                               /\ v \in present' <=> sends'[v] = 1
      BY <1>2, <2>1, <2>2, <2>5, <3>1
    <3>3. LoadTypes'
      BY <2>1, <2>2, <3>2 DEF LoadTypes
    <3>4. \A v \in Vector : sends'[v] = IF v < next' /\ v \notin pipe' THEN 1 ELSE 0
      BY <2>3, <2>4, <3>2
    <3> QED BY <1>0, <2>1, <3>2, <3>3, <3>4 DEF LoadInv
  <2>7. CASE ~(next % PipeBatch = PipeBatch - 1)
    <3>1. pipe' = pipe \cup {next} /\ UNCHANGED <<present, sends>>
      BY <2>1, <2>7
    <3>2. LoadTypes'
      BY <2>1, <2>2, <3>1 DEF LoadTypes
    <3>3. \A v \in pipe' : v < next'
      BY <2>2, <2>3, <2>4, <3>1
    <3>4. \A v \in Vector : /\ sends'[v] = IF v < next' /\ v \notin pipe' THEN 1 ELSE 0
                            /\ v \in present' <=> sends'[v] = 1
      <4>1. \A v \in Vector : (v < next /\ v \notin pipe) <=> (v < next' /\ v \notin pipe')
        BY <2>2, <2>4, <3>1
      <4> QED BY <2>3, <3>1, <4>1
    <3> QED BY <1>0, <2>1, <3>1, <3>2, <3>3, <3>4 DEF LoadInv
  <2> QED BY <2>6, <2>7
<1>4. CASE HsetDone
  <2>1. /\ lpc = "load" /\ next = N /\ Execute(pipe) /\ lpc' = "poll"
        /\ UNCHANGED <<prog, exists, indexed, green, next, reused>>
    BY <1>4 DEF HsetDone
  <2>2. /\ \A v \in pipe : v < next
        /\ \A v \in Vector : sends[v] = IF v < next /\ v \notin pipe THEN 1 ELSE 0
    BY <1>0, <2>1 DEF LoadInv
  <2>3. pipe \in SUBSET Vector /\ \A v \in pipe : sends[v] = 0
    BY <2>2 DEF LoadTypes
  <2>4. /\ present' \in SUBSET Vector /\ sends' \in [Vector -> Nat] /\ indexed <= Cardinality(present')
        /\ pipe' = {}
        /\ \A v \in Vector : /\ sends'[v] = IF v \in pipe THEN 1 ELSE sends[v]
                             /\ v \in present' <=> sends'[v] = 1
    BY <1>2, <2>1, <2>3
  <2>5. \A v \in Vector : sends'[v] = 1
    BY <2>1, <2>2, <2>4, Base
  <2>6. Loaded'
    BY <2>4, <2>5 DEF Loaded
  <2>7. LoadTypes'
    BY <2>1, <2>4 DEF LoadTypes
  <2> QED BY <1>0, <2>1, <2>6, <2>7 DEF LoadInv
<1>5. CASE PollRedis
  <2>1. /\ lpc = "poll" /\ indexed = Cardinality(present) /\ lpc' = "ready"
        /\ UNCHANGED <<prog, exists, present, indexed, green, next, pipe, sends, reused>>
    BY <1>5 DEF PollRedis, engineVars
  <2>2. Loaded /\ indexed = N
    BY <2>1, Base DEF LoadInv, Loaded
  <2> QED BY <1>0, <2>1, <2>2 DEF LoadTypes, LoadInv, Loaded
<1> QED BY <1>1, <1>3, <1>4, <1>5 DEF LoadRedis

\* The other steps of the preparation.
LEMMA CreateStep ==
    ASSUME LoadTypes, LoadInv, Create \/ AddItems \/ Connect
    PROVE  LoadTypes' /\ LoadInv'
<1>1. CASE Create
  <2>1. /\ lpc = "create" /\ ~exists /\ exists' = TRUE /\ lpc' = "load"
        /\ UNCHANGED <<prog, present, indexed, green, next, pipe, sends, reused>>
    BY <1>1 DEF Create
  <2>2. present = {} /\ prog \in Services /\ Unsent
    BY <2>1 DEF LoadInv
  <2>3. prog \notin Rostam
    BY <2>2 DEF Services, Qdrant, Rostam
  <2>4. \A v \in Vector : sends[v] = 0 /\ v \notin present /\ ~(v < next)
    BY <2>2, Base DEF Unsent
  <2>5. LoadTypes'
    BY <2>1 DEF LoadTypes
  <2> QED BY <2>1, <2>2, <2>3, <2>4, <2>5 DEF LoadInv, Unsent
<1>2. CASE AddItems
  <2>1. /\ prog = "hnswlib_bench" /\ exists' = TRUE /\ present' = Vector /\ indexed' = N
        /\ sends' = [v \in Vector |-> 1] /\ lpc' = "ready" /\ lpc = "drop"
        /\ UNCHANGED <<prog, green, next, pipe, reused>>
    BY <1>2 DEF AddItems
  <2>2. prog \notin Rostam /\ prog \notin Services /\ prog \notin Qdrant
    BY <2>1 DEF Services, Qdrant, Rostam
  <2>3. Loaded'
    BY <2>1 DEF Loaded
  <2>4. LoadTypes'
    BY <2>1, Base DEF LoadTypes
  <2> QED BY <2>1, <2>2, <2>3, <2>4 DEF LoadInv
<1>3. CASE Connect
  <2>1. /\ prog \in Rostam /\ exists /\ lpc' = "ready"
        /\ UNCHANGED <<prog, exists, present, indexed, green, next, pipe, sends, reused>>
    BY <1>3 DEF Connect, engineVars
  <2>2. prog \notin Services /\ prog \notin Qdrant
    BY <2>1 DEF Services, Qdrant, Rostam
  <2> QED BY <2>1, <2>2 DEF LoadTypes, LoadInv, Loaded
<1> QED BY <1>1, <1>2, <1>3

LEMMA LoadUntouched ==
    ASSUME LoadTypes, LoadInv, UNCHANGED loadVars
    PROVE  LoadTypes' /\ LoadInv'
BY DEF loadVars, LoadTypes, LoadInv, Loaded, Unsent

-----------------------------------------------------------------------------
(* The throughput *)

LEMMA Tasks == IsFiniteSet(Task) /\ Task # {} /\ CONC \in Nat /\ DUR \in Nat \ {0}
<1>1. CONC \in Nat \ {0} /\ DUR \in Nat \ {0}
  BY PoolAssumption
<1>2. IsFiniteSet(0..CONC - 1)
  BY <1>1, FS_Interval
<1>3. 0 \in 0..CONC - 1
  BY <1>1
<1> QED BY <1>1, <1>2, <1>3 DEF Task

LEMMA SumOfZero == SumOver(Zero, Task) = 0
<1>1. \A w \in Task : Zero[w] = 0
  BY DEF Zero
<1> QED BY <1>1, Tasks, SumZero

LEMMA ZeroType == Zero \in [Task -> Nat]
BY DEF Zero

\* Nothing happens to the throughput.
LEMMA QpsUntouched ==
    ASSUME QpsTypes, QpsInv, UNCHANGED <<qpsVars, i>>,
           \/ pc' = pc
           \/ pc = "query" /\ pc' = "await"
           \/ pc = "query" /\ pc' = "measured"
           \/ pc \in {"await", "pool"} /\ pc' = "raised"
           \/ pc = "row" /\ pc' = "done"
    PROVE  QpsTypes' /\ QpsInv'
<1>1. UNCHANGED <<now, st, n, stop, served, last, qps, i>>
  BY DEF qpsVars
<1>2. QpsTypes'
  BY <1>1 DEF QpsTypes
<1>3. SumOver(n, Task)' = SumOver(n, Task)
  BY <1>1
<1>4. QpsInv'
  BY <1>1, <1>3 DEF QpsInv
<1> QED BY <1>2, <1>4

\* A measurement begins.
LEMMA QpsStarts ==
    ASSUME QpsTypes, QpsInv, StartSweep, pc \in {"prepare", "row"}
    PROVE  QpsTypes' /\ QpsInv'
<1>1. /\ now' = 0 /\ served' = 0 /\ last' = 0 /\ qps' = Nothing /\ i' = 0 /\ pc' = "query"
      /\ UNCHANGED <<st, n, stop>> /\ n = Zero
  BY DEF StartSweep, StartClock, taskVars, QpsInv
<1>2. QpsTypes'
  BY <1>1 DEF QpsTypes
<1> QED BY <1>1, <1>2 DEF QpsInv

\* A search of the loop was answered.
LEMMA QpsServed ==
    ASSUME QpsTypes, QpsInv, SearchEnd
    PROVE  QpsTypes' /\ QpsInv'
<1>1. /\ served' = served + 1 /\ last' = now /\ i' = i + 1 /\ pc = "await" /\ pc' = "query"
      /\ UNCHANGED <<now, st, n, stop, qps>>
  BY DEF SearchEnd, Served, taskVars
<1>2. QpsTypes'
  BY <1>1 DEF QpsTypes
<1>3. QpsInv'
  BY <1>1 DEF QpsTypes, QpsInv
<1> QED BY <1>2, <1>3

LEMMA QpsTick ==
    ASSUME QpsTypes, QpsInv, Clock
    PROVE  QpsTypes' /\ QpsInv'
<1>1. /\ now' = now + 1 /\ pc \in {"query", "await", "pool"}
      /\ UNCHANGED <<pc, i, st, n, stop, served, last, qps>>
  BY DEF Clock, Tick, mainVars, taskVars, seenVars
<1>2. QpsTypes'
  BY <1>1 DEF QpsTypes
<1>3. SumOver(n, Task)' = SumOver(n, Task)
  BY <1>1
<1>4. \A w \in Task : now >= stop[w] => now' >= stop[w]
  BY <1>1 DEF QpsTypes
<1>5. QpsInv'
  BY <1>1, <1>3, <1>4 DEF QpsInv
<1> QED BY <1>2, <1>5

\* The single-client programs.
LEMMA QpsLoopEnds ==
    ASSUME QpsTypes, QpsInv, LoopEnds
    PROVE  QpsTypes' /\ QpsInv'
<1>1. /\ pc = "query" /\ now > 0 /\ qps' = [total |-> i, time |-> now] /\ pc' = "row"
      /\ UNCHANGED <<now, st, n, stop, served, last, i>>
  BY DEF LoopEnds, taskVars, seenVars
<1>2. QpsTypes'
  BY <1>1 DEF QpsTypes
<1>3. qps'.total = i /\ qps'.time = now
  BY <1>1
<1>4. served = i /\ n = Zero
  BY <1>1 DEF QpsInv
<1>5. qps'.total = served' /\ qps'.time >= last' /\ qps'.time > 0
  BY <1>1, <1>3, <1>4 DEF QpsTypes
<1> QED BY <1>1, <1>2, <1>4, <1>5 DEF QpsInv

LEMMA QpsSaturate ==
    ASSUME QpsTypes, QpsInv, Saturate
    PROVE  QpsTypes' /\ QpsInv'
<1>1. /\ pc = "measured" /\ pc' = "pool" /\ i' = 0
      /\ now' = 0 /\ served' = 0 /\ last' = 0 /\ qps' = Nothing
      /\ st' = [w \in Task |-> "queued"] /\ UNCHANGED <<n, stop>>
  BY DEF Saturate, PoolMap, StartClock
<1>2. QpsTypes'
  BY <1>1 DEF QpsTypes
<1>3. n' = Zero
  BY <1>1 DEF QpsInv
<1>4. served' = SumOver(n', Task)
  BY <1>1, <1>3, SumOfZero
<1>5. \A w \in Task : st'[w] = "queued"
  BY <1>1
<1> QED BY <1>1, <1>2, <1>4, <1>5 DEF QpsInv

\* The steps of a task.
LEMMA QpsTask ==
    ASSUME QpsTypes, QpsInv, pc = "pool", NEW w \in Task, TaskStep(w) \/ TaskRaises(w), UNCHANGED <<pc, i>>
    PROVE  QpsTypes' /\ QpsInv'
<1>0. /\ served = SumOver(n, Task) /\ qps = Nothing
      /\ \A v \in Task : /\ st[v] \in {"top", "batch", "returned"} => stop[v] > 0
                         /\ st[v] = "returned" => now >= stop[v]
  BY DEF QpsInv
<1>1. CASE TaskStart(w)
  <2>1. /\ st[w] = "queued" /\ st' = [st EXCEPT ![w] = "top"] /\ stop' = [stop EXCEPT ![w] = now + DUR]
        /\ UNCHANGED <<now, n, served, last, qps>>
    BY <1>1 DEF TaskStart, seenVars
  <2>2. now + DUR \in Nat /\ now + DUR > 0
    BY Tasks DEF QpsTypes
  <2>3. /\ st'[w] = "top" /\ stop'[w] > 0
        /\ \A v \in Task \ {w} : st'[v] = st[v] /\ stop'[v] = stop[v]
    BY <2>1, <2>2 DEF QpsTypes
  <2>4. QpsTypes'
    BY <2>1, <2>2 DEF QpsTypes
  <2>5. SumOver(n, Task)' = SumOver(n, Task)
    BY <2>1
  <2>6. \A v \in Task : /\ st'[v] \in {"top", "batch", "returned"} => stop'[v] > 0
                        /\ st'[v] = "returned" => now' >= stop'[v]
    BY <1>0, <2>1, <2>3
  <2> QED BY <1>0, <2>1, <2>4, <2>5, <2>6 DEF QpsInv
<1>2. CASE TaskTop(w)
  <2>1. /\ st[w] = "top" /\ UNCHANGED <<now, n, stop, served, last, qps>>
        /\ \/ st' = [st EXCEPT ![w] = "batch"]
           \/ now >= stop[w] /\ st' = [st EXCEPT ![w] = "returned"]
    BY <1>2 DEF TaskTop, seenVars
  <2>2. /\ st'[w] = "batch" \/ (st'[w] = "returned" /\ now >= stop[w])
        /\ \A v \in Task \ {w} : st'[v] = st[v]
    BY <2>1 DEF QpsTypes
  <2>3. QpsTypes'
    BY <2>1 DEF QpsTypes
  <2>4. SumOver(n, Task)' = SumOver(n, Task)
    BY <2>1
  <2>5. \A v \in Task : /\ st'[v] \in {"top", "batch", "returned"} => stop'[v] > 0
                        /\ st'[v] = "returned" => now' >= stop'[v]
    BY <1>0, <2>1, <2>2
  <2> QED BY <1>0, <2>1, <2>3, <2>4, <2>5 DEF QpsInv
<1>3. CASE TaskSearch(w)
  <2>1. /\ st[w] = "batch" /\ served' = served + 1 /\ last' = now
        /\ n' = [n EXCEPT ![w] = @ + 1]
        /\ st' = [st EXCEPT ![w] = IF left[w] = 1 THEN "top" ELSE "batch"]
        /\ UNCHANGED <<now, stop, qps>>
    BY <1>3 DEF TaskSearch, Served
  <2>2. st'[w] \in {"top", "batch"} /\ \A v \in Task \ {w} : st'[v] = st[v]
    BY <2>1 DEF QpsTypes
  <2>3. QpsTypes'
    BY <2>1 DEF QpsTypes
  <2>4. SumOver([n EXCEPT ![w] = @ + 1], Task) = SumOver(n, Task) + 1
    BY Tasks, SumPlusOne DEF QpsTypes
  <2>5. SumOver(n, Task)' = served'
    BY <1>0, <2>1, <2>4
  <2>6. \A v \in Task : /\ st'[v] \in {"top", "batch", "returned"} => stop'[v] > 0
                        /\ st'[v] = "returned" => now' >= stop'[v]
    BY <1>0, <2>1, <2>2
  <2> QED BY <1>0, <2>1, <2>3, <2>5, <2>6 DEF QpsInv
<1>4. CASE TaskRaises(w)
  <2>1. st' = [st EXCEPT ![w] = "raised"] /\ UNCHANGED <<now, n, stop, served, last, qps>>
    BY <1>4 DEF TaskRaises, seenVars
  <2>2. st'[w] = "raised" /\ \A v \in Task \ {w} : st'[v] = st[v]
    BY <2>1 DEF QpsTypes
  <2>3. QpsTypes'
    BY <2>1 DEF QpsTypes
  <2>4. SumOver(n, Task)' = SumOver(n, Task)
    BY <2>1
  <2>5. \A v \in Task : /\ st'[v] \in {"top", "batch", "returned"} => stop'[v] > 0
                        /\ st'[v] = "returned" => now' >= stop'[v]
    BY <1>0, <2>1, <2>2
  <2> QED BY <1>0, <2>1, <2>3, <2>4, <2>5 DEF QpsInv
<1> QED BY <1>1, <1>2, <1>3, <1>4 DEF TaskStep

\* pool.map returns: every task is done, so its time is up.
LEMMA QpsReturns ==
    ASSUME QpsTypes, QpsInv, pc = "pool", PoolReturns, pc' = "row", i' = i
    PROVE  QpsTypes' /\ QpsInv'
<1>1. /\ \A w \in Task : st[w] = "returned"
      /\ qps' = [total |-> SumOver(n, Task), time |-> now]
      /\ st' = [w \in Task |-> "none"] /\ n' = Zero /\ stop' = Zero
      /\ UNCHANGED <<now, served, last>>
  BY DEF PoolReturns, PoolEnded, PoolFailed, PoolGone, seenVars, SumOver
<1>2. PICK w \in Task : TRUE
  BY Tasks
<1>3. now > 0
  BY <1>1, <1>2 DEF QpsTypes, QpsInv
<1>4. qps'.total = SumOver(n, Task) /\ qps'.time = now
  BY <1>1
<1>5. qps'.total = served' /\ qps'.time >= last' /\ qps'.time > 0
  BY <1>1, <1>3, <1>4 DEF QpsTypes, QpsInv
<1>6. QpsTypes'
  BY <1>1, ZeroType DEF QpsTypes
<1> QED BY <1>1, <1>5, <1>6 DEF QpsInv

LEMMA QpsPool ==
    ASSUME QpsTypes, QpsInv, Pool
    PROVE  QpsTypes' /\ QpsInv'
<1>1. /\ pc = "pool" /\ i' = i
      /\ \/ (\E w \in Task : TaskStep(w) \/ TaskRaises(w)) /\ pc' = pc
         \/ PoolReturns /\ pc' = "row"
         \/ pc' = "raised" /\ UNCHANGED qpsVars
  BY DEF Pool
<1> QED BY <1>1, QpsTask, QpsReturns, QpsUntouched

-----------------------------------------------------------------------------
(* The recall *)

\* The queries, and their true neighbours.
LEMMA Queries ==
    /\ K \in Nat /\ Len(gt) \in Nat /\ Asked \in Nat /\ Asked <= Len(gt)
    /\ \A q \in Nat : q < Asked => gt[q + 1] \in Seq(Vector)
<1> HIDE DEF gt
<1>1. gt \in Seq(Seq(Vector)) /\ LAT_N \in 1..Len(gt) /\ \A r \in DOMAIN gt : Len(gt[r]) = K
  BY DataAssumption
<1>2. Len(gt) \in Nat /\ DOMAIN gt = 1..Len(gt) /\ \A r \in 1..Len(gt) : gt[r] \in Seq(Vector)
  BY <1>1
<1>3. 1 \in DOMAIN gt /\ gt[1] \in Seq(Vector)
  BY <1>1, <1>2
<1>4. K \in Nat
  BY <1>1, <1>3
<1>5. Asked \in Nat /\ Asked <= Len(gt)
  BY <1>1, <1>2 DEF Asked
<1> HIDE DEF Asked
<1>6. \A q \in Nat : q < Asked => q + 1 \in 1..Len(gt)
  BY <1>2, <1>5
<1> QED BY <1>2, <1>4, <1>5, <1>6

\* Ids are as many as vectors.
LEMMA IdsCounted ==
    ASSUME NEW S \in SUBSET Vector
    PROVE  /\ IsFiniteSet({Id(v) : v \in S})
           /\ Cardinality({Id(v) : v \in S}) = Cardinality(S)
<1> DEFINE T == {Id(v) : v \in S}
           f == [v \in S |-> Id(v)]
<1>1. \A u \in S, v \in S : Id(u) = Id(v) => u = v
  BY Base DEF Id
<1>2. f \in Bijection(S, T)
  <2>1. f \in [S -> T]
    OBVIOUS
  <2>2. \A u \in S, v \in S : f[u] = f[v] => u = v
    BY <1>1
  <2>3. \A t \in T : \E v \in S : f[v] = t
    OBVIOUS
  <2> HIDE DEF f, T
  <2> QED BY <2>1, <2>2, <2>3 DEF Bijection, Injection, Surjection, IsInjective
<1>3. ExistsBijection(S, T)
  BY <1>2 DEF ExistsBijection
<1>4. IsFiniteSet(S)
  BY PresentFinite
<1> HIDE DEF T, f
<1>5. IsFiniteSet(T) /\ Cardinality(T) = Cardinality(S)
  BY <1>3, <1>4, FS_Bijection
<1> QED BY <1>5 DEF T

\* What the program counts is what the engine found, whatever the engine calls it.
LEMMA HitsAreFound ==
    ASSUME NEW R \in SUBSET Vector, NEW q \in Nat, q < Asked, Cardinality(R) <= K
    PROVE  /\ Cardinality({Id(v) : v \in R} \cap Truth(q)) = Cardinality(R \cap Range(gt[q + 1]))
           /\ Cardinality(R \cap Range(gt[q + 1])) \in 0..K
<1> HIDE DEF gt, Asked
<1>1. Range(gt[q + 1]) \in SUBSET Vector
  <2>1. gt[q + 1] \in Seq(Vector)
    BY Queries
  <2> QED BY <2>1 DEF Range
<1>2. Truth(q) = {Id(x) : x \in Range(gt[q + 1])}
  BY DEF Truth, Id
<1>3. \A u \in Vector, v \in Vector : Id(u) = Id(v) => u = v
  BY Base DEF Id
<1> DEFINE G == Range(gt[q + 1])
<1> HIDE DEF G
<1>4. G \in SUBSET Vector /\ Truth(q) = {Id(x) : x \in G}
  BY <1>1, <1>2 DEF G
<1>5. {Id(v) : v \in R} \cap Truth(q) = {Id(v) : v \in R \cap G}
  BY <1>3, <1>4
<1>6. Cardinality({Id(v) : v \in R \cap G}) = Cardinality(R \cap G)
  <2>1. R \cap G \in SUBSET Vector
    OBVIOUS
  <2> QED BY <2>1, IdsCounted
<1>7. Cardinality(R \cap G) \in 0..K
  <2>1. R \cap G \in SUBSET R /\ R \cap G \in SUBSET Vector
    OBVIOUS
  <2>2. Cardinality(R \cap G) <= Cardinality(R) /\ Cardinality(R \cap G) \in Nat /\ Cardinality(R) \in Nat
    BY <2>1, MorePresent, PresentFinite
  <2> QED BY <2>2, Queries
<1> QED BY <1>5, <1>6, <1>7 DEF G

\* The ids in some order, each once.
LEMMA Ordered ==
    ASSUME NEW S, IsFiniteSet(S)
    PROVE  /\ SetToSeq(S) \in [1..Cardinality(S) -> S] /\ Cardinality(S) \in Nat
           /\ \A x \in S : \E j \in 1..Cardinality(S) : SetToSeq(S)[j] = x
<1> DEFINE c == Cardinality(S)
           s == SetToSeq(S)
<1>1. c \in Nat /\ ExistsBijection(1..c, S)
  BY FS_CardinalityType
<1>2. PICK b \in Bijection(1..c, S) : TRUE
  BY <1>1 DEF ExistsBijection
<1>3. b \in [1..c -> S] /\ IsInjective(b)
  BY <1>2 DEF Bijection, Injection
<1>4. s \in [1..c -> S] /\ IsInjective(s)
  BY <1>3 DEF SetToSeq
<1> HIDE DEF s
<1>5. s \in Injection(1..c, S)
  BY <1>4 DEF Injection
<1>6. Cardinality(1..c) = c
  <2>1. Cardinality(1..c) = IF 1 > c THEN 0 ELSE c - 1 + 1
    BY <1>1, FS_Interval
  <2> HIDE DEF c
  <2> QED BY <1>1, <2>1
<1>7. s \in Surjection(1..c, S)
  BY <1>5, <1>6, FS_Injection
<1> QED BY <1>1, <1>4, <1>7 DEF Surjection, s

\* The fields of a response.
ReadBack(r, m, s) ==
    /\ r[0] = 3 + 2 * m /\ r[1] = 0 /\ r[3] = m
    /\ \A j \in 1..m : r[2 + 2 * j] = s[j]

LEMMA ResponseRead ==
    ASSUME NEW m \in Nat, NEW S, NEW s \in [1..m -> S]
    PROVE  ReadBack(Response(0, s), m, s)
<1>1. s \in Seq(S) /\ DOMAIN s = 1..m
  BY SeqDef
<1>2. Len(s) = m
  BY <1>1
<1>3. Response(0, s)[0] = 3 + 2 * m /\ Response(0, s)[1] = 0 /\ Response(0, s)[3] = m
  BY <1>2 DEF Response
<1>4. ASSUME NEW j \in 1..m PROVE Response(0, s)[2 + 2 * j] = s[j]
  <2>1. 2 + 2 * j \in 0..3 + 2 * m
    OBVIOUS
  <2>2. /\ 2 + 2 * j \notin {0, 1, 2, 3} /\ 2 + 2 * j > 3
        /\ (2 + 2 * j) % 2 = 0 /\ (2 + 2 * j) \div 2 - 1 = j
    OBVIOUS
  <2> QED BY <1>2, <2>1, <2>2 DEF Response
<1> QED BY <1>3, <1>4 DEF ReadBack

\* What is read from the buffer is what was sent.
LEMMA BufferRead ==
    ASSUME WireInv, pc = "await", prog = "rostam_py_client", phase = "read"
    PROVE  ReadIds = SentIds /\ ReadStatus = reply[1]
<1>1. reply[3] \in Nat /\ reply[0] = 3 + 2 * reply[3] /\ got = reply[0]
  BY DEF WireInv
<1>2. \A f \in 1..reply[0] : Buffer[f] = reply[f]
  BY <1>1 DEF Buffer
<1> HIDE DEF Buffer
<1>3. 1 \in 1..reply[0] /\ 3 \in 1..reply[0] /\ \A j \in 1..reply[3] : 2 + 2 * j \in 1..reply[0]
  BY <1>1
<1>4. Buffer[1] = reply[1] /\ Buffer[3] = reply[3] /\ \A j \in 1..reply[3] : Buffer[2 + 2 * j] = reply[2 + 2 * j]
  BY <1>2, <1>3
<1> QED BY <1>4 DEF ReadIds, SentIds, ReadStatus

LEMMA OneQueryMore ==
    ASSUME NEW q \in Nat, NEW k \in Nat
    PROVE  (q + 1) * k = q * k + k /\ q * k \in Nat /\ 0 * k = 0
OBVIOUS

\* Nothing happens to the answers counted.
LEMMA RecallUntouched ==
    ASSUME RecallInv, UNCHANGED <<prog, i, hits, found, answer, reply, row>>,
           \/ pc' = pc
           \/ pc = "await" /\ pc' = "raised"
           \/ pc = "pool" /\ pc' \in {"row", "raised"}
           \/ pc = "row" /\ pc' = "done"
    PROVE  RecallInv'
<1>1. /\ Asked' = Asked /\ Truth(i)' = Truth(i) /\ IdsOf' = IdsOf /\ Legible' = Legible
      /\ Latency' = Latency
  BY DEF Asked, Truth, IdsOf, SentIds, Legible
<1>2. RecallIsTrue'
  BY <1>1 DEF RecallInv, RecallIsTrue
<1> HIDE DEF Asked, Truth, IdsOf, Legible
<1> QED BY <1>1, <1>2 DEF RecallInv

LEMMA RecallStarts ==
    ASSUME LoadTypes, StartSweep, UNCHANGED loadVars
    PROVE  RecallInv'
<1>1. i' = 0 /\ hits' = 0 /\ found' = 0 /\ pc' = "query" /\ prog' = prog
  BY DEF StartSweep, loadVars
<1>2. Asked' = Asked /\ Asked \in Nat /\ K \in Nat
  BY <1>1, Queries DEF Asked
<1>3. 0 * K = 0
  BY <1>2, OneQueryMore
<1> HIDE DEF Asked
<1> QED BY <1>1, <1>2, <1>3 DEF RecallInv, RecallIsTrue

\* The request reaches the engine as it was meant.
LEMMA SearchDecoded == DecodeSearch(encode_search(i, K)) = i
BY DEF DecodeSearch, encode_search

\* A search goes out: what its answer will add is what the engine found.
LEMMA RecallBegins ==
    ASSUME IInv, SearchBegin
    PROVE  WireInv' /\ RecallInv'
<1>1. /\ pc = "query" /\ i < Asked /\ pc' = "await"
      /\ UNCHANGED <<loadVars, qpsVars, ef, i, hits, lats, row>>
  BY DEF SearchBegin
<1>2. PICK R \in Results :
        IF prog = "rostam_py_client"
        THEN LET q == DecodeSearch(encode_search(i, K))
             IN  \/ /\ q # None
                    /\ found' = found + Cardinality(R \cap Range(gt[q + 1]))
                    /\ Send(0, SetToSeq({Id(v) : v \in R}))
                    /\ UNCHANGED answer
                 \/ Send(1, <<>>) /\ UNCHANGED <<found, answer>>
        ELSE /\ found' = found + Cardinality(R \cap Range(gt[i + 1]))
             /\ answer' = {Id(v) : v \in R}
             /\ UNCHANGED wireVars
  BY DEF SearchBegin
<1>3. R \in SUBSET Vector /\ Cardinality(R) <= K
  <2>1. R \in SUBSET present /\ (Cardinality(R) = K \/ Cardinality(R) <= K)
    BY DEF Results
  <2>2. R \in SUBSET Vector
    BY <2>1 DEF IInv, LoadTypes
  <2>3. Cardinality(R) \in Nat
    BY <2>2, PresentFinite
  <2> QED BY <2>1, <2>2, <2>3, Queries
<1> DEFINE Ids == {Id(v) : v \in R}
           found_i == Cardinality(R \cap Range(gt[i + 1]))
<1>4. i \in Nat /\ hits = found /\ hits \in Nat /\ hits <= i * K /\ K \in Nat
  BY <1>1, Queries DEF IInv, QpsTypes, RecallInv
<1>5. Cardinality(Ids \cap Truth(i)) = found_i /\ found_i \in 0..K
  BY <1>1, <1>3, <1>4, HitsAreFound
<1>6. prog' = prog /\ Asked' = Asked /\ Truth(i)' = Truth(i)
  BY <1>1 DEF loadVars, Asked, Truth
<1>7. hits' = hits /\ i' = i /\ i <= Asked
  BY <1>1, <1>4, Queries
<1>8. found + found_i <= (i + 1) * K /\ found + found_i \in Nat
  <2> HIDE DEF found_i
  <2>1. (i + 1) * K = i * K + K /\ i * K \in Nat
    BY <1>4, OneQueryMore
  <2> QED BY <1>4, <1>5, <2>1
<1>9. IsFiniteSet(Ids)
  BY <1>3, IdsCounted
\* All cases but the one of an answer that is an error.
<1>10. ASSUME found' = found + found_i, IdsOf' = Ids PROVE RecallInv'
  <2> HIDE DEF Ids, found_i, Asked, Truth, Legible, IdsOf
  <2>1. found' = hits' + Cardinality(IdsOf' \cap Truth(i)') /\ found' <= (i' + 1) * K /\ found' \in Nat
    BY <1>4, <1>5, <1>6, <1>7, <1>8, <1>10
  <2> QED BY <1>1, <1>4, <1>6, <1>7, <2>1 DEF RecallInv, RecallIsTrue
<1>11. CASE prog # "rostam_py_client"
  <2>1. found' = found + found_i /\ answer' = Ids
    BY <1>2, <1>11
  <2>2. IdsOf' = Ids
    BY <1>6, <1>11, <2>1 DEF IdsOf
  <2>3. WireInv'
    BY <1>6, <1>11 DEF WireInv
  <2> QED BY <1>10, <2>1, <2>2, <2>3
<1>12. CASE prog = "rostam_py_client"
  <2>1. \/ found' = found + found_i /\ Send(0, SetToSeq(Ids))
        \/ found' = found /\ Send(1, <<>>)
    BY <1>2, <1>12, SearchDecoded
  <2>2. CASE found' = found + found_i /\ Send(0, SetToSeq(Ids))
    <3> DEFINE c == Cardinality(Ids)
               s == SetToSeq(Ids)
    <3>1. reply' = Response(0, s) /\ phase' = "len"
      BY <2>2 DEF Send
    <3> HIDE DEF Ids
    <3>2. /\ c \in Nat /\ s \in [1..c -> Ids]
          /\ \A x \in Ids : \E j \in 1..c : s[j] = x
      BY <1>9, Ordered
    <3> HIDE DEF c, s
    <3>3. /\ reply'[0] = 3 + 2 * c /\ reply'[3] = c
          /\ \A j \in 1..c : reply'[2 + 2 * j] = s[j]
      <4>1. ReadBack(Response(0, s), c, s)
        BY <3>2, ResponseRead
      <4> QED BY <3>1, <4>1 DEF ReadBack
    <3>4. SentIds' = {reply'[2 + 2 * j] : j \in 1..c}
      BY <3>3 DEF SentIds
    <3>5. SentIds' = Ids
      <4>1. \A x \in SentIds' : x \in Ids
        <5> SUFFICES ASSUME NEW j \in 1..c PROVE reply'[2 + 2 * j] \in Ids
          BY <3>4
        <5> QED BY <3>2, <3>3
      <4>2. \A x \in Ids : x \in SentIds'
        BY <3>2, <3>3, <3>4
      <4> QED BY <4>1, <4>2
    <3>6. IdsOf' = Ids
      BY <1>6, <1>12, <3>5 DEF IdsOf
    <3>7. WireInv'
      BY <3>1, <3>2, <3>3 DEF WireInv
    <3> QED BY <1>10, <2>2, <3>6, <3>7
  <2>3. CASE found' = found /\ Send(1, <<>>)
    <3>1. reply'[0] = 3 /\ reply'[1] = 1 /\ reply'[3] = 0 /\ phase' = "len"
      BY <2>3 DEF Send, Response
    <3>2. ~Legible' /\ WireInv'
      BY <1>6, <1>12, <3>1 DEF Legible, WireInv
    <3> HIDE DEF Asked, Truth, Legible, IdsOf
    <3> QED BY <1>1, <1>4, <1>6, <1>7, <2>3, <3>2 DEF RecallInv, RecallIsTrue
  <2> QED BY <2>1, <2>2, <2>3
<1> QED BY <1>11, <1>12

\* An answer is counted.
LEMMA RecallCounts ==
    ASSUME IInv, SearchEnd
    PROVE  RecallInv'
<1>1. /\ pc = "await" /\ pc' = "query" /\ i' = i + 1 /\ Legible
      /\ hits' = hits + Cardinality(IdsOf \cap Truth(i))
      /\ found' = found /\ prog' = prog
  <2>1. /\ pc = "await" /\ pc' = "query" /\ i' = i + 1
        /\ prog = "rostam_py_client" => phase = "read" /\ ReadStatus = 0
        /\ hits' = hits + Cardinality((IF prog = "rostam_py_client" THEN ReadIds ELSE answer) \cap Truth(i))
        /\ found' = found /\ prog' = prog
    BY DEF SearchEnd, loadVars
  <2>2. prog = "rostam_py_client" => ReadIds = SentIds /\ reply[1] = 0
    BY <2>1, BufferRead DEF IInv
  <2> QED BY <2>1, <2>2 DEF Legible, IdsOf
<1>2. Asked' = Asked /\ Asked \in Nat /\ i \in Nat
  BY <1>1, Queries DEF Asked, IInv, QpsTypes
<1> HIDE DEF Asked, Legible, IdsOf, Truth
<1>3. i < Asked /\ found = hits + Cardinality(IdsOf \cap Truth(i)) /\ found <= (i + 1) * K /\ found \in Nat
  BY <1>1 DEF IInv, RecallInv
<1>4. i' <= Asked'
  BY <1>1, <1>2, <1>3
<1>5. hits' = found' /\ hits' \in Nat /\ hits' <= i' * K
  BY <1>1, <1>3
<1> QED BY <1>1, <1>4, <1>5 DEF RecallInv, RecallIsTrue

\* The row is made.
LEMMA RecallReported ==
    ASSUME IInv, LatencyReturns \/ LoopEnds
    PROVE  RecallInv'
<1>1. /\ pc = "query" /\ row'.hits = hits /\ row'.of = i * K /\ UNCHANGED <<hits, found, i, prog>>
      /\ (pc' = "measured" /\ prog \in Latency) \/ (pc' = "row" /\ prog \notin Latency)
  BY DEF LatencyReturns, LoopEnds, loadVars
<1>2. hits = found /\ hits <= i * K /\ hits \in Nat /\ found \in Nat
  BY <1>1 DEF IInv, RecallInv
<1> QED BY <1>1, <1>2 DEF RecallInv, RecallIsTrue

LEMMA RecallDropped ==
    ASSUME IInv, Saturate
    PROVE  RecallInv'
<1>1. pc = "measured" /\ pc' = "pool" /\ hits' = 0 /\ found' = 0 /\ prog' = prog
  BY DEF Saturate, loadVars
<1>2. prog \in Latency
  BY <1>1 DEF IInv, RecallInv
<1> QED BY <1>1, <1>2 DEF RecallInv, RecallIsTrue

-----------------------------------------------------------------------------
(* The theorems *)

LEMMA InitIInv == Init => IInv
<1> SUFFICES ASSUME Init PROVE IInv
  OBVIOUS
<1>1. LoadTypes /\ LoadInv
  BY InitLoad DEF Init
<1>2. /\ pc = "prepare" /\ i = 0 /\ hits = 0 /\ found = 0
      /\ now = 0 /\ st = [w \in Task |-> "none"] /\ n = Zero /\ stop = Zero
      /\ served = 0 /\ last = 0 /\ qps = Nothing
  BY DEF Init, QpsInit
<1>3. PcInv
  BY <1>2 DEF PcInv
<1>4. QpsTypes
  BY <1>2, ZeroType DEF QpsTypes
<1>5. QpsInv
  BY <1>2 DEF QpsInv
<1>6. WireInv /\ RecallInv
  BY <1>2 DEF WireInv, RecallInv, RecallIsTrue
<1> QED BY <1>1, <1>3, <1>4, <1>5, <1>6 DEF IInv

\* The program's own steps, once the index is there.
LEMMA MeasureStep ==
    ASSUME IInv, UNCHANGED loadVars,
           \/ Prepared \/ SearchBegin \/ Receive \/ SearchEnd \/ SearchRaises \/ LatencyReturns
           \/ LoopEnds \/ Saturate \/ Pool \/ PrintRow \/ Clock \/ UNCHANGED vars
    PROVE  IInv'
<1>1. LoadTypes' /\ LoadInv'
  BY LoadUntouched DEF IInv
<1>2. lpc' = lpc /\ prog' = prog
  BY DEF loadVars
<1>3. LoadTypes /\ QpsTypes /\ QpsInv /\ WireInv /\ RecallInv /\ PcInv
  BY DEF IInv
<1>4. CASE Prepared
  <2>1. StartSweep /\ pc = "prepare" /\ lpc = "ready" /\ pc' = "query"
    BY <1>4 DEF Prepared, StartSweep
  <2>2. QpsTypes' /\ QpsInv' /\ RecallInv'
    BY <1>3, <2>1, QpsStarts, RecallStarts
  <2> QED BY <1>1, <1>2, <2>1, <2>2 DEF IInv, PcInv, WireInv
<1>5. CASE SearchBegin
  <2>1. pc = "query" /\ pc' = "await" /\ UNCHANGED <<qpsVars, i>>
    BY <1>5 DEF SearchBegin
  <2>2. QpsTypes' /\ QpsInv' /\ WireInv' /\ RecallInv'
    BY <1>3, <1>5, <2>1, QpsUntouched, RecallBegins
  <2> QED BY <1>1, <1>2, <1>3, <2>1, <2>2 DEF IInv, PcInv
<1>6. CASE Receive
  <2>1. pc' = pc /\ UNCHANGED <<qpsVars, i, hits, found, answer, row>>
    BY <1>6 DEF Receive, mainVars
  <2>2. /\ reply' = reply
        /\ phase' = "read" => (phase = "body" /\ got = reply[0] /\ got' = got) \/ (phase' = phase /\ got' = got)
    BY <1>6 DEF Receive, WireStep, RecvSome, RecvClosed, RecvDone, ServerCloses, Receiving, Wanted
  <2>3. WireInv'
    BY <1>2, <1>3, <2>1, <2>2 DEF WireInv
  <2>4. QpsTypes' /\ QpsInv' /\ RecallInv'
    BY <1>2, <1>3, <2>1, <2>2, QpsUntouched, RecallUntouched
  <2> QED BY <1>1, <1>2, <1>3, <2>1, <2>3, <2>4 DEF IInv, PcInv
<1>7. CASE SearchEnd
  <2>1. pc = "await" /\ pc' = "query"
    BY <1>7 DEF SearchEnd
  <2>2. QpsTypes' /\ QpsInv' /\ RecallInv'
    BY <1>3, <1>7, QpsServed, RecallCounts
  <2> QED BY <1>1, <1>2, <1>3, <2>1, <2>2 DEF IInv, PcInv, WireInv
<1>8. CASE SearchRaises
  <2>1. pc = "await" /\ pc' = "raised" /\ UNCHANGED <<qpsVars, i, hits, found, answer, row, reply>>
    BY <1>8 DEF SearchRaises, wireVars
  <2>2. QpsTypes' /\ QpsInv' /\ RecallInv'
    BY <1>2, <1>3, <2>1, QpsUntouched, RecallUntouched
  <2> QED BY <1>1, <1>2, <1>3, <2>1, <2>2 DEF IInv, PcInv, WireInv
<1>9. CASE LatencyReturns
  <2>1. pc = "query" /\ pc' = "measured" /\ UNCHANGED <<qpsVars, i>>
    BY <1>9 DEF LatencyReturns
  <2>2. QpsTypes' /\ QpsInv' /\ RecallInv'
    BY <1>3, <1>9, <2>1, QpsUntouched, RecallReported
  <2> QED BY <1>1, <1>2, <1>3, <2>1, <2>2 DEF IInv, PcInv, WireInv
<1>10. CASE LoopEnds
  <2>1. pc = "query" /\ pc' = "row"
    BY <1>10 DEF LoopEnds
  <2>2. QpsTypes' /\ QpsInv' /\ RecallInv'
    BY <1>3, <1>10, QpsLoopEnds, RecallReported
  <2> QED BY <1>1, <1>2, <1>3, <2>1, <2>2 DEF IInv, PcInv, WireInv
<1>11. CASE Saturate
  <2>1. pc = "measured" /\ pc' = "pool"
    BY <1>11 DEF Saturate
  <2>2. QpsTypes' /\ QpsInv' /\ RecallInv'
    BY <1>3, <1>11, QpsSaturate, RecallDropped
  <2> QED BY <1>1, <1>2, <1>3, <2>1, <2>2 DEF IInv, PcInv, WireInv
<1>12. CASE Pool
  <2>1. pc = "pool" /\ pc' \in {"pool", "row", "raised"} /\ UNCHANGED <<i, hits, found, answer, row, reply>>
    BY <1>12 DEF Pool, wireVars
  <2>2. QpsTypes' /\ QpsInv' /\ RecallInv'
    BY <1>2, <1>3, <1>12, <2>1, QpsPool, RecallUntouched
  <2> QED BY <1>1, <1>2, <1>3, <2>1, <2>2 DEF IInv, PcInv, WireInv
<1>13. CASE PrintRow
  <2>1. /\ pc = "row"
        /\ \/ StartSweep /\ pc' = "query"
           \/ pc' = "done" /\ UNCHANGED <<qpsVars, i, hits, found, answer, row, reply>>
    BY <1>13 DEF PrintRow, StartSweep, wireVars
  <2>2. CASE StartSweep /\ pc' = "query"
    BY <1>1, <1>2, <1>3, <2>1, <2>2, QpsStarts, RecallStarts DEF IInv, PcInv, WireInv
  <2>3. CASE pc' = "done" /\ UNCHANGED <<qpsVars, i, hits, found, answer, row, reply>>
    BY <1>1, <1>2, <1>3, <2>1, <2>3, QpsUntouched, RecallUntouched DEF IInv, PcInv, WireInv
  <2> QED BY <2>1, <2>2, <2>3
<1>14. CASE Clock
  <2>1. pc' = pc /\ UNCHANGED <<i, hits, found, answer, row, reply, phase, got>>
    BY <1>14 DEF Clock, mainVars, wireVars
  <2>2. QpsTypes' /\ QpsInv' /\ RecallInv'
    BY <1>2, <1>3, <1>14, <2>1, QpsTick, RecallUntouched
  <2> QED BY <1>1, <1>2, <1>3, <2>1, <2>2 DEF IInv, PcInv, WireInv
<1>15. CASE UNCHANGED vars
  <2>1. pc' = pc /\ UNCHANGED <<qpsVars, i, hits, found, answer, row, reply, phase, got>>
    BY <1>15 DEF vars, mainVars, wireVars
  <2>2. QpsTypes' /\ QpsInv' /\ RecallInv'
    BY <1>2, <1>3, <2>1, QpsUntouched, RecallUntouched
  <2> QED BY <1>1, <1>2, <1>3, <2>1, <2>2 DEF IInv, PcInv, WireInv
<1> QED BY <1>4, <1>5, <1>6, <1>7, <1>8, <1>9, <1>10, <1>11, <1>12, <1>13, <1>14, <1>15

\* The preparation, and the engine in the meantime.
LEMMA PrepareStep ==
    ASSUME IInv, Prepare \/ Engine
    PROVE  IInv'
<1>1. /\ pc = "prepare" /\ UNCHANGED <<qpsVars, wireVars, mainVars>>
      /\ LoadStep \/ LoadRaises \/ Index \/ IndexRests \/ Serve
  BY DEF Prepare, Engine
<1>2. LoadTypes' /\ LoadInv'
  BY <1>1, QdrantStep, RedisStep, CreateStep, EngineStep DEF IInv, LoadStep
<1>3. pc' = pc /\ UNCHANGED <<qpsVars, i, hits, found>>
  BY <1>1 DEF mainVars
<1>4. QpsTypes' /\ QpsInv'
  BY <1>3, QpsUntouched DEF IInv
<1>5. WireInv' /\ RecallInv'
  BY <1>1, <1>3 DEF IInv, WireInv, RecallInv, RecallIsTrue
<1> QED BY <1>1, <1>2, <1>3, <1>4, <1>5 DEF IInv, PcInv

\* Every step of the program, the engine and the clock keeps the invariant.
THEOREM InvariantHolds == Spec => []IInv
<1>1. IInv /\ [Next]_vars => IInv'
  <2> SUFFICES ASSUME IInv, [Next]_vars PROVE IInv'
    OBVIOUS
  <2>1. CASE Prepare \/ Engine
    BY <2>1, PrepareStep
  <2>2. CASE \/ Prepared \/ SearchBegin \/ Receive \/ SearchEnd \/ SearchRaises \/ LatencyReturns
             \/ LoopEnds \/ Saturate \/ Pool \/ PrintRow \/ Clock \/ Finished \/ UNCHANGED vars
    <3>1. UNCHANGED loadVars
      BY <2>2 DEF Prepared, SearchBegin, Receive, SearchEnd, SearchRaises, LatencyReturns,
                  LoopEnds, Saturate, Pool, PrintRow, Clock, Finished, vars
    <3> QED BY <2>2, <3>1, MeasureStep DEF Finished
  <2> QED BY <2>1, <2>2 DEF Next, Main
<1> QED BY <1>1, InitIInv, PTL DEF Spec

-----------------------------------------------------------------------------
(* The latencies: an invariant of its own, on top of the other one *)

LatInv ==
    /\ lats \in Seq(Nat) /\ t0 \in Nat
    /\ pc = "await" => t0 <= now
    /\ pc \in {"query", "await"} /\ prog \in Latency => Len(lats) = i
    /\ PercentilesAreTrue

\* The elements of a list that go no later than its k-th when it is sorted.
NotLater(s, m, k) == {j \in 1..m : s[j] < s[k] \/ (s[j] = s[k] /\ j <= k)}

\* Whatever comes before another one has fewer elements up to it.
LEMMA RankOrders ==
    ASSUME NEW m \in Nat, NEW s \in [1..m -> Nat], NEW a \in 1..m, NEW b \in 1..m,
           s[a] < s[b] \/ (s[a] = s[b] /\ a < b)
    PROVE  Cardinality(NotLater(s, m, a)) < Cardinality(NotLater(s, m, b))
<1>1. IsFiniteSet(1..m)
  BY FS_Interval
<1>2. \A j \in 1..m : s[j] \in Nat
  OBVIOUS
<1>3. NotLater(s, m, a) \subseteq NotLater(s, m, b) /\ b \in NotLater(s, m, b) /\ b \notin NotLater(s, m, a)
  BY <1>2 DEF NotLater
<1>4. IsFiniteSet(NotLater(s, m, b)) /\ NotLater(s, m, b) \subseteq 1..m
  BY <1>1, FS_Subset DEF NotLater
<1>5. /\ Cardinality(NotLater(s, m, a)) <= Cardinality(NotLater(s, m, b))
      /\ Cardinality(NotLater(s, m, b)) # Cardinality(NotLater(s, m, a)) /\ IsFiniteSet(NotLater(s, m, a))
  BY <1>3, <1>4, FS_Subset
<1>6. Cardinality(NotLater(s, m, a)) \in Nat /\ Cardinality(NotLater(s, m, b)) \in Nat
  BY <1>4, <1>5, FS_CardinalityType
<1> QED BY <1>5, <1>6

\* Every element of a list has a place of its own in the sorted one.
LEMMA RankIsBijection ==
    ASSUME NEW m \in Nat, NEW s \in [1..m -> Nat]
    PROVE  [k \in 1..m |-> Cardinality(NotLater(s, m, k))] \in Bijection(1..m, 1..m)
<1> DEFINE rank == [k \in 1..m |-> Cardinality(NotLater(s, m, k))]
<1>1. IsFiniteSet(1..m) /\ Cardinality(1..m) = m
  BY FS_Interval
<1>2. ASSUME NEW k \in 1..m PROVE Cardinality(NotLater(s, m, k)) \in 1..m
  <2>1. k \in NotLater(s, m, k) /\ NotLater(s, m, k) \in SUBSET (1..m)
    BY DEF NotLater
  <2>2. IsFiniteSet(NotLater(s, m, k)) /\ Cardinality(NotLater(s, m, k)) <= m
    BY <1>1, <2>1, FS_Subset
  <2>3. Cardinality(NotLater(s, m, k)) \in Nat /\ Cardinality(NotLater(s, m, k)) # 0
    BY <2>1, <2>2, FS_CardinalityType, FS_EmptySet
  <2> QED BY <2>2, <2>3
<1>3. rank \in [1..m -> 1..m]
  BY <1>2
<1>4. ASSUME NEW a \in 1..m, NEW b \in 1..m, rank[a] = rank[b] PROVE a = b
  <2>1. rank[a] \in Nat /\ rank[a] = Cardinality(NotLater(s, m, a)) /\ rank[b] = Cardinality(NotLater(s, m, b))
    BY <1>2
  <2>2. ~(s[a] < s[b]) /\ ~(s[a] = s[b] /\ a < b)
    BY <1>4, <2>1, RankOrders
  <2>3. ~(s[b] < s[a]) /\ ~(s[b] = s[a] /\ b < a)
    BY <1>4, <2>1, RankOrders
  <2>4. s[a] \in Nat /\ s[b] \in Nat
    OBVIOUS
  <2> QED BY <2>2, <2>3, <2>4
<1> HIDE DEF rank
<1>5. rank \in Injection(1..m, 1..m)
  BY <1>3, <1>4, Fun_IsInj
<1>6. rank \in Surjection(1..m, 1..m)
  BY <1>1, <1>5, FS_Injection
<1> QED BY <1>5, <1>6 DEF Bijection, rank

\* Sorting works: the values come in ascending order, and each of them from one
\* place of its own.
LEMMA SortWorks ==
    ASSUME NEW D, IsFiniteSet(D), NEW f \in [D -> Nat]
    PROVE  \E p \in Bijection(1..Cardinality(D), D) :
               /\ Sort(f) = [k \in 1..Cardinality(D) |-> f[p[k]]]
               /\ \A a, b \in 1..Cardinality(D) : a < b => f[p[a]] <= f[p[b]]
<1> DEFINE m == Cardinality(D)
           Sorts(p) == \A a, b \in 1..m : a < b => f[p[a]] <= f[p[b]]
<1>1. m \in Nat /\ ExistsBijection(1..m, D)
  BY FS_CardinalityType
<1>2. PICK g \in Bijection(1..m, D) : TRUE
  BY <1>1 DEF ExistsBijection
<1>3. g \in [1..m -> D]
  BY <1>2, Fun_BijectionProperties
<1> DEFINE s == [k \in 1..m |-> f[g[k]]]
           rank == [k \in 1..m |-> Cardinality(NotLater(s, m, k))]
           inv == Inverse(rank, 1..m, 1..m)
           p0 == [k \in 1..m |-> g[inv[k]]]
<1>4. s \in [1..m -> Nat]
  BY <1>3
<1> HIDE DEF m
<1>5. rank \in Bijection(1..m, 1..m)
  <2> HIDE DEF s
  <2> QED BY <1>1, <1>4, RankIsBijection
<1> HIDE DEF rank
<1>6. inv \in Bijection(1..m, 1..m) /\ \A k \in 1..m : rank[inv[k]] = k
  <2>1. inv \in Bijection(1..m, 1..m) /\ \A k \in 1..m : inv[rank[k]] = k
    BY <1>5, Fun_BijInverse
  <2>2. \A k \in 1..m : \E j \in 1..m : rank[j] = k
    BY <1>5 DEF Bijection, Surjection
  <2> HIDE DEF inv
  <2> QED BY <2>1, <2>2
<1> HIDE DEF inv
<1>7. inv \in [1..m -> 1..m]
  BY <1>6, Fun_BijectionProperties
<1>8. p0 \in Bijection(1..m, D)
  <2>1. inv \in Bijection(1..m, 1..m)
    BY <1>6
  <2> QED BY <1>2, <2>1, Fun_BijTransitive
<1>9. Sorts(p0)
  <2> SUFFICES ASSUME NEW a \in 1..m, NEW b \in 1..m, a < b PROVE f[p0[a]] <= f[p0[b]]
    OBVIOUS
  <2>1. /\ inv[a] \in 1..m /\ inv[b] \in 1..m
        /\ f[p0[a]] = s[inv[a]] /\ f[p0[b]] = s[inv[b]]
    BY <1>7
  <2> HIDE DEF s, p0
  <2>2. Cardinality(NotLater(s, m, inv[a])) = a /\ Cardinality(NotLater(s, m, inv[b])) = b
    BY <1>6, <2>1 DEF rank
  <2>3. ASSUME s[inv[b]] < s[inv[a]] PROVE FALSE
    <3>1. Cardinality(NotLater(s, m, inv[b])) < Cardinality(NotLater(s, m, inv[a]))
      BY <1>1, <1>4, <2>1, <2>3, RankOrders
    <3> QED BY <1>1, <2>2, <3>1
  <2>4. s[inv[a]] \in Nat /\ s[inv[b]] \in Nat
    BY <1>4, <2>1
  <2> QED BY <2>1, <2>3, <2>4
<1> DEFINE p == CHOOSE q \in Bijection(1..m, D) : Sorts(q)
<1> HIDE DEF Sorts
<1>10. p \in Bijection(1..m, D) /\ Sorts(p)
  BY <1>8, <1>9
<1>11. Sort(f) = [k \in 1..m |-> f[p[k]]]
  BY DEF Sort, Sorts, m
<1> HIDE DEF p
<1> QED BY <1>10, <1>11 DEF m, Sorts

\* Up to the k-th of the sorted latencies there are k of them or more, and from it on
\* all but k - 1.
LEMMA AtPlace ==
    ASSUME NEW m \in Nat, NEW s \in [1..m -> Nat], NEW k \in 1..m
    PROVE  /\ AtMost(s, Sort(s)[k]) \in Nat /\ AtMost(s, Sort(s)[k]) >= k
           /\ AtLeast(s, Sort(s)[k]) \in Nat /\ AtLeast(s, Sort(s)[k]) >= m - k + 1
<1>1. IsFiniteSet(1..m) /\ Cardinality(1..m) = m
  BY FS_Interval
<1>2. PICK p \in Bijection(1..m, 1..m) :
        /\ Sort(s) = [j \in 1..m |-> s[p[j]]]
        /\ \A a, b \in 1..m : a < b => s[p[a]] <= s[p[b]]
  <2>1. \E p \in Bijection(1..Cardinality(1..m), 1..m) :
           /\ Sort(s) = [j \in 1..Cardinality(1..m) |-> s[p[j]]]
           /\ \A a, b \in 1..Cardinality(1..m) : a < b => s[p[a]] <= s[p[b]]
    BY <1>1, SortWorks
  <2> QED BY <1>1, <2>1
<1>3. p \in [1..m -> 1..m] /\ \A a, b \in 1..m : p[a] = p[b] => a = b
  BY <1>2 DEF Bijection, Injection, IsInjective
<1> DEFINE v == Sort(s)[k]
           Low == {j \in DOMAIN s : s[j] <= v}
           High == {j \in DOMAIN s : s[j] >= v}
           low == [j \in 1..k |-> p[j]]
           high == [j \in k..m |-> p[j]]
<1>4. v = s[p[k]] /\ v \in Nat
  BY <1>2, <1>3
<1>5. \A j \in 1..m : s[p[j]] \in Nat
  BY <1>3
<1> HIDE DEF v
<1>6. ASSUME NEW j \in 1..k PROVE p[j] \in Low
  <2>1. j \in 1..m /\ (j < k \/ j = k)
    OBVIOUS
  <2>2. s[p[j]] <= s[p[k]]
    <3>1. CASE j < k
      BY <1>2, <2>1, <3>1
    <3>2. CASE j = k
      BY <1>5, <3>2
    <3> QED BY <2>1, <3>1, <3>2
  <2>3. p[j] \in DOMAIN s
    BY <1>3, <2>1
  <2> QED BY <1>4, <2>2, <2>3
<1>7. ASSUME NEW j \in k..m PROVE p[j] \in High
  <2>1. j \in 1..m /\ (k < j \/ j = k)
    OBVIOUS
  <2>2. s[p[k]] <= s[p[j]]
    <3>1. CASE k < j
      BY <1>2, <2>1, <3>1
    <3>2. CASE j = k
      BY <1>5, <3>2
    <3> QED BY <2>1, <3>1, <3>2
  <2>3. p[j] \in DOMAIN s
    BY <1>3, <2>1
  <2>4. s[p[j]] >= v
    BY <1>4, <1>5, <2>1, <2>2
  <2> QED BY <2>3, <2>4
<1>8. IsFiniteSet(Low) /\ IsFiniteSet(High)
  <2>1. Low \in SUBSET (1..m) /\ High \in SUBSET (1..m)
    OBVIOUS
  <2> QED BY <1>1, <2>1, FS_Subset
<1> HIDE DEF Low, High
<1>9. low \in Injection(1..k, Low) /\ high \in Injection(k..m, High)
  <2>1. low \in [1..k -> Low] /\ high \in [k..m -> High]
    BY <1>6, <1>7
  <2>2. 1..k \subseteq 1..m /\ k..m \subseteq 1..m
    OBVIOUS
  <2>3. IsInjective(low) /\ IsInjective(high)
    BY <1>3, <2>2 DEF IsInjective
  <2> HIDE DEF low, high
  <2> QED BY <2>1, <2>3 DEF Injection
<1> HIDE DEF low, high
<1>10. Cardinality(1..k) <= Cardinality(Low) /\ Cardinality(k..m) <= Cardinality(High)
  BY <1>8, <1>9, FS_Injection
<1>11. Cardinality(1..k) = k /\ Cardinality(k..m) = m - k + 1
  <2>1. k \in Int /\ m \in Int /\ 1 \in Int /\ ~(1 > k) /\ ~(k > m) /\ k - 1 + 1 = k
    OBVIOUS
  <2> QED BY <2>1, FS_Interval
<1>12. Cardinality(Low) \in Nat /\ Cardinality(High) \in Nat
  BY <1>8, FS_CardinalityType
<1>13. /\ Cardinality(Low) \in Nat /\ Cardinality(Low) >= k
       /\ Cardinality(High) \in Nat /\ Cardinality(High) >= m - k + 1
  BY <1>10, <1>11, <1>12
<1> QED BY <1>13 DEF Low, High, v, AtMost, AtLeast

\* The two places latency() looks at are in the list, and the right ones.
LEMMA Median ==
    ASSUME NEW m \in Nat \ {0}
    PROVE  /\ m \div 2 + 1 \in 1..m
           /\ \A c \in Nat : c >= m \div 2 + 1 => 2 * c >= m
           /\ \A c \in Nat : c >= m - (m \div 2 + 1) + 1 => 2 * c >= m
OBVIOUS

LEMMA NinetyNinth ==
    ASSUME NEW m \in Nat \ {0}
    PROVE  /\ (m * 99) \div 100 + 1 \in 1..m
           /\ \A c \in Nat : c >= (m * 99) \div 100 + 1 => 100 * c >= 99 * m
           /\ \A c \in Nat : c >= m - ((m * 99) \div 100 + 1) + 1 => 100 * c >= m
OBVIOUS

\* latency() returns the percentiles of what it measured.
LEMMA RowOfLatencies ==
    ASSUME NEW m \in Nat \ {0}, NEW s \in [1..m -> Nat]
    PROVE  LET x == Sort(s)[m \div 2 + 1]
               y == Sort(s)[(m * 99) \div 100 + 1]
           IN  /\ 2 * AtMost(s, x) >= m /\ 2 * AtLeast(s, x) >= m
               /\ 100 * AtMost(s, y) >= 99 * m /\ 100 * AtLeast(s, y) >= m
<1> DEFINE k == m \div 2 + 1
           l == (m * 99) \div 100 + 1
<1>1. k \in 1..m /\ l \in 1..m
  BY Median, NinetyNinth
<1>2. m \in Nat
  OBVIOUS
<1> HIDE DEF k, l
<1>3. /\ AtMost(s, Sort(s)[k]) \in Nat /\ AtMost(s, Sort(s)[k]) >= k
      /\ AtLeast(s, Sort(s)[k]) \in Nat /\ AtLeast(s, Sort(s)[k]) >= m - k + 1
  BY <1>1, <1>2, AtPlace
<1>4. /\ AtMost(s, Sort(s)[l]) \in Nat /\ AtMost(s, Sort(s)[l]) >= l
      /\ AtLeast(s, Sort(s)[l]) \in Nat /\ AtLeast(s, Sort(s)[l]) >= m - l + 1
  BY <1>1, <1>2, AtPlace
<1>5. 2 * AtMost(s, Sort(s)[k]) >= m /\ 2 * AtLeast(s, Sort(s)[k]) >= m
  BY <1>3, Median DEF k
<1>6. 100 * AtMost(s, Sort(s)[l]) >= 99 * m /\ 100 * AtLeast(s, Sort(s)[l]) >= m
  BY <1>4, NinetyNinth DEF l
<1> QED BY <1>5, <1>6 DEF k, l

\* The loop is not under way and nothing is reported, or nothing happens to either.
LEMMA LatsUntouched ==
    ASSUME LatInv, lats' = lats, t0' = t0,
           \/ pc' \notin {"query", "await", "measured"}
           \/ pc' = pc /\ UNCHANGED <<prog, i, row>> /\ now \in Nat /\ now' \in Nat /\ now <= now'
    PROVE  LatInv'
<1>1. Latency' = Latency
  BY DEF Latency
<1>2. PercentilesAreTrue'
  BY DEF LatInv, PercentilesAreTrue
<1> QED BY <1>1, <1>2 DEF LatInv

LEMMA LatsStart ==
    ASSUME lats' = <<>>, t0' = 0, (pc' = "query" /\ i' = 0) \/ pc' = "pool"
    PROVE  LatInv'
<1>1. Len(<<>>) = 0 /\ <<>> \in Seq(Nat)
  OBVIOUS
<1> QED BY <1>1 DEF LatInv, PercentilesAreTrue

LEMMA LatStep ==
    ASSUME IInv, LatInv, [Next]_vars
    PROVE  LatInv'
<1>1. now \in Nat /\ i \in Nat
  BY DEF IInv, QpsTypes
<1>2. CASE Prepare \/ Engine
  <2>1. pc = "prepare" /\ pc' = pc /\ lats' = lats /\ t0' = t0
    BY <1>2 DEF Prepare, Engine, mainVars
  <2> QED BY <2>1, LatsUntouched
<1>3. CASE Prepared \/ Saturate
  BY <1>3, LatsStart DEF Prepared, StartSweep, Saturate
<1>4. CASE PrintRow
  <2>1. (StartSweep \/ (pc' = "done" /\ lats' = lats /\ t0' = t0))
    BY <1>4 DEF PrintRow
  <2> QED BY <2>1, LatsStart, LatsUntouched DEF StartSweep
<1>5. CASE SearchBegin
  <2>1. pc = "query" /\ pc' = "await" /\ t0' = now /\ now' = now /\ UNCHANGED <<prog, i, lats>>
    BY <1>5 DEF SearchBegin, loadVars, qpsVars
  <2> QED BY <1>1, <2>1 DEF LatInv, PercentilesAreTrue, Latency
<1>6. CASE Receive \/ UNCHANGED vars \/ Finished
  <2>1. pc' = pc /\ UNCHANGED <<prog, i, row, lats, t0, now>>
    BY <1>6 DEF Receive, Finished, vars, mainVars, loadVars, qpsVars
  <2> QED BY <1>1, <2>1, LatsUntouched
<1>7. CASE SearchEnd
  <2>1. /\ pc = "await" /\ pc' = "query" /\ i' = i + 1 /\ t0' = 0 /\ prog' = prog
        /\ lats' = IF prog \in Latency THEN Append(lats, now - t0) ELSE lats
    BY <1>7 DEF SearchEnd, loadVars
  <2>2. lats \in Seq(Nat) /\ now - t0 \in Nat
    BY <1>1, <2>1 DEF LatInv
  <2>3. Append(lats, now - t0) \in Seq(Nat) /\ Len(Append(lats, now - t0)) = Len(lats) + 1
    BY <2>2
  <2> QED BY <2>1, <2>2, <2>3 DEF LatInv, PercentilesAreTrue, Latency
<1>8. CASE SearchRaises \/ LoopEnds \/ Pool
  <2>1. lats' = lats /\ t0' = t0 /\ pc' \notin {"query", "await", "measured"}
    BY <1>8 DEF SearchRaises, LoopEnds, Pool
  <2> QED BY <2>1, LatsUntouched
<1>9. CASE Clock
  <2>1. pc' = pc /\ UNCHANGED <<prog, i, row, lats, t0>> /\ now' = now + 1
    BY <1>9 DEF Clock, Tick, mainVars, loadVars
  <2> QED BY <1>1, <2>1, LatsUntouched
<1>10. CASE LatencyReturns
  <2>1. /\ pc = "query" /\ i = Asked /\ prog \in Latency /\ pc' = "measured"
        /\ lats' = lats /\ t0' = t0
        /\ row'.p50 = Sort(lats)[Len(lats) \div 2 + 1]
        /\ row'.p99 = Sort(lats)[(Len(lats) * 99) \div 100 + 1]
    BY <1>10 DEF LatencyReturns, Sorted
  <2>2. LAT_N \in Nat \ {0} /\ Asked = LAT_N
    <3> HIDE DEF gt
    <3>1. LAT_N \in 1..Len(gt) /\ Len(gt) \in Nat
      BY DataAssumption
    <3> QED BY <2>1, <3>1 DEF Asked
  <2>3. lats \in Seq(Nat) /\ Len(lats) = LAT_N /\ t0 \in Nat
    BY <2>1, <2>2 DEF LatInv
  <2>4. /\ 2 * AtMost(lats, row'.p50) >= LAT_N /\ 2 * AtLeast(lats, row'.p50) >= LAT_N
        /\ 100 * AtMost(lats, row'.p99) >= 99 * LAT_N /\ 100 * AtLeast(lats, row'.p99) >= LAT_N
    <3>1. lats \in [1..LAT_N -> Nat]
      BY <2>2, <2>3
    <3> DEFINE x == Sort(lats)[LAT_N \div 2 + 1]
               y == Sort(lats)[(LAT_N * 99) \div 100 + 1]
    <3>2. /\ 2 * AtMost(lats, x) >= LAT_N /\ 2 * AtLeast(lats, x) >= LAT_N
          /\ 100 * AtMost(lats, y) >= 99 * LAT_N /\ 100 * AtLeast(lats, y) >= LAT_N
      BY <2>2, <3>1, RowOfLatencies
    <3>3. row'.p50 = x /\ row'.p99 = y
      BY <2>1, <2>3
    <3> HIDE DEF x, y
    <3> QED BY <3>2, <3>3
  <2>5. \A x : AtMost(lats', x) = AtMost(lats, x) /\ AtLeast(lats', x) = AtLeast(lats, x)
    BY <2>1
  <2>6. PercentilesAreTrue'
    BY <2>1, <2>3, <2>4, <2>5 DEF PercentilesAreTrue
  <2> QED BY <2>1, <2>3, <2>6 DEF LatInv
<1> QED BY <1>2, <1>3, <1>4, <1>5, <1>6, <1>7, <1>8, <1>9, <1>10 DEF Next, Main

-----------------------------------------------------------------------------
(* What is printed *)

\* What is measured is the index over the base: all of it was sent (once, but for
\* Qdrant's client, which may send a batch again) and is in the index as far as the program waits for, however the background indexer,
\* the pipeline and what an earlier program left behind interleave.
THEOREM IndexIsBuilt == Spec => []MeasuredIsBuilt
<1>1. IInv => MeasuredIsBuilt
  BY DEF IInv, PcInv, LoadInv, Loaded, MeasuredIsBuilt, Measuring
<1> QED BY <1>1, InvariantHolds, PTL

\* The throughput counts the searches that were answered, of any number of tasks,
\* over a time that covers them all.
THEOREM ThroughputIsHonest == Spec => []QpsIsHonest
<1>1. IInv => QpsIsHonest
  BY DEF IInv, QpsInv, QpsIsHonest
<1> QED BY <1>1, InvariantHolds, PTL

\* A row is true of what the engine did: its recall counts what the engine found,
\* through the ids and the frames of either client, and its p50 and p99
\* are percentiles of the latencies of all the searches it asked, however many.
THEOREM RowsAreTrue == Spec => []RowIsTrue
<1>1. Init => LatInv
  <2>1. <<>> \in Seq(Nat) /\ 0 \in Nat
    OBVIOUS
  <2> QED BY <2>1 DEF Init, LatInv, PercentilesAreTrue
<1>2. IInv /\ LatInv /\ [Next]_vars => LatInv'
  BY LatStep
<1>3. IInv /\ LatInv => RowIsTrue
  BY DEF IInv, RecallInv, LatInv, RowIsTrue
<1> QED BY <1>1, <1>2, <1>3, InvariantHolds, PTL DEF Spec
=============================================================================
