---------------------------- MODULE LoadGenProofs ---------------------------
(***************************************************************************)
(* The safety of the measuring loop, for any number of workers, any warmup *)
(* and duration and any interleaving: what run() divides, and by what, and *)
(* whose latencies it sorts and takes the percentiles of.                  *)
(*                                                                         *)
(* The latencies are followed by a matching: every place of every worker's *)
(* list belongs to one operation of the window, and every operation to one *)
(* place.  Merging and sorting compose the matching with another one, so   *)
(* that no induction over the lists is needed.                             *)
(***************************************************************************)
EXTENDS LoadGen, FiniteSetTheorems, FunctionTheorems, TLAPS

-----------------------------------------------------------------------------
(* The inductive invariant *)

\* What TypeOK leaves out.
MoreTypes ==
    /\ tool \in {"kv", "vec"}
    /\ lat \in [Worker -> Seq(0..Horizon)] /\ perWorker \in [Worker -> Seq(0..Horizon)]
    /\ turns \in [Worker -> 0..MaxOps]

\* The time stamps of a worker are in order, and it leaves the loop after the deadline.
LoopInv ==
    \A w \in Worker :
        /\ pc[w] \in {"pick", "op"} =>
              turns[w] < MaxOps /\ now[w] <= Deadline /\ now[w] <= clock
        /\ pc[w] = "op" => now[w] <= t0[w] /\ t0[w] <= clock
        /\ pc[w] \in {"exit", "done"} => clock > Deadline
        /\ localErrs[w] <= turns[w]

\* A measured operation: whose it is and when it was.
Op(h) ==
    /\ h.op \in Worker \X Nat /\ h.op[2] < turns[h.op[1]]
    /\ h.ok \in BOOLEAN
    /\ h.top \in Nat /\ h.start \in Nat /\ h.end \in Nat
    /\ WarmDeadline < h.top /\ h.top <= Deadline
    /\ h.top <= h.start /\ h.start <= h.end /\ h.end <= clock
HistInv == IsFiniteSet(hist) /\ \A h \in hist : Op(h)

\* What was measured by the workers in W, and what of it failed.
Weight == IF tool = "kv" THEN 1 ELSE Batch
TimedBy(W) == {h \in hist : (tool = "kv" \/ h.ok) /\ h.op[1] \in W}
FailedBy(W) == {h \in hist : ~h.ok /\ h.op[1] \in W}
Done == {w \in Worker : pc[w] = "done"}

\* Every worker has counted its own, and the shared counters have what the
\* workers that are done had.
LocalInv ==
    \A w \in Worker : /\ localOps[w] = Weight * Cardinality(TimedBy({w}))
                      /\ localErrs[w] = Cardinality(FailedBy({w}))
SharedInv ==
    /\ ops = Weight * Cardinality(TimedBy(Done))
    /\ errs = Cardinality(FailedBy(Done))

\* Nothing is measured behind the result.
ResInv ==
    res # NoResult =>
        /\ Done = Worker
        /\ res.ops = ops /\ res.errs = errs
        /\ res.elapsed \in Nat /\ \A h \in hist : h.end <= WarmDeadline + res.elapsed

\* The places of the workers' lists, and what an operation took.
Places == UNION {{w} \X DOMAIN lat[w] : w \in Worker}
Took(h) == h.end - h.start

\* Every latency in a worker's list is that of one operation, and every operation
\* that is timed has its latency in one place.
MatchInv ==
    \E m \in Bijection(Places, TimedBy(Worker)) :
        \A x \in Places : lat[x[1]][x[2]] = Took(m[x])

\* The workers that are done have published their lists.
PublishInv == \A w \in Worker : pc[w] = "done" => perWorker[w] = lat[w]

\* The list of the result has the latency of every operation once, and is sorted.
ListInv ==
    res # NoResult =>
        LET n == Cardinality(TimedBy(Worker))
        IN  \E g \in Bijection(1..n, TimedBy(Worker)) :
                /\ res.lat = [k \in 1..n |-> Took(g[k])]
                /\ \A a, b \in 1..n : a < b => res.lat[a] <= res.lat[b]

IInv == /\ TypeOK /\ MoreTypes /\ LoopInv /\ HistInv /\ LocalInv /\ SharedInv /\ ResInv
        /\ MatchInv /\ PublishInv /\ ListInv

-----------------------------------------------------------------------------
(* Lemmas *)

\* The times of a run.
LEMMA Times ==
    /\ WarmDeadline \in Nat /\ Deadline \in Nat /\ WarmDeadline <= Deadline
    /\ Horizon \in Nat /\ Deadline < Horizon /\ MaxOps \in Nat /\ Batch \in Nat
BY TimeAssumption, BoundAssumption DEF WarmDeadline, Deadline

\* A set of operations and one more.
LEMMA OneMore ==
    ASSUME NEW S, IsFiniteSet(S), NEW x, x \notin S
    PROVE  /\ IsFiniteSet(S \cup {x}) /\ Cardinality(S) \in Nat
           /\ Cardinality(S \cup {x}) = Cardinality(S) + 1
BY FS_AddElement, FS_CardinalityType

\* The operations of two workers are counted apart.
LEMMA Apart ==
    ASSUME NEW S, IsFiniteSet(S), NEW T, IsFiniteSet(T), S \cap T = {}
    PROVE  /\ Cardinality(S \cup T) = Cardinality(S) + Cardinality(T)
           /\ Cardinality(S) \in Nat /\ Cardinality(T) \in Nat
<1>1. Cardinality(S \cup T) = Cardinality(S) + Cardinality(T) - Cardinality(S \cap T)
  BY FS_Union
<1>2. Cardinality(S \cap T) = 0
  BY FS_EmptySet
<1>3. Cardinality(S) \in Nat /\ Cardinality(T) \in Nat
  BY FS_CardinalityType
<1> QED BY <1>1, <1>2, <1>3

\* What is measured is finite.
LEMMA Finite ==
    ASSUME HistInv, NEW W
    PROVE  /\ IsFiniteSet(TimedBy(W)) /\ Cardinality(TimedBy(W)) \in Nat
           /\ IsFiniteSet(FailedBy(W)) /\ Cardinality(FailedBy(W)) \in Nat
<1>1. IsFiniteSet(hist) /\ TimedBy(W) \in SUBSET hist /\ FailedBy(W) \in SUBSET hist
  BY DEF HistInv, TimedBy, FailedBy
<1>2. IsFiniteSet(TimedBy(W)) /\ IsFiniteSet(FailedBy(W))
  BY <1>1, FS_Subset
<1> QED BY <1>2, FS_CardinalityType

LEMMA WeightType == MoreTypes => Weight \in Nat
BY Times DEF Weight

\* Counting by requests and by points.
LEMMA Distributes ==
    ASSUME NEW a \in Nat, NEW b \in Nat, NEW c \in Nat
    PROVE  a * (b + c) = a * b + a * c /\ a * (b + 1) = a * b + a /\ a * b \in Nat
OBVIOUS

\* The elements of a list that go no later than its k-th when it is sorted.
NotLater(s, n, k) == {j \in 1..n : s[j] < s[k] \/ (s[j] = s[k] /\ j <= k)}

\* Whatever comes before another one has fewer elements up to it.
LEMMA RankOrders ==
    ASSUME NEW n \in Nat, NEW s \in [1..n -> Nat], NEW a \in 1..n, NEW b \in 1..n,
           s[a] < s[b] \/ (s[a] = s[b] /\ a < b)
    PROVE  Cardinality(NotLater(s, n, a)) < Cardinality(NotLater(s, n, b))
<1>1. IsFiniteSet(1..n)
  BY FS_Interval
<1>2. \A j \in 1..n : s[j] \in Nat
  OBVIOUS
<1>3. NotLater(s, n, a) \subseteq NotLater(s, n, b) /\ b \in NotLater(s, n, b) /\ b \notin NotLater(s, n, a)
  BY <1>2 DEF NotLater
<1>4. IsFiniteSet(NotLater(s, n, b)) /\ NotLater(s, n, b) \subseteq 1..n
  BY <1>1, FS_Subset DEF NotLater
<1>5. /\ Cardinality(NotLater(s, n, a)) <= Cardinality(NotLater(s, n, b))
      /\ Cardinality(NotLater(s, n, b)) # Cardinality(NotLater(s, n, a)) /\ IsFiniteSet(NotLater(s, n, a))
  BY <1>3, <1>4, FS_Subset
<1>6. Cardinality(NotLater(s, n, a)) \in Nat /\ Cardinality(NotLater(s, n, b)) \in Nat
  BY <1>4, <1>5, FS_CardinalityType
<1> QED BY <1>5, <1>6

\* Every element of a list has a place of its own in the sorted one.
LEMMA RankIsBijection ==
    ASSUME NEW n \in Nat, NEW s \in [1..n -> Nat]
    PROVE  [k \in 1..n |-> Cardinality(NotLater(s, n, k))] \in Bijection(1..n, 1..n)
<1> DEFINE rank == [k \in 1..n |-> Cardinality(NotLater(s, n, k))]
<1>1. IsFiniteSet(1..n) /\ Cardinality(1..n) = n
  BY FS_Interval
<1>2. ASSUME NEW k \in 1..n PROVE Cardinality(NotLater(s, n, k)) \in 1..n
  <2>1. k \in NotLater(s, n, k) /\ NotLater(s, n, k) \in SUBSET (1..n)
    BY DEF NotLater
  <2>2. IsFiniteSet(NotLater(s, n, k)) /\ Cardinality(NotLater(s, n, k)) <= n
    BY <1>1, <2>1, FS_Subset
  <2>3. Cardinality(NotLater(s, n, k)) \in Nat /\ Cardinality(NotLater(s, n, k)) # 0
    BY <2>1, <2>2, FS_CardinalityType, FS_EmptySet
  <2> QED BY <2>2, <2>3
<1>3. rank \in [1..n -> 1..n]
  BY <1>2
<1>4. ASSUME NEW a \in 1..n, NEW b \in 1..n, rank[a] = rank[b] PROVE a = b
  <2>1. rank[a] \in Nat /\ rank[a] = Cardinality(NotLater(s, n, a)) /\ rank[b] = Cardinality(NotLater(s, n, b))
    BY <1>2
  <2>2. ~(s[a] < s[b]) /\ ~(s[a] = s[b] /\ a < b)
    BY <1>4, <2>1, RankOrders
  <2>3. ~(s[b] < s[a]) /\ ~(s[b] = s[a] /\ b < a)
    BY <1>4, <2>1, RankOrders
  <2>4. s[a] \in Nat /\ s[b] \in Nat
    OBVIOUS
  <2> QED BY <2>2, <2>3, <2>4
<1> HIDE DEF rank
<1>5. rank \in Injection(1..n, 1..n)
  BY <1>3, <1>4, Fun_IsInj
<1>6. rank \in Surjection(1..n, 1..n)
  BY <1>1, <1>5, FS_Injection
<1> QED BY <1>5, <1>6 DEF Bijection, rank

\* Sorting works: the values come in ascending order, and each of them from one
\* place of its own.
LEMMA SortWorks ==
    ASSUME NEW D, IsFiniteSet(D), NEW f \in [D -> Nat]
    PROVE  \E p \in Bijection(1..Cardinality(D), D) :
               /\ Sort(f) = [k \in 1..Cardinality(D) |-> f[p[k]]]
               /\ \A a, b \in 1..Cardinality(D) : a < b => f[p[a]] <= f[p[b]]
<1> DEFINE n == Cardinality(D)
           Sorts(p) == \A a, b \in 1..n : a < b => f[p[a]] <= f[p[b]]
<1>1. n \in Nat /\ ExistsBijection(1..n, D)
  BY FS_CardinalityType
<1>2. PICK g \in Bijection(1..n, D) : TRUE
  BY <1>1 DEF ExistsBijection
<1>3. g \in [1..n -> D]
  BY <1>2, Fun_BijectionProperties
<1> DEFINE s == [k \in 1..n |-> f[g[k]]]
           rank == [k \in 1..n |-> Cardinality(NotLater(s, n, k))]
           inv == Inverse(rank, 1..n, 1..n)
           p0 == [k \in 1..n |-> g[inv[k]]]
<1>4. s \in [1..n -> Nat]
  BY <1>3
<1> HIDE DEF n
<1>5. rank \in Bijection(1..n, 1..n)
  <2> HIDE DEF s
  <2> QED BY <1>1, <1>4, RankIsBijection
<1> HIDE DEF rank
<1>6. inv \in Bijection(1..n, 1..n) /\ \A k \in 1..n : rank[inv[k]] = k
  <2>1. inv \in Bijection(1..n, 1..n) /\ \A k \in 1..n : inv[rank[k]] = k
    BY <1>5, Fun_BijInverse
  <2>2. \A k \in 1..n : \E j \in 1..n : rank[j] = k
    BY <1>5 DEF Bijection, Surjection
  <2> HIDE DEF inv
  <2> QED BY <2>1, <2>2
<1> HIDE DEF inv
<1>7. inv \in [1..n -> 1..n]
  BY <1>6, Fun_BijectionProperties
<1>8. p0 \in Bijection(1..n, D)
  <2>1. inv \in Bijection(1..n, 1..n)
    BY <1>6
  <2> QED BY <1>2, <2>1, Fun_BijTransitive
<1>9. Sorts(p0)
  <2> SUFFICES ASSUME NEW a \in 1..n, NEW b \in 1..n, a < b PROVE f[p0[a]] <= f[p0[b]]
    OBVIOUS
  <2>1. /\ inv[a] \in 1..n /\ inv[b] \in 1..n
        /\ f[p0[a]] = s[inv[a]] /\ f[p0[b]] = s[inv[b]]
    BY <1>7
  <2> HIDE DEF s, p0
  <2>2. Cardinality(NotLater(s, n, inv[a])) = a /\ Cardinality(NotLater(s, n, inv[b])) = b
    BY <1>6, <2>1 DEF rank
  <2>3. ASSUME s[inv[b]] < s[inv[a]] PROVE FALSE
    <3>1. Cardinality(NotLater(s, n, inv[b])) < Cardinality(NotLater(s, n, inv[a]))
      BY <1>1, <1>4, <2>1, <2>3, RankOrders
    <3> QED BY <1>1, <2>2, <3>1
  <2>4. s[inv[a]] \in Nat /\ s[inv[b]] \in Nat
    BY <1>4, <2>1
  <2> QED BY <2>1, <2>3, <2>4
<1> DEFINE p == CHOOSE q \in Bijection(1..n, D) : Sorts(q)
<1> HIDE DEF Sorts
<1>10. p \in Bijection(1..n, D) /\ Sorts(p)
  BY <1>8, <1>9
<1>11. Sort(f) = [k \in 1..n |-> f[p[k]]]
  BY DEF Sort, Sorts, n
<1> HIDE DEF p
<1> QED BY <1>10, <1>11 DEF n, Sorts

\* A matching of two sets matches what belongs together in them.
LEMMA SameCount ==
    ASSUME NEW S, IsFiniteSet(S), NEW T, NEW g \in Bijection(S, T),
           NEW A \in SUBSET S, NEW B \in SUBSET T, \A x \in S : x \in A <=> g[x] \in B
    PROVE  Cardinality(A) = Cardinality(B)
<1> DEFINE h == [x \in A |-> g[x]]
<1>1. /\ g \in [S -> T] /\ \A x, y \in S : g[x] = g[y] => x = y
      /\ \A y \in T : \E x \in S : g[x] = y
  BY DEF Bijection, Injection, Surjection, IsInjective
<1>2. h \in [A -> B]
  BY <1>1
<1>3. \A x, y \in A : h[x] = h[y] => x = y
  BY <1>1
<1>4. \A y \in B : \E x \in A : h[x] = y
  BY <1>1
<1> HIDE DEF h
<1>5. h \in Bijection(A, B)
  BY <1>2, <1>3, <1>4 DEF Bijection, Injection, Surjection, IsInjective
<1>6. IsFiniteSet(A) /\ ExistsBijection(A, B)
  BY <1>5, FS_Subset DEF ExistsBijection
<1> QED BY <1>6, FS_Bijection

\* A matching and one more pair.
LEMMA OneMorePair ==
    ASSUME NEW S, NEW T, NEW m \in Bijection(S, T), NEW x, x \notin S, NEW y, y \notin T
    PROVE  [z \in S \cup {x} |-> IF z = x THEN y ELSE m[z]] \in Bijection(S \cup {x}, T \cup {y})
<1> DEFINE h == [z \in S \cup {x} |-> IF z = x THEN y ELSE m[z]]
<1>1. /\ m \in [S -> T] /\ \A u, v \in S : m[u] = m[v] => u = v
      /\ \A v \in T : \E u \in S : m[u] = v
  BY DEF Bijection, Injection, Surjection, IsInjective
<1>2. h \in [S \cup {x} -> T \cup {y}] /\ h[x] = y /\ \A u \in S : h[u] = m[u] /\ h[u] \in T
  BY <1>1
<1> HIDE DEF h
<1>3. \A u, v \in S \cup {x} : h[u] = h[v] => u = v
  BY <1>1, <1>2
<1>4. \A v \in T \cup {y} : \E u \in S \cup {x} : h[u] = v
  BY <1>1, <1>2
<1>5. h \in Bijection(S \cup {x}, T \cup {y})
  BY <1>2, <1>3, <1>4 DEF Bijection, Injection, Surjection, IsInjective
<1> QED BY <1>5 DEF h

\* Time passes and nothing is measured.
LEMMA HistUntouched ==
    ASSUME IInv, UNCHANGED <<hist, turns>>, clock' \in Nat, clock <= clock'
    PROVE  HistInv'
<1>1. IsFiniteSet(hist')
  BY DEF IInv, HistInv
<1> SUFFICES ASSUME NEW h \in hist' PROVE Op(h)'
  BY <1>1 DEF HistInv
<1>2. Op(h) /\ clock \in Nat
  BY Times DEF IInv, HistInv, TypeOK
<1> QED BY <1>2 DEF Op

\* The counters are left alone.
LEMMA CountsUntouched ==
    ASSUME IInv, UNCHANGED <<tool, hist, localOps, localErrs, ops, errs>>, Done' = Done
    PROVE  LocalInv' /\ SharedInv'
<1>1. Weight' = Weight /\ TimedBy(Done)' = TimedBy(Done) /\ FailedBy(Done)' = FailedBy(Done)
  BY DEF Weight, TimedBy, FailedBy
<1>2. \A w \in Worker : TimedBy({w})' = TimedBy({w}) /\ FailedBy({w})' = FailedBy({w})
  BY DEF TimedBy, FailedBy
<1>3. LocalInv'
  BY <1>1, <1>2 DEF IInv, LocalInv
<1>4. SharedInv'
  BY <1>1 DEF IInv, SharedInv
<1> QED BY <1>3, <1>4

\* The lists and the history are left alone.
LEMMA MatchUntouched ==
    ASSUME IInv, UNCHANGED <<tool, hist, lat>>
    PROVE  MatchInv'
<1>1. TimedBy(Worker)' = TimedBy(Worker) /\ Places' = Places
  BY DEF TimedBy, Places
<1>2. PICK m \in Bijection(Places, TimedBy(Worker)) : \A x \in Places : lat[x[1]][x[2]] = Took(m[x])
  BY DEF IInv, MatchInv
<1>3. m \in Bijection(Places', TimedBy(Worker)') /\ \A x \in Places' : lat'[x[1]][x[2]] = Took(m[x])
  BY <1>1, <1>2
<1> QED BY <1>3 DEF MatchInv, Took

\* The result is left alone.
LEMMA ListUntouched ==
    ASSUME IInv, UNCHANGED <<tool, hist, res>>
    PROVE  ListInv'
<1>1. TimedBy(Worker)' = TimedBy(Worker)
  BY DEF TimedBy
<1> QED BY <1>1 DEF IInv, ListInv, Took

LEMMA InitIInv == Init => IInv
<1> SUFFICES ASSUME Init PROVE IInv
  OBVIOUS
<1>1. 0 \in 0..Horizon /\ 0 \in 0..MaxOps /\ <<>> \in Seq(0..Horizon)
  BY Times
<1>2. TypeOK
  BY <1>1 DEF Init, TypeOK
<1>3. MoreTypes
  BY <1>1 DEF Init, MoreTypes
<1>4. LoopInv
  BY DEF Init, LoopInv
<1>5. HistInv
  BY FS_EmptySet DEF Init, HistInv
<1>6. \A W : TimedBy(W) = {} /\ FailedBy(W) = {}
  BY DEF Init, TimedBy, FailedBy
<1>7. Weight * 0 = 0
  BY <1>3, WeightType
<1>8. LocalInv /\ SharedInv
  BY <1>6, <1>7, FS_EmptySet DEF Init, LocalInv, SharedInv
<1>9. ResInv
  BY DEF Init, ResInv
<1>10. MatchInv
  <2>1. Places = {}
    BY DEF Init, Places
  <2>2. <<>> \in Bijection({}, {})
    BY DEF Bijection, Injection, Surjection, IsInjective
  <2> QED BY <1>6, <2>1, <2>2 DEF MatchInv
<1>11. PublishInv /\ ListInv
  BY DEF Init, PublishInv, ListInv
<1> QED BY <1>2, <1>3, <1>4, <1>5, <1>8, <1>9, <1>10, <1>11 DEF IInv

-----------------------------------------------------------------------------
(* The steps *)

\* The result is there only when no worker is in its loop.
LEMMA NoResultYet ==
    ASSUME IInv, NEW w \in Worker, pc[w] # "done"
    PROVE  res = NoResult
BY DEF IInv, ResInv, Done

LEMMA LoopTopStep ==
    ASSUME IInv, NEW w \in Worker, LoopTop(w)
    PROVE  IInv'
<1>1. /\ pc[w] = "top" /\ res = NoResult
      /\ UNCHANGED <<tool, clock, t0, lat, localOps, localErrs, perWorker, ops, errs, res, turns, hist>>
      /\ \/ clock > Deadline /\ pc' = [pc EXCEPT ![w] = "exit"] /\ now' = now
         \/ /\ clock <= Deadline /\ turns[w] < MaxOps
            /\ pc' = [pc EXCEPT ![w] = "pick"] /\ now' = [now EXCEPT ![w] = clock]
  BY NoResultYet DEF LoopTop
<1>2. /\ pc \in [Worker -> {"top", "pick", "op", "exit", "done"}] /\ now \in [Worker -> 0..Horizon]
      /\ clock \in 0..Horizon
  BY DEF IInv, TypeOK
<1>3. /\ pc' \in [Worker -> {"top", "pick", "op", "exit", "done"}] /\ now' \in [Worker -> 0..Horizon]
      /\ \A v \in Worker \ {w} : pc'[v] = pc[v] /\ now'[v] = now[v]
      /\ \/ pc'[w] = "exit" /\ clock > Deadline
         \/ pc'[w] = "pick" /\ now'[w] = clock /\ clock <= Deadline /\ turns[w] < MaxOps
  BY <1>1, <1>2
<1>4. TypeOK'
  BY <1>1, <1>3 DEF IInv, TypeOK
<1>5. MoreTypes'
  BY <1>1 DEF IInv, MoreTypes
<1>6. LoopInv'
  <2> SUFFICES ASSUME NEW v \in Worker
               PROVE  /\ pc'[v] \in {"pick", "op"} =>
                           turns[v] < MaxOps /\ now'[v] <= Deadline /\ now'[v] <= clock
                      /\ pc'[v] = "op" => now'[v] <= t0[v] /\ t0[v] <= clock
                      /\ pc'[v] \in {"exit", "done"} => clock > Deadline
                      /\ localErrs[v] <= turns[v]
    BY <1>1 DEF LoopInv
  <2>1. CASE v = w
    BY <1>2, <1>3, <2>1, Times DEF IInv, LoopInv
  <2>2. CASE v # w
    BY <1>3, <2>2 DEF IInv, LoopInv
  <2> QED BY <2>1, <2>2
<1>7. HistInv'
  BY <1>1, <1>2, HistUntouched, Times
<1>8. Done' = Done
  BY <1>1, <1>3 DEF Done
<1>9. LocalInv' /\ SharedInv'
  BY <1>1, <1>8, CountsUntouched
<1>10. ResInv'
  BY <1>1 DEF ResInv
<1>11. MatchInv' /\ ListInv'
  BY <1>1, MatchUntouched, ListUntouched
<1>12. PublishInv'
  BY <1>1, <1>3 DEF IInv, PublishInv
<1> QED BY <1>4, <1>5, <1>6, <1>7, <1>9, <1>10, <1>11, <1>12 DEF IInv

LEMMA OpStartStep ==
    ASSUME IInv, NEW w \in Worker, OpStart(w)
    PROVE  IInv'
<1>1. /\ pc[w] = "pick" /\ res = NoResult
      /\ UNCHANGED <<tool, clock, now, lat, localOps, localErrs, perWorker, ops, errs, res, turns, hist>>
      /\ pc' = [pc EXCEPT ![w] = "op"] /\ t0' = [t0 EXCEPT ![w] = clock]
  BY NoResultYet DEF OpStart
<1>2. /\ pc \in [Worker -> {"top", "pick", "op", "exit", "done"}] /\ t0 \in [Worker -> 0..Horizon]
      /\ clock \in 0..Horizon
  BY DEF IInv, TypeOK
<1>3. /\ pc' \in [Worker -> {"top", "pick", "op", "exit", "done"}] /\ t0' \in [Worker -> 0..Horizon]
      /\ \A v \in Worker \ {w} : pc'[v] = pc[v] /\ t0'[v] = t0[v]
      /\ pc'[w] = "op" /\ t0'[w] = clock
  BY <1>1, <1>2
<1>4. TypeOK'
  BY <1>1, <1>3 DEF IInv, TypeOK
<1>5. MoreTypes'
  BY <1>1 DEF IInv, MoreTypes
<1>6. LoopInv'
  <2> SUFFICES ASSUME NEW v \in Worker
               PROVE  /\ pc'[v] \in {"pick", "op"} =>
                           turns[v] < MaxOps /\ now[v] <= Deadline /\ now[v] <= clock
                      /\ pc'[v] = "op" => now[v] <= t0'[v] /\ t0'[v] <= clock
                      /\ pc'[v] \in {"exit", "done"} => clock > Deadline
                      /\ localErrs[v] <= turns[v]
    BY <1>1 DEF LoopInv
  <2>1. CASE v = w
    BY <1>1, <1>2, <1>3, <2>1, Times DEF IInv, LoopInv
  <2>2. CASE v # w
    BY <1>3, <2>2 DEF IInv, LoopInv
  <2> QED BY <2>1, <2>2
<1>7. HistInv'
  BY <1>1, <1>2, HistUntouched, Times
<1>8. Done' = Done
  BY <1>1, <1>3 DEF Done
<1>9. LocalInv' /\ SharedInv'
  BY <1>1, <1>8, CountsUntouched
<1>10. ResInv'
  BY <1>1 DEF ResInv
<1>11. MatchInv' /\ ListInv'
  BY <1>1, MatchUntouched, ListUntouched
<1>12. PublishInv'
  BY <1>1, <1>3 DEF IInv, PublishInv
<1> QED BY <1>4, <1>5, <1>6, <1>7, <1>9, <1>10, <1>11, <1>12 DEF IInv

LEMMA TickStep ==
    ASSUME IInv, Tick
    PROVE  IInv'
<1>1. /\ clock < Horizon /\ clock' = clock + 1
      /\ UNCHANGED <<tool, pc, now, t0, lat, localOps, localErrs, perWorker, ops, errs, res, turns, hist>>
  BY DEF Tick
<1>2. clock \in 0..Horizon
  BY DEF IInv, TypeOK
<1>3. clock' \in 0..Horizon /\ clock' \in Nat /\ clock <= clock'
  BY <1>1, <1>2, Times
<1>4. TypeOK'
  BY <1>1, <1>3 DEF IInv, TypeOK
<1>5. MoreTypes'
  BY <1>1 DEF IInv, MoreTypes
<1>6. LoopInv'
  <2> SUFFICES ASSUME NEW w \in Worker
               PROVE  /\ pc[w] \in {"pick", "op"} =>
                           turns[w] < MaxOps /\ now[w] <= Deadline /\ now[w] <= clock'
                      /\ pc[w] = "op" => now[w] <= t0[w] /\ t0[w] <= clock'
                      /\ pc[w] \in {"exit", "done"} => clock' > Deadline
                      /\ localErrs[w] <= turns[w]
    BY <1>1 DEF LoopInv
  <2>1. now[w] \in Nat /\ t0[w] \in Nat
    BY Times DEF IInv, TypeOK
  <2> QED BY <1>1, <1>2, <2>1, Times DEF IInv, LoopInv
<1>7. HistInv'
  BY <1>1, <1>3, HistUntouched
<1>8. LocalInv' /\ SharedInv'
  BY <1>1, CountsUntouched DEF Done
<1>9. ResInv'
  BY <1>1 DEF IInv, ResInv, Done
<1>10. MatchInv' /\ ListInv'
  BY <1>1, MatchUntouched, ListUntouched
<1>11. PublishInv'
  BY <1>1 DEF IInv, PublishInv
<1> QED BY <1>4, <1>5, <1>6, <1>7, <1>8, <1>9, <1>10, <1>11 DEF IInv

LEMMA WorkerExitStep ==
    ASSUME IInv, NEW w \in Worker, WorkerExit(w)
    PROVE  IInv'
<1>1. /\ pc[w] = "exit" /\ res = NoResult
      /\ UNCHANGED <<tool, clock, now, t0, lat, localOps, localErrs, res, turns, hist>>
      /\ perWorker' = [perWorker EXCEPT ![w] = lat[w]] /\ pc' = [pc EXCEPT ![w] = "done"]
      /\ ops' = ops + localOps[w] /\ errs' = errs + localErrs[w]
  BY NoResultYet DEF WorkerExit
<1>2. /\ pc \in [Worker -> {"top", "pick", "op", "exit", "done"}] /\ clock \in 0..Horizon
      /\ ops \in Nat /\ errs \in Nat /\ localOps[w] \in Nat /\ localErrs[w] \in Nat
  BY Times DEF IInv, TypeOK
<1>3. /\ pc' \in [Worker -> {"top", "pick", "op", "exit", "done"}]
      /\ \A v \in Worker \ {w} : pc'[v] = pc[v]
      /\ pc'[w] = "done"
  BY <1>1, <1>2
<1>4. perWorker' \in [Worker -> Seq(0..Horizon)]
  BY <1>1 DEF IInv, MoreTypes
<1>5. ops' \in Nat /\ errs' \in Nat
  BY <1>1, <1>2
<1>6. TypeOK'
  BY <1>1, <1>3, <1>4, <1>5 DEF IInv, TypeOK
<1>7. MoreTypes'
  BY <1>1, <1>4 DEF IInv, MoreTypes
<1>8. LoopInv'
  <2> SUFFICES ASSUME NEW v \in Worker
               PROVE  /\ pc'[v] \in {"pick", "op"} =>
                           turns[v] < MaxOps /\ now[v] <= Deadline /\ now[v] <= clock
                      /\ pc'[v] = "op" => now[v] <= t0[v] /\ t0[v] <= clock
                      /\ pc'[v] \in {"exit", "done"} => clock > Deadline
                      /\ localErrs[v] <= turns[v]
    BY <1>1 DEF LoopInv
  <2>1. CASE v = w
    BY <1>1, <1>3, <2>1 DEF IInv, LoopInv
  <2>2. CASE v # w
    BY <1>3, <2>2 DEF IInv, LoopInv
  <2> QED BY <2>1, <2>2
<1>9. HistInv'
  BY <1>1, <1>2, HistUntouched, Times
<1>10. /\ Weight' = Weight
       /\ \A v \in Worker : TimedBy({v})' = TimedBy({v}) /\ FailedBy({v})' = FailedBy({v})
  BY <1>1 DEF Weight, TimedBy, FailedBy
<1>11. LocalInv'
  BY <1>1, <1>10 DEF IInv, LocalInv
<1>12. Done' = Done \cup {w} /\ w \notin Done
  BY <1>1, <1>2, <1>3 DEF Done
<1>13. /\ TimedBy(Done)' = TimedBy(Done) \cup TimedBy({w}) /\ TimedBy(Done) \cap TimedBy({w}) = {}
       /\ FailedBy(Done)' = FailedBy(Done) \cup FailedBy({w}) /\ FailedBy(Done) \cap FailedBy({w}) = {}
  BY <1>1, <1>12 DEF TimedBy, FailedBy
<1>14. HistInv
  BY DEF IInv
<1>15. Cardinality(TimedBy(Done)') = Cardinality(TimedBy(Done)) + Cardinality(TimedBy({w}))
  BY <1>13, <1>14, Finite, Apart
<1>16. Cardinality(FailedBy(Done)') = Cardinality(FailedBy(Done)) + Cardinality(FailedBy({w}))
  BY <1>13, <1>14, Finite, Apart
<1>17. /\ Weight \in Nat
       /\ Cardinality(TimedBy(Done)) \in Nat /\ Cardinality(TimedBy({w})) \in Nat
  BY <1>14, Finite, WeightType DEF IInv
<1>18. Weight * Cardinality(TimedBy(Done)')
         = Weight * Cardinality(TimedBy(Done)) + Weight * Cardinality(TimedBy({w}))
  BY <1>15, <1>17, Distributes
<1>19. SharedInv'
  BY <1>1, <1>10, <1>16, <1>18 DEF IInv, SharedInv, LocalInv
<1>20. ResInv'
  BY <1>1 DEF ResInv
<1>21. MatchInv' /\ ListInv'
  BY <1>1, MatchUntouched, ListUntouched
<1>22. PublishInv'
  <2> SUFFICES ASSUME NEW v \in Worker, pc'[v] = "done" PROVE perWorker'[v] = lat[v]
    BY <1>1 DEF PublishInv
  <2>1. perWorker \in [Worker -> Seq(0..Horizon)]
    BY DEF IInv, MoreTypes
  <2>2. CASE v = w
    BY <1>1, <2>1, <2>2
  <2>3. CASE v # w
    <3>1. pc[v] = "done" /\ perWorker'[v] = perWorker[v]
      BY <1>1, <1>3, <2>1, <2>3
    <3> QED BY <3>1 DEF IInv, PublishInv
  <2> QED BY <2>2, <2>3
<1> QED BY <1>6, <1>7, <1>8, <1>9, <1>11, <1>19, <1>20, <1>21, <1>22 DEF IInv

\* Sorting the matched latencies, whichever list each of them is in.
LEMMA SortedResult ==
    ASSUME IInv, res'.lat = Sort([x \in Places |-> lat[x[1]][x[2]]]), UNCHANGED <<tool, hist>>
    PROVE  ListInv'
<1> DEFINE T == TimedBy(Worker)
           f == [x \in Places |-> lat[x[1]][x[2]]]
           n == Cardinality(T)
<1>1. PICK m \in Bijection(Places, T) : \A x \in Places : f[x] = Took(m[x])
  BY DEF IInv, MatchInv
<1>2. m \in [Places -> T] /\ \A h \in T : Took(h) \in Nat
  <2>1. \A h \in T : h \in hist
    BY DEF TimedBy
  <2> QED BY <1>1, <2>1 DEF IInv, HistInv, Op, Took, Bijection, Injection
<1>3. f \in [Places -> Nat]
  BY <1>1, <1>2
<1>4. IsFiniteSet(T)
  BY Finite DEF IInv
<1> HIDE DEF T, f
<1>5. IsFiniteSet(Places) /\ Cardinality(Places) = n
  <2>1. m \in Injection(Places, T) /\ m \in Surjection(Places, T)
    BY <1>1 DEF Bijection
  <2> QED BY <1>4, <2>1, FS_Injection
<1>6. PICK p \in Bijection(1..n, Places) :
          /\ Sort(f) = [k \in 1..n |-> f[p[k]]]
          /\ \A a, b \in 1..n : a < b => f[p[a]] <= f[p[b]]
  BY <1>3, <1>5, SortWorks
<1> HIDE DEF n
<1> DEFINE g == [k \in 1..n |-> m[p[k]]]
<1>7. g \in Bijection(1..n, T)
  <2>1. m \in Bijection(Places, T) /\ p \in Bijection(1..n, Places)
    BY <1>1, <1>6
  <2> QED BY <2>1, Fun_BijTransitive
<1>8. \A k \in 1..n : p[k] \in Places
  BY <1>6 DEF Bijection, Injection
<1>9. Sort(f) = [k \in 1..n |-> Took(g[k])]
  BY <1>1, <1>6, <1>8
<1>10. \A a, b \in 1..n : a < b => Sort(f)[a] <= Sort(f)[b]
  BY <1>6
<1>11. T' = T /\ res'.lat = Sort(f)
  BY DEF T, TimedBy, f
<1> HIDE DEF g
<1> QED BY <1>7, <1>9, <1>10, <1>11 DEF ListInv, n, T, Took

LEMMA CollectStep ==
    ASSUME IInv, Collect
    PROVE  IInv'
<1>1. /\ res' = [ops |-> ops, errs |-> errs, elapsed |-> clock - WarmDeadline,
                 lat |-> Sort(merged)]
      /\ \A w \in Worker : pc[w] = "done"
      /\ UNCHANGED <<tool, clock, pc, now, t0, lat, localOps, localErrs, perWorker, ops, errs, turns, hist>>
  BY DEF Collect
<1>2. res'.ops = ops /\ res'.errs = errs /\ res'.elapsed = clock - WarmDeadline
  BY <1>1
<1>3. PICK w \in Worker : pc[w] = "done"
  BY <1>1, WorkerAssumption
<1>4. clock \in 0..Horizon /\ clock > Deadline
  BY <1>3 DEF IInv, TypeOK, LoopInv
<1>5. res'.elapsed \in 0..Horizon /\ res'.elapsed \in Nat /\ WarmDeadline + res'.elapsed = clock
  BY <1>2, <1>4, Times
<1>6. TypeOK'
  BY <1>1, <1>5 DEF IInv, TypeOK
<1>7. MoreTypes' /\ LoopInv'
  BY <1>1 DEF IInv, MoreTypes, LoopInv
<1>8. HistInv'
  <2>1. clock' = clock
    BY <1>1
  <2>2. clock \in Nat /\ clock <= clock
    BY <1>4, Times
  <2> QED BY <1>1, <2>1, <2>2, HistUntouched
<1>9. LocalInv' /\ SharedInv'
  BY <1>1, CountsUntouched DEF Done
<1>10. ResInv'
  <2>1. Done' = Worker
    BY <1>1 DEF Done
  <2>2. \A h \in hist' : h.end <= WarmDeadline + res'.elapsed
    BY <1>1, <1>5 DEF IInv, HistInv, Op
  <2> QED BY <1>1, <1>2, <1>5, <2>1, <2>2 DEF ResInv
<1>11. MatchInv' /\ PublishInv'
  BY <1>1, MatchUntouched DEF IInv, PublishInv
<1>12. ListInv'
  <2>1. res'.lat = Sort(merged)
    BY <1>1
  <2>2. merged = [x \in Places |-> lat[x[1]][x[2]]]
    <3>1. perWorker \in [Worker -> Seq(0..Horizon)] /\ lat \in [Worker -> Seq(0..Horizon)]
      BY DEF IInv, MoreTypes
    <3>2. perWorker = lat
      BY <1>1, <3>1 DEF IInv, PublishInv
    <3> QED BY <3>2 DEF merged, Places
  <2> QED BY <1>1, <2>1, <2>2, SortedResult DEF IInv, HistInv
<1> QED BY <1>6, <1>7, <1>8, <1>9, <1>10, <1>11, <1>12 DEF IInv

\* What an operation leaves behind: one more in hist, or nothing before the warmup.
Entry(w, ok) == [op |-> <<w, turns[w]>>, ok |-> ok, top |-> now[w], start |-> t0[w], end |-> clock]

LEMMA EntryIsNew ==
    ASSUME IInv, NEW w \in Worker, pc[w] = "op", NEW ok \in BOOLEAN
    PROVE  Entry(w, ok) \notin hist
<1> SUFFICES ASSUME Entry(w, ok) \in hist PROVE FALSE
  OBVIOUS
<1>1. Entry(w, ok).op = <<w, turns[w]>>
  BY DEF Entry
<1>2. Entry(w, ok).op[2] < turns[Entry(w, ok).op[1]]
  BY DEF IInv, HistInv, Op
<1>3. turns[w] < turns[w] /\ turns[w] \in Nat
  BY <1>1, <1>2, Times DEF IInv, MoreTypes
<1> QED BY <1>3

\* A list that grows has one place more.
LEMMA NewPlace ==
    ASSUME NEW w \in Worker, NEW n \in Nat, DOMAIN lat[w] = 1..n, DOMAIN lat'[w] = 1..(n + 1),
           \A v \in Worker \ {w} : lat'[v] = lat[v]
    PROVE  Places' = Places \cup {<<w, n + 1>>} /\ <<w, n + 1>> \notin Places
<1>1. 1..(n + 1) = (1..n) \cup {n + 1} /\ n + 1 \notin 1..n
  OBVIOUS
<1>2. {w} \X DOMAIN lat'[w] = ({w} \X DOMAIN lat[w]) \cup {<<w, n + 1>>}
  BY <1>1
<1>3. \A v \in Worker \ {w} : {v} \X DOMAIN lat'[v] = {v} \X DOMAIN lat[v]
  OBVIOUS
<1>4. <<w, n + 1>> \notin Places
  BY <1>1 DEF Places
<1>5. ASSUME NEW x PROVE x \in Places' <=> x \in Places \cup {<<w, n + 1>>}
  BY <1>2, <1>3 DEF Places
<1> QED BY <1>4, <1>5

LEMMA OpEndStep ==
    ASSUME IInv, NEW w \in Worker, OpEnd(w)
    PROVE  IInv'
<1>1. PICK ok \in BOOLEAN :
        /\ \/ ~Measured(w) /\ UNCHANGED <<lat, localOps, localErrs>>
           \/ Measured(w) /\ tool = "kv" /\ CountKv(w, ok, clock - t0[w])
           \/ Measured(w) /\ tool = "vec" /\ CountVec(w, ok, clock - t0[w])
        /\ hist' = IF now[w] <= WarmDeadline THEN hist ELSE hist \cup {Entry(w, ok)}
  BY DEF OpEnd, Entry
<1>2. /\ pc[w] = "op" /\ res = NoResult
      /\ turns' = [turns EXCEPT ![w] = @ + 1]
      /\ now' = [now EXCEPT ![w] = 0] /\ t0' = [t0 EXCEPT ![w] = 0]
      /\ pc' = [pc EXCEPT ![w] = "top"]
      /\ UNCHANGED <<tool, clock, perWorker, ops, errs, res>>
  BY NoResultYet DEF OpEnd
<1>3. /\ pc \in [Worker -> {"top", "pick", "op", "exit", "done"}]
      /\ now \in [Worker -> 0..Horizon] /\ t0 \in [Worker -> 0..Horizon]
      /\ lat \in [Worker -> Seq(0..Horizon)]
      /\ localOps \in [Worker -> Nat] /\ localErrs \in [Worker -> 0..MaxOps]
      /\ turns \in [Worker -> 0..MaxOps] /\ tool \in {"kv", "vec"} /\ clock \in 0..Horizon
  BY DEF IInv, TypeOK, MoreTypes
<1>4. /\ turns[w] < MaxOps /\ now[w] <= Deadline /\ now[w] <= t0[w] /\ t0[w] <= clock
      /\ localErrs[w] <= turns[w]
  BY <1>2 DEF IInv, LoopInv
<1>5. /\ pc' \in [Worker -> {"top", "pick", "op", "exit", "done"}]
      /\ now' \in [Worker -> 0..Horizon] /\ t0' \in [Worker -> 0..Horizon]
      /\ \A v \in Worker \ {w} : pc'[v] = pc[v] /\ now'[v] = now[v] /\ t0'[v] = t0[v]
      /\ pc'[w] = "top"
  BY <1>2, <1>3, Times
<1>6. /\ turns' \in [Worker -> 0..MaxOps]
      /\ \A v \in Worker \ {w} : turns'[v] = turns[v]
      /\ turns'[w] = turns[w] + 1
  BY <1>2, <1>3, <1>4, Times
<1>7. Done' = Done
  BY <1>2, <1>3, <1>5 DEF Done
<1>8. clock - t0[w] \in 0..Horizon
  BY <1>3, <1>4, Times
<1>9. now[w] > WarmDeadline <=> ~(now[w] <= WarmDeadline)
  BY <1>3, Times
\* The worker's own counters, in each of the cases.
<1> DEFINE counted == Measured(w) /\ (tool = "kv" \/ ok)
           failed == Measured(w) /\ ~ok
<1>10. /\ localOps' = [localOps EXCEPT ![w] = IF counted THEN @ + Weight ELSE @]
       /\ localErrs' = [localErrs EXCEPT ![w] = IF failed THEN @ + 1 ELSE @]
       /\ lat' = [lat EXCEPT ![w] = IF counted THEN Append(@, clock - t0[w]) ELSE @]
  <2>1. CASE ~Measured(w)
    BY <1>1, <1>3, <2>1
  <2>2. CASE Measured(w) /\ tool = "kv"
    BY <1>1, <1>3, <2>2 DEF CountKv, Weight
  <2>3. CASE Measured(w) /\ tool = "vec"
    BY <1>1, <1>3, <2>3 DEF CountVec, Weight
  <2> QED BY <1>3, <2>1, <2>2, <2>3
<1>11. Weight \in Nat /\ Weight' = Weight
  BY <1>2, WeightType DEF IInv, Weight
<1>12. lat' \in [Worker -> Seq(0..Horizon)]
  <2>1. lat[w] \in Seq(0..Horizon)
    BY <1>3
  <2>2. Append(lat[w], clock - t0[w]) \in Seq(0..Horizon)
    BY <1>8, <2>1
  <2> HIDE DEF counted
  <2> QED BY <1>3, <1>10, <2>1, <2>2
<1>13. /\ localOps' \in [Worker -> Nat]
       /\ \A v \in Worker \ {w} : localOps'[v] = localOps[v]
       /\ localOps'[w] = IF counted THEN localOps[w] + Weight ELSE localOps[w]
  <2> HIDE DEF counted, failed, Weight
  <2>1. localOps[w] \in Nat /\ localOps[w] + Weight \in Nat
    BY <1>3, <1>11
  <2> QED BY <1>3, <1>10, <2>1
<1>14. /\ localErrs' \in [Worker -> 0..MaxOps]
       /\ \A v \in Worker \ {w} : localErrs'[v] = localErrs[v]
       /\ localErrs'[w] = IF failed THEN localErrs[w] + 1 ELSE localErrs[w]
       /\ localErrs'[w] <= turns'[w]
  <2> HIDE DEF counted, failed
  <2>1. localErrs[w] \in 0..MaxOps /\ localErrs[w] + 1 \in 0..MaxOps /\ turns[w] \in Nat
    BY <1>3, <1>4, Times
  <2>2. localErrs[w] <= turns'[w] /\ localErrs[w] + 1 <= turns'[w]
    BY <1>4, <1>6, <2>1, Times
  <2> QED BY <1>3, <1>10, <2>1, <2>2
<1>15. TypeOK'
  BY <1>2, <1>5, <1>12, <1>13, <1>14 DEF IInv, TypeOK, MoreTypes
<1>16. MoreTypes'
  BY <1>2, <1>6, <1>12 DEF IInv, MoreTypes
<1>17. LoopInv'
  <2> SUFFICES ASSUME NEW v \in Worker
               PROVE  /\ pc'[v] \in {"pick", "op"} =>
                           turns'[v] < MaxOps /\ now'[v] <= Deadline /\ now'[v] <= clock
                      /\ pc'[v] = "op" => now'[v] <= t0'[v] /\ t0'[v] <= clock
                      /\ pc'[v] \in {"exit", "done"} => clock > Deadline
                      /\ localErrs'[v] <= turns'[v]
    BY <1>2 DEF LoopInv
  <2>1. CASE v = w
    BY <1>5, <1>14, <2>1
  <2>2. CASE v # w
    BY <1>5, <1>6, <1>14, <2>2 DEF IInv, LoopInv
  <2> QED BY <2>1, <2>2
<1>18. HistInv'
  <2>1. IsFiniteSet(hist) /\ \A h \in hist : Op(h)
    BY DEF IInv, HistInv
  <2>2. IsFiniteSet(hist')
    BY <1>1, <2>1, FS_AddElement
  <2>3. \A h \in hist : Op(h)'
    <3> SUFFICES ASSUME NEW h \in hist PROVE Op(h)'
      OBVIOUS
    <3>1. Op(h) /\ h.op \in Worker \X Nat /\ h.op[2] < turns[h.op[1]]
      BY <2>1 DEF Op
    <3>2. h.op[1] \in Worker /\ h.op[2] \in Nat
      BY <3>1
    <3>3. turns[h.op[1]] <= turns'[h.op[1]] /\ turns[h.op[1]] \in Nat /\ turns'[h.op[1]] \in Nat
      <4>1. \A v \in Worker : turns[v] \in Nat /\ turns'[v] \in Nat
        BY <1>3, <1>6, Times
      <4>2. \A v \in Worker : turns[v] <= turns'[v]
        BY <1>6, <4>1
      <4> QED BY <3>2, <4>1, <4>2
    <3>4. h.op[2] < turns'[h.op[1]]
      BY <3>1, <3>2, <3>3
    <3> QED BY <1>2, <3>1, <3>4 DEF Op
  <2>4. CASE now[w] <= WarmDeadline
    BY <1>1, <2>2, <2>3, <2>4 DEF HistInv
  <2>5. CASE ~(now[w] <= WarmDeadline)
    <3>1. hist' = hist \cup {Entry(w, ok)}
      BY <1>1, <2>5
    <3>2. /\ Entry(w, ok).op = <<w, turns[w]>> /\ Entry(w, ok).ok = ok /\ Entry(w, ok).top = now[w]
          /\ Entry(w, ok).start = t0[w] /\ Entry(w, ok).end = clock
      BY DEF Entry
    <3>3. now[w] \in Nat /\ t0[w] \in Nat /\ clock \in Nat /\ turns[w] \in Nat /\ turns[w] < turns'[w]
      BY <1>3, <1>6, Times
    <3>4. WarmDeadline < now[w]
      BY <1>9, <2>5, <3>3, Times
    <3>5. ASSUME NEW h, h = Entry(w, ok) PROVE Op(h)'
      <4>1. <<w, turns[w]>> \in Worker \X Nat /\ <<w, turns[w]>>[2] < turns'[<<w, turns[w]>>[1]]
        BY <3>3
      <4> QED BY <1>2, <1>4, <3>2, <3>3, <3>4, <3>5, <4>1 DEF Op
    <3> QED BY <2>2, <2>3, <3>1, <3>5 DEF HistInv
  <2> QED BY <2>4, <2>5
\* The sets of operations grow by the entry, or not at all.
<1>19. HistInv
  BY DEF IInv
<1>20. Entry(w, ok) \notin hist
  BY <1>2, EntryIsNew
<1>21. Entry(w, ok).op[1] = w /\ Entry(w, ok).ok = ok
  BY DEF Entry
<1>22. \A W : /\ w \notin W => TimedBy(W)' = TimedBy(W) /\ FailedBy(W)' = FailedBy(W)
              /\ w \in W => /\ TimedBy(W)' = IF counted THEN TimedBy(W) \cup {Entry(w, ok)} ELSE TimedBy(W)
                            /\ FailedBy(W)' = IF failed THEN FailedBy(W) \cup {Entry(w, ok)} ELSE FailedBy(W)
  <2>1. CASE ~Measured(w)
    BY <1>1, <1>2, <1>9, <2>1 DEF TimedBy, FailedBy, Measured
  <2>2. CASE Measured(w)
    <3>1. hist' = hist \cup {Entry(w, ok)}
      BY <1>1, <1>9, <2>2 DEF Measured
    <3> QED BY <1>2, <1>21, <2>2, <3>1 DEF TimedBy, FailedBy
  <2> QED BY <2>1, <2>2
<1>23. LocalInv'
  <2> SUFFICES ASSUME NEW v \in Worker
               PROVE  /\ localOps'[v] = Weight * Cardinality(TimedBy({v})')
                      /\ localErrs'[v] = Cardinality(FailedBy({v})')
    BY <1>11 DEF LocalInv
  <2>1. CASE v # w
    <3>1. TimedBy({v})' = TimedBy({v}) /\ FailedBy({v})' = FailedBy({v})
      BY <1>22, <2>1
    <3> QED BY <1>13, <1>14, <2>1, <3>1 DEF IInv, LocalInv
  <2>2. CASE v = w
    <3>1. /\ TimedBy({w})' = IF counted THEN TimedBy({w}) \cup {Entry(w, ok)} ELSE TimedBy({w})
          /\ FailedBy({w})' = IF failed THEN FailedBy({w}) \cup {Entry(w, ok)} ELSE FailedBy({w})
      BY <1>22
    <3>2. Entry(w, ok) \notin TimedBy({w}) /\ Entry(w, ok) \notin FailedBy({w})
      BY <1>20 DEF TimedBy, FailedBy
    <3>3. /\ Cardinality(TimedBy({w}) \cup {Entry(w, ok)}) = Cardinality(TimedBy({w})) + 1
          /\ Cardinality(TimedBy({w})) \in Nat
      BY <1>19, <3>2, Finite, OneMore
    <3>4. Cardinality(FailedBy({w}) \cup {Entry(w, ok)}) = Cardinality(FailedBy({w})) + 1
      BY <1>19, <3>2, Finite, OneMore
    <3>5. Weight * Cardinality(TimedBy({w}) \cup {Entry(w, ok)})
            = Weight * Cardinality(TimedBy({w})) + Weight
      BY <1>11, <3>3, Distributes
    <3>6. /\ localOps[w] = Weight * Cardinality(TimedBy({w}))
          /\ localErrs[w] = Cardinality(FailedBy({w}))
      BY DEF IInv, LocalInv
    <3> HIDE DEF counted, failed
    <3>7. localOps'[w] = Weight * Cardinality(TimedBy({w})')
      BY <1>13, <3>1, <3>5, <3>6
    <3>8. localErrs'[w] = Cardinality(FailedBy({w})')
      BY <1>14, <3>1, <3>4, <3>6
    <3> QED BY <2>2, <3>7, <3>8
  <2> QED BY <2>1, <2>2
<1>24. SharedInv'
  <2>1. w \notin Done
    BY <1>2 DEF Done
  <2>2. TimedBy(Done)' = TimedBy(Done) /\ FailedBy(Done)' = FailedBy(Done)
    BY <1>7, <1>22, <2>1 DEF TimedBy, FailedBy
  <2> QED BY <1>2, <1>11, <2>2 DEF IInv, SharedInv
<1>25. ResInv' /\ ListInv'
  BY <1>2 DEF ResInv, ListInv
<1>26. PublishInv'
  <2> SUFFICES ASSUME NEW v \in Worker, pc'[v] = "done" PROVE perWorker[v] = lat'[v]
    BY <1>2 DEF PublishInv
  <2>1. v # w /\ pc[v] = "done"
    BY <1>5
  <2>2. lat'[v] = lat[v]
    BY <1>3, <1>10, <2>1
  <2> QED BY <2>1, <2>2 DEF IInv, PublishInv
\* The matching, with the new latency and its operation.
<1>27. MatchInv'
  <2>1. PICK m \in Bijection(Places, TimedBy(Worker)) : \A x \in Places : lat[x[1]][x[2]] = Took(m[x])
    BY DEF IInv, MatchInv
  <2>2. TimedBy(Worker)' = IF counted THEN TimedBy(Worker) \cup {Entry(w, ok)} ELSE TimedBy(Worker)
    BY <1>22
  <2> HIDE DEF counted
  <2>3. CASE ~counted
    <3>1. lat' = lat
      BY <1>3, <1>10, <2>3
    <3>2. Places' = Places /\ TimedBy(Worker)' = TimedBy(Worker)
      BY <2>2, <2>3, <3>1 DEF Places
    <3> QED BY <2>1, <3>1, <3>2 DEF MatchInv, Took
  <2>4. CASE counted
    <3> DEFINE x0 == <<w, Len(lat[w]) + 1>>
               e == Entry(w, ok)
               h == [z \in Places \cup {x0} |-> IF z = x0 THEN e ELSE m[z]]
    <3>1. lat'[w] = Append(lat[w], clock - t0[w]) /\ \A v \in Worker \ {w} : lat'[v] = lat[v]
      BY <1>3, <1>10, <2>4
    <3>2. lat[w] \in Seq(0..Horizon) /\ Len(lat[w]) \in Nat
      BY <1>3
    <3>3. /\ DOMAIN lat[w] = 1..Len(lat[w]) /\ DOMAIN lat'[w] = 1..(Len(lat[w]) + 1)
          /\ lat'[w][Len(lat[w]) + 1] = clock - t0[w]
          /\ \A j \in DOMAIN lat[w] : lat'[w][j] = lat[w][j]
      BY <1>8, <3>1, <3>2
    <3>4. Places' = Places \cup {x0} /\ x0 \notin Places
      BY <3>1, <3>2, <3>3, NewPlace
    <3>5. e \notin TimedBy(Worker) /\ TimedBy(Worker)' = TimedBy(Worker) \cup {e}
      BY <1>20, <2>2, <2>4 DEF TimedBy
    <3>6. Took(e) = clock - t0[w]
      BY DEF Entry, Took
    <3>7. ASSUME NEW x \in Places PROVE lat'[x[1]][x[2]] = Took(m[x])
      <4>1. PICK v \in Worker : x \in {v} \X DOMAIN lat[v]
        BY DEF Places
      <4>2. x[1] = v /\ x[2] \in DOMAIN lat[v] /\ lat[v][x[2]] = Took(m[x])
        BY <2>1, <4>1
      <4> QED BY <3>1, <3>3, <4>2
    <3> HIDE DEF e
    <3>8. h \in Bijection(Places \cup {x0}, TimedBy(Worker) \cup {e})
      BY <2>1, <3>4, <3>5, OneMorePair
    <3>9. ASSUME NEW x \in Places' PROVE lat'[x[1]][x[2]] = Took(h[x])
      <4>1. CASE x = x0
        <5>1. lat'[x0[1]][x0[2]] = clock - t0[w]
          BY <3>3
        <5> QED BY <3>4, <3>6, <4>1, <5>1
      <4>2. CASE x # x0
        <5>1. x \in Places /\ h[x] = m[x]
          BY <3>4, <3>9, <4>2
        <5> QED BY <3>7, <5>1
      <4> QED BY <4>1, <4>2
    <3> HIDE DEF h
    <3>10. h \in Bijection(Places', TimedBy(Worker)')
      BY <3>4, <3>5, <3>8
    <3> QED BY <3>9, <3>10 DEF MatchInv, Took
  <2> QED BY <2>3, <2>4
<1> QED BY <1>15, <1>16, <1>17, <1>18, <1>23, <1>24, <1>25, <1>26, <1>27 DEF IInv

LEMMA Stutter ==
    ASSUME IInv, UNCHANGED vars
    PROVE  IInv'
<1>1. TypeOK' /\ MoreTypes' /\ LoopInv'
  BY DEF vars, IInv, TypeOK, MoreTypes, LoopInv
<1>2. HistInv'
  BY DEF vars, IInv, HistInv, Op
<1>3. LocalInv' /\ SharedInv'
  BY CountsUntouched DEF vars, Done
<1>4. ResInv'
  BY DEF vars, IInv, ResInv, Done
<1>5. MatchInv' /\ PublishInv' /\ ListInv'
  BY MatchUntouched, ListUntouched DEF vars, IInv, PublishInv
<1> QED BY <1>1, <1>2, <1>3, <1>4, <1>5 DEF IInv

-----------------------------------------------------------------------------
(* The theorems *)

\* Every step keeps the invariant.
THEOREM InvariantHolds == Spec => []IInv
<1>1. IInv /\ [Next]_vars => IInv'
  <2> SUFFICES ASSUME IInv, [Next]_vars PROVE IInv'
    OBVIOUS
  <2>1. ASSUME NEW w \in Worker, Loop(w) \/ OpEnd(w) PROVE IInv'
    BY <2>1, LoopTopStep, OpStartStep, OpEndStep, WorkerExitStep DEF Loop
  <2>2. CASE Collect
    BY <2>2, CollectStep
  <2>3. CASE Tick
    BY <2>3, TickStep
  <2>4. CASE Finished \/ UNCHANGED vars
    BY <2>4, Stutter DEF Finished
  <2> QED BY <2>1, <2>2, <2>3, <2>4 DEF Next
<1> QED BY <1>1, InitIInv, PTL DEF Spec

\* The loop, its counters and its clock stay in their types: no elapsed time is
\* negative, and no latency.
THEOREM TypeCorrect == Spec => []TypeOK
<1>1. IInv => TypeOK
  BY DEF IInv
<1> QED BY <1>1, InvariantHolds, PTL

\* The time run() divides by covers every operation it counted.
THEOREM ElapsedCoversAll == Spec => []ElapsedCovers
<1>1. IInv => ElapsedCovers
  <2> SUFFICES ASSUME IInv, res # NoResult, NEW h \in InWindow
               PROVE  h.start >= WarmDeadline /\ h.end <= WarmDeadline + res.elapsed
    BY DEF ElapsedCovers
  <2>1. h \in hist /\ Op(h)
    BY DEF InWindow, IInv, HistInv
  <2>2. h.end <= WarmDeadline + res.elapsed
    BY <2>1 DEF IInv, ResInv
  <2>3. h.start >= WarmDeadline
    BY <2>1, Times DEF Op
  <2> QED BY <2>2, <2>3
<1> QED BY <1>1, InvariantHolds, PTL

\* What the tool times is what the workers have in their lists.
LEMMA TimedIs ==
    ASSUME IInv
    PROVE  TimedBy(Worker) = Timed /\ FailedBy(Worker) = {h \in InWindow : ~h.ok}
<1>1. \A h \in hist : h.top <= Deadline /\ h.op[1] \in Worker
  BY DEF IInv, HistInv, Op
<1> QED BY <1>1 DEF TimedBy, FailedBy, Timed, InWindow

\* The list of the result: one latency for each operation, in ascending order.
LEMMA ResultList ==
    ASSUME IInv, res # NoResult
    PROVE  /\ Len(res.lat) = Cardinality(Timed) /\ Len(res.lat) \in Nat
           /\ res.lat \in [1..Len(res.lat) -> Nat]
           /\ \A a, b \in 1..Len(res.lat) : a < b => res.lat[a] <= res.lat[b]
           /\ \E g \in Bijection(1..Len(res.lat), Timed) :
                 \A k \in 1..Len(res.lat) : res.lat[k] = Took(g[k])
<1> DEFINE n == Cardinality(Timed)
<1>1. n \in Nat
  BY Finite, TimedIs DEF IInv
<1>2. PICK g \in Bijection(1..n, Timed) :
        /\ res.lat = [k \in 1..n |-> Took(g[k])]
        /\ \A a, b \in 1..n : a < b => res.lat[a] <= res.lat[b]
  BY TimedIs DEF IInv, ListInv
<1>3. \A k \in 1..n : Took(g[k]) \in Nat
  <2>1. \A k \in 1..n : g[k] \in hist
    BY <1>2 DEF Bijection, Injection, Timed, InWindow
  <2> QED BY <2>1 DEF IInv, HistInv, Op, Took
<1> HIDE DEF n
<1>4. res.lat \in Seq(Nat) /\ Len(res.lat) = n /\ res.lat \in [1..n -> Nat]
  BY <1>1, <1>2, <1>3
<1>5. \A k \in 1..n : res.lat[k] = Took(g[k])
  BY <1>2
<1> QED BY <1>1, <1>2, <1>4, <1>5 DEF n

\* Nothing is lost or counted twice between the workers and the result, however many
\* workers there are and however they interleave: no operation, no error and not one
\* of the latencies that are merged and sorted.
THEOREM CountsAreExact == Spec => []CountsAgree
<1>1. IInv => OpsAgree
  <2> SUFFICES ASSUME IInv, res # NoResult
               PROVE  /\ res.ops = Weight * Cardinality(Timed)
                      /\ res.errs = Cardinality({h \in InWindow : ~h.ok})
    BY DEF OpsAgree, Weight
  <2>1. Done = Worker /\ res.ops = ops /\ res.errs = errs
    BY DEF IInv, ResInv
  <2> QED BY <2>1, TimedIs DEF IInv, SharedInv
<1>2. IInv => CountsAgree
  <2> SUFFICES ASSUME IInv, res # NoResult
               PROVE  /\ \A d \in 0..Horizon :
                            Cardinality({k \in 1..Len(res.lat) : res.lat[k] = d})
                              = Cardinality({h \in Timed : h.end - h.start = d})
                      /\ Len(res.lat) = Cardinality(Timed)
    BY <1>1 DEF CountsAgree
  <2>1. PICK g \in Bijection(1..Len(res.lat), Timed) :
          \A k \in 1..Len(res.lat) : res.lat[k] = Took(g[k])
    BY ResultList
  <2>2. ASSUME NEW d \in 0..Horizon
        PROVE  Cardinality({k \in 1..Len(res.lat) : res.lat[k] = d})
                 = Cardinality({h \in Timed : h.end - h.start = d})
    <3> DEFINE S == 1..Len(res.lat)
               A == {k \in S : res.lat[k] = d}
               B == {h \in Timed : h.end - h.start = d}
    <3>1. IsFiniteSet(S) /\ A \in SUBSET S /\ B \in SUBSET Timed
      BY ResultList, FS_Interval
    <3>2. \A k \in S : g[k] \in Timed
      BY <2>1 DEF Bijection, Injection
    <3>3. \A k \in S : k \in A <=> g[k] \in B
      BY <2>1, <3>2 DEF Took
    <3>4. g \in Bijection(S, Timed)
      BY <2>1
    <3> HIDE DEF S, A, B
    <3>5. Cardinality(A) = Cardinality(B)
      BY <3>1, <3>3, <3>4, SameCount
    <3> QED BY <3>5 DEF S, A, B
  <2> QED BY <2>2, ResultList
<1> QED BY <1>2, InvariantHolds, PTL

\* A list of latencies in order.
SortedList(q, n) == /\ n \in Nat /\ q \in [1..n -> Nat]
                    /\ \A a, b \in 1..n : a < b => q[a] <= q[b]

\* In a sorted list fewer than k are below the k-th, and k or more are not above it.
LEMMA AtRank ==
    ASSUME NEW n, NEW q, SortedList(q, n), NEW k \in 1..n
    PROVE  /\ Below(q, n, q[k]) \in 0..(k - 1)
           /\ Below(q, n, q[k] + 1) \in Nat /\ Below(q, n, q[k] + 1) >= k
<1> DEFINE Less == {i \in 1..n : q[i] < q[k]}
           NotAbove == {i \in 1..n : q[i] < q[k] + 1}
<1>1. /\ n \in Nat /\ k \in Nat /\ k - 1 \in Nat /\ \A j \in 1..n : q[j] \in Nat
      /\ \A a, b \in 1..n : a < b => q[a] <= q[b]
  BY DEF SortedList
<1>2. Less \subseteq 1..(k - 1)
  BY <1>1
<1>3. 1..k \subseteq NotAbove /\ NotAbove \subseteq 1..n
  BY <1>1
<1>4. /\ IsFiniteSet(1..(k - 1)) /\ Cardinality(1..(k - 1)) = k - 1
      /\ IsFiniteSet(1..n) /\ Cardinality(1..k) = k
  <2>1. \A c \in Nat : IsFiniteSet(1..c) /\ Cardinality(1..c) = c
    BY FS_Interval
  <2> QED BY <1>1, <2>1
<1> HIDE DEF Less, NotAbove
<1>5. IsFiniteSet(Less) /\ Cardinality(Less) <= k - 1
  BY <1>2, <1>4, FS_Subset
<1>6. IsFiniteSet(NotAbove) /\ k <= Cardinality(NotAbove)
  <2>1. IsFiniteSet(NotAbove)
    BY <1>3, <1>4, FS_Subset
  <2>2. Cardinality(1..k) <= Cardinality(NotAbove)
    BY <1>3, <2>1, FS_Subset
  <2> QED BY <1>4, <2>1, <2>2
<1>7. Cardinality(Less) \in Nat /\ Cardinality(NotAbove) \in Nat
  BY <1>5, <1>6, FS_CardinalityType
<1>8. Cardinality(Less) \in 0..(k - 1)
  BY <1>1, <1>5, <1>7
<1> QED BY <1>6, <1>7, <1>8 DEF Less, NotAbove, Below

\* The index pct() truncates to, for each of the percentiles that are printed.
LEMMA TruncatedIndex ==
    ASSUME NEW n \in Nat \ {0}, NEW p \in {500, 990, 999}
    PROVE  /\ (p * n) \div 1000 \in 0..(n - 1)
           /\ 1000 * ((p * n) \div 1000) <= p * n /\ p * n < 1000 * ((p * n) \div 1000 + 1)
OBVIOUS

\* v is a percentile of a list, in thousandths.
Percentile(q, n, v, p) == 1000 * Below(q, n, v) <= p * n /\ p * n < 1000 * Below(q, n, v + 1)

\* pct() of a sorted list.
LEMMA PctOf ==
    ASSUME NEW q, q # <<>>, SortedList(q, Len(q)), NEW p \in {500, 990, 999}
    PROVE  Percentile(q, Len(q), pct(q, p), p)
<1> DEFINE n == Len(q)
<1>1. n \in Nat \ {0}
  BY DEF SortedList
<1> HIDE DEF n
<1>2. PICK c : /\ c = (p * n) \div 1000 /\ c \in 0..(n - 1)
               /\ 1000 * c <= p * n /\ p * n < 1000 * (c + 1)
  BY <1>1, TruncatedIndex
<1>3. c \in Nat /\ c < n
  BY <1>1, <1>2
<1>4. PICK k \in 1..n : k = c + 1 /\ k - 1 = c
  BY <1>1, <1>3
<1>5. pct(q, p) = q[k]
  BY <1>1, <1>2, <1>3, <1>4 DEF pct, n
<1>6. Below(q, n, q[k]) \in 0..(k - 1) /\ Below(q, n, q[k] + 1) \in Nat /\ Below(q, n, q[k] + 1) >= k
  <2>1. SortedList(q, n)
    BY DEF n
  <2> QED BY <2>1, AtRank
<1>7. 1000 * Below(q, n, q[k]) <= p * n /\ p * n < 1000 * Below(q, n, q[k] + 1)
  BY <1>1, <1>2, <1>3, <1>4, <1>6
<1> QED BY <1>5, <1>7 DEF Percentile, n

\* What is printed as p50, p99 and p999 is that percentile of the sample, whatever
\* the size of the sample: the truncated index is neither one too low nor one too high.
THEOREM PercentilesAreTrue == Spec => []PctIsPercentile
<1>1. IInv => PctIsPercentile
  <2>1. ASSUME IInv, res # NoResult, res.lat # <<>>
        PROVE  \A p \in {500, 990, 999} : Percentile(res.lat, Len(res.lat), pct(res.lat, p), p)
    <3>1. SortedList(res.lat, Len(res.lat))
      BY <2>1, ResultList DEF SortedList
    <3> QED BY <2>1, <3>1, PctOf
  <2> QED BY <2>1 DEF PctIsPercentile, Percentile
<1> QED BY <1>1, InvariantHolds, PTL
=============================================================================
