-------------------------- MODULE RedisSyncProofs --------------------------
(***************************************************************************)
(* What put with -sync does guarantee, for any number of workers, any pool *)
(* and any number of breaks.  The inductive invariant says who has which   *)
(* connection and what the master remembers of it.                         *)
(***************************************************************************)
EXTENDS RedisSync, SequenceTheorems, FunctionTheorems, TLAPS

\* A worker holds a connection exactly while a command of its put is out.
HeldInv == \A w \in Worker : (held[w] # NoConn) <=> pc[w] \in {"set", "waiting"}

\* No connection is in two hands: it is held by one worker or idle at one place.
PoolInv ==
    /\ \A v, w \in Worker : held[v] = held[w] /\ held[v] # NoConn => v = w
    /\ \A i \in 1..Len(pool) : \A w \in Worker : pool[i] # held[w]
    /\ \A i, j \in 1..Len(pool) : pool[i] = pool[j] => i = j

\* The master remembers of the connection of a SET at least that SET; the
\* histories name the connections the commands went out on.
WriteInv ==
    \A w \in Worker :
        /\ setConn[w] # NoConn => mine[w] <= lastWrite[setConn[w]]
        /\ pc[w] = "set" => setConn[w] \in {NoConn, held[w]}
        /\ pc[w] = "waiting" => waitConn[w] = held[w]

\* put has returned nil only while no later put of the worker runs.
RetInv == \A w \in Worker : ret[w] = "nil" => pc[w] = "idle"

IInv == /\ TypeOK /\ HeldInv /\ PoolInv /\ WriteInv /\ RetInv
        /\ SameConnAckIsReplicated

-----------------------------------------------------------------------------
(* The pool *)

\* A pool without duplicates is no larger than the set of connections.
LEMMA PoolBound ==
    ASSUME NEW q \in Seq(Conn), \A i, j \in 1..Len(q) : q[i] = q[j] => i = j
    PROVE  Len(q) <= PoolSize
<1>1. Len(q) \in Nat /\ q \in [1..Len(q) -> Conn]
  BY LenProperties
<1>2. q \in Injection(1..Len(q), 1..PoolSize)
  BY <1>1, Fun_IsInj DEF Conn
<1> QED BY <1>1, <1>2, Fun_NatInjLeq, PoolSizeAssumption DEF ExistsInjection

\* What taking a connection from the pool leaves: the taken one was idle, and is
\* nowhere else.
LEMMA TakeFacts ==
    ASSUME TypeOK, HeldInv, PoolInv, NEW w \in Worker, held[w] = NoConn, Take(w)
    PROVE  /\ held' \in [Worker -> Conn \cup {NoConn}] /\ held'[w] \in Conn
           /\ \A v \in Worker \ {w} : held'[v] = held[v]
           /\ pool' \in Seq(Conn) /\ Len(pool') <= PoolSize
           /\ PoolInv'
<1>1. Len(pool) \in Nat \ {0} /\ \A i \in 1..Len(pool) : pool[i] \in Conn
  BY EmptySeq, ElementOfSeq DEF TypeOK, Take
<1>2. /\ pool' \in Seq(Conn) /\ Len(pool') = Len(pool) - 1
      /\ \A i \in 1..Len(pool) - 1 : pool'[i] = pool[i]
  <2> DEFINE n == Len(pool) - 1
  <2>1. n \in Nat /\ \A i \in 1..n : pool[i] \in Conn
    BY <1>1
  <2>2. pool' = SubSeq(pool, 1, n)
    BY DEF Take
  <2> HIDE DEF n
  <2>3. /\ SubSeq(pool, 1, n) \in Seq(Conn)
        /\ Len(SubSeq(pool, 1, n)) = IF 1 <= n THEN n - 1 + 1 ELSE 0
        /\ \A i \in 1..n - 1 + 1 : SubSeq(pool, 1, n)[i] = pool[1 + i - 1]
    BY <2>1, SubSeqProperties
  <2>4. Len(pool') = n /\ \A i \in 1..n : pool'[i] = pool[i]
    BY <2>1, <2>2, <2>3
  <2> QED BY <2>2, <2>3, <2>4 DEF n
<1>3. held' = [held EXCEPT ![w] = pool[Len(pool)]] /\ pool[Len(pool)] \in Conn
  BY <1>1 DEF Take
<1>4. /\ held' \in [Worker -> Conn \cup {NoConn}] /\ held'[w] = pool[Len(pool)]
      /\ \A v \in Worker \ {w} : held'[v] = held[v]
  BY <1>3 DEF TypeOK
<1>5. PoolInv'
  <2>1. \A i \in 1..Len(pool') : i \in 1..Len(pool) /\ i # Len(pool) /\ pool'[i] = pool[i]
    BY <1>1, <1>2
  <2>2. \A v, u \in Worker : held'[v] = held'[u] /\ held'[v] # NoConn => v = u
    BY <1>1, <1>4 DEF PoolInv
  <2>3. \A i \in 1..Len(pool') : \A u \in Worker : pool'[i] # held'[u]
    BY <1>1, <1>4, <2>1 DEF PoolInv
  <2>4. \A i, j \in 1..Len(pool') : pool'[i] = pool'[j] => i = j
    BY <2>1 DEF PoolInv
  <2> QED BY <2>2, <2>3, <2>4 DEF PoolInv
<1>6. Len(pool') <= PoolSize
  BY <1>2, <1>5, PoolBound DEF PoolInv
<1> QED BY <1>2, <1>3, <1>4, <1>5, <1>6

\* What putting it back leaves.
LEMMA PutBackFacts ==
    ASSUME TypeOK, HeldInv, PoolInv, NEW w \in Worker, held[w] # NoConn, PutBack(w)
    PROVE  /\ held' \in [Worker -> Conn \cup {NoConn}] /\ held'[w] = NoConn
           /\ \A v \in Worker \ {w} : held'[v] = held[v]
           /\ pool' \in Seq(Conn) /\ Len(pool') <= PoolSize
           /\ PoolInv'
<1>1. held[w] \in Conn /\ Len(pool) \in Nat /\ NoConn \notin Conn
  BY LenProperties, PoolSizeAssumption DEF TypeOK, Conn, NoConn
<1>2. /\ pool' \in Seq(Conn) /\ Len(pool') = Len(pool) + 1
      /\ pool'[Len(pool) + 1] = held[w]
      /\ \A i \in 1..Len(pool) : pool'[i] = pool[i]
  BY <1>1, AppendProperties DEF PutBack, TypeOK
<1>3. /\ held' \in [Worker -> Conn \cup {NoConn}] /\ held'[w] = NoConn
      /\ \A v \in Worker \ {w} : held'[v] = held[v]
  BY DEF PutBack, TypeOK
<1>4. PoolInv'
  <2>1. \A i \in 1..Len(pool') :
            \/ i \in 1..Len(pool) /\ pool'[i] = pool[i]
            \/ i = Len(pool) + 1 /\ pool'[i] = held[w]
    BY <1>1, <1>2
  <2>2. \A i \in 1..Len(pool) : pool[i] \in Conn
    BY ElementOfSeq DEF TypeOK
  <2>3. \A v, u \in Worker : held'[v] = held'[u] /\ held'[v] # NoConn => v = u
    BY <1>3 DEF PoolInv
  <2>4. \A i \in 1..Len(pool') : \A u \in Worker : pool'[i] # held'[u]
    BY <1>1, <1>3, <2>1, <2>2 DEF PoolInv
  <2>5. \A i, j \in 1..Len(pool') : pool'[i] = pool'[j] => i = j
    BY <2>1 DEF PoolInv
  <2> QED BY <2>3, <2>4, <2>5 DEF PoolInv
<1>5. Len(pool') <= PoolSize
  BY <1>2, <1>4, PoolBound DEF PoolInv
<1> QED BY <1>2, <1>3, <1>4, <1>5

-----------------------------------------------------------------------------
(* The initial state, and one lemma per action. *)

\* The pool newRedisNamed fills satisfies the invariant.
LEMMA InitIInv == Init => IInv
<1> SUFFICES ASSUME Init PROVE IInv
  OBVIOUS
<1> USE PoolSizeAssumption, BoundAssumption DEF Init, NoConn
<1>1. pool \in Seq(Conn) /\ Len(pool) = PoolSize /\ \A i \in 1..PoolSize : pool[i] = i
  <2>1. pool \in [1..PoolSize -> Conn]
    BY DEF Conn
  <2>2. pool \in Seq(Conn)
    BY <2>1, SeqDef
  <2> QED BY <2>2, LenProperties
<1>2. TypeOK
  BY <1>1 DEF TypeOK, Conn
<1> QED BY <1>1, <1>2 DEF IInv, HeldInv, PoolInv, WriteInv, RetInv, SameConnAckIsReplicated, Conn

\* put begins: the connection taken has nothing of this put yet.
LEMMA PutStartStep ==
    ASSUME IInv, NEW w \in Worker, PutStart(w)
    PROVE  IInv'
<1> USE DEF IInv
<1>1. pc[w] = "idle" /\ held[w] = NoConn
  BY DEF PutStart, HeldInv
<1>2. /\ held' \in [Worker -> Conn \cup {NoConn}] /\ held'[w] \in Conn
      /\ \A v \in Worker \ {w} : held'[v] = held[v]
      /\ pool' \in Seq(Conn) /\ Len(pool') <= PoolSize
      /\ PoolInv'
  BY <1>1, TakeFacts DEF PutStart
<1>3. NoConn \notin Conn /\ \A c \in Conn : lastWrite[c] \in Nat
  BY PoolSizeAssumption DEF Conn, NoConn, TypeOK
<1>4. TypeOK'
  <2>1. puts' \in [Worker -> 0..MaxPuts]
    BY BoundAssumption DEF PutStart, TypeOK
  <2>2. setConn' \in [Worker -> Conn \cup {NoConn}] /\ waitConn' \in [Worker -> Conn \cup {NoConn}]
    BY <1>2 DEF PutStart, TypeOK
  <2> QED BY <1>2, <2>1, <2>2 DEF PutStart, TypeOK
<1>5. HeldInv' /\ RetInv'
  BY <1>2, <1>3 DEF PutStart, HeldInv, RetInv, TypeOK
<1>6. WriteInv'
  BY <1>2, <1>3 DEF PutStart, WriteInv, TypeOK
<1>7. SameConnAckIsReplicated'
  BY DEF PutStart, SameConnAckIsReplicated, TypeOK
<1> QED BY <1>2, <1>4, <1>5, <1>6, <1>7

\* The master numbers a SET and remembers it of its connection.
LEMMA MasterSetStep ==
    ASSUME IInv, NEW w \in Worker, MasterSet(w)
    PROVE  IInv'
<1> USE DEF IInv
<1>1. pc[w] = "set" /\ held[w] \in Conn /\ NoConn \notin Conn /\ ret[w] # "nil"
  BY PoolSizeAssumption DEF MasterSet, HeldInv, RetInv, TypeOK, Conn, NoConn
<1>2. written \in Nat /\ \A c \in Conn : lastWrite[c] \in 0..written
  BY DEF TypeOK
<1>3. TypeOK'
  BY <1>1, <1>2 DEF MasterSet, TypeOK
<1>4. HeldInv' /\ PoolInv' /\ RetInv'
  BY DEF MasterSet, HeldInv, PoolInv, RetInv
<1>5. \A c \in Conn : lastWrite'[c] >= lastWrite[c] /\ lastWrite'[held[w]] = written + 1
  BY <1>1, <1>2 DEF MasterSet, TypeOK
<1>6. WriteInv'
  <2> SUFFICES ASSUME NEW v \in Worker, setConn[v] # NoConn
               PROVE  mine'[v] <= lastWrite'[setConn[v]]
    BY DEF MasterSet, WriteInv
  <2>1. setConn[v] \in Conn /\ mine[v] \in Nat /\ lastWrite'[setConn[v]] \in Nat
    BY <1>3 DEF TypeOK, MasterSet
  <2>2. CASE v = w
    BY <1>1, <1>2, <1>5, <2>1, <2>2 DEF MasterSet, WriteInv, TypeOK
  <2>3. CASE v # w
    <3>1. mine'[v] = mine[v] /\ mine[v] <= lastWrite[setConn[v]]
      BY <2>1, <2>3 DEF MasterSet, WriteInv, TypeOK
    <3> QED BY <1>2, <1>5, <2>1, <3>1
  <2> QED BY <2>2, <2>3
<1>7. SameConnAckIsReplicated'
  <2>1. \A v \in Worker : ret[v] = "nil" => mine'[v] = mine[v]
    BY <1>1 DEF MasterSet, TypeOK
  <2> QED BY <2>1 DEF MasterSet, SameConnAckIsReplicated
<1> QED BY <1>3, <1>4, <1>6, <1>7

\* Set returned nil.
LEMMA SetOkStep ==
    ASSUME IInv, NEW w \in Worker, SetOk(w)
    PROVE  IInv'
<1> USE DEF IInv
<1>1. pc[w] = "set" /\ held[w] # NoConn
  BY DEF SetOk, HeldInv
<1>2. /\ held' \in [Worker -> Conn \cup {NoConn}] /\ held'[w] = NoConn
      /\ \A v \in Worker \ {w} : held'[v] = held[v]
      /\ pool' \in Seq(Conn) /\ Len(pool') <= PoolSize
      /\ PoolInv'
  BY <1>1, PutBackFacts DEF SetOk
<1>3. TypeOK'
  BY <1>2 DEF SetOk, TypeOK, Return
<1>4. HeldInv' /\ RetInv'
  BY <1>1, <1>2 DEF SetOk, HeldInv, RetInv, TypeOK, Return
<1>5. WriteInv'
  BY <1>2 DEF SetOk, WriteInv, TypeOK, Return
<1>6. SameConnAckIsReplicated'
  BY DEF SetOk, SameConnAckIsReplicated, TypeOK, Return
<1> QED BY <1>2, <1>3, <1>4, <1>5, <1>6

\* A break makes every put whose SET went over the connection lose its trace.
LEMMA BreakFacts ==
    ASSUME IInv, NEW w \in Worker, pc[w] \in {"set", "waiting"}, ConnBreaks(w)
    PROVE  /\ lastWrite' \in [Conn -> 0..written] /\ breaks' \in 0..MaxBreaks
           /\ setConn' \in [Worker -> Conn \cup {NoConn}]
           /\ \A v \in Worker : setConn'[v] \in {NoConn, setConn[v]}
           /\ \A v \in Worker : setConn'[v] # NoConn => mine[v] <= lastWrite'[setConn[v]]
           /\ setConn'[w] # NoConn => setConn[w] # held[w]
<1> USE DEF IInv
<1>1. held[w] \in Conn /\ NoConn \notin Conn
  BY PoolSizeAssumption DEF HeldInv, TypeOK, Conn, NoConn
<1>2. lastWrite' \in [Conn -> 0..written] /\ \A c \in Conn \ {held[w]} : lastWrite'[c] = lastWrite[c]
  BY <1>1 DEF ConnBreaks, TypeOK
<1>3. \A v \in Worker : setConn'[v] # NoConn => setConn'[v] = setConn[v] /\ setConn[v] # held[w]
  BY DEF ConnBreaks
<1>4. setConn' \in [Worker -> Conn \cup {NoConn}] /\ breaks' \in 0..MaxBreaks
  BY BoundAssumption DEF ConnBreaks, TypeOK
<1>5. ASSUME NEW v \in Worker, setConn'[v] # NoConn PROVE mine[v] <= lastWrite'[setConn[v]]
  <2>1. setConn[v] \in Conn \ {held[w]}
    BY <1>3, <1>5 DEF TypeOK
  <2> QED BY <1>2, <2>1, <1>1 DEF WriteInv
<1> QED BY <1>1, <1>2, <1>3, <1>4, <1>5

\* A command is repeated on a new connection.
LEMMA CommandRetriedStep ==
    ASSUME IInv, NEW w \in Worker, CommandRetried(w)
    PROVE  IInv'
<1> USE DEF IInv
<1>1. /\ lastWrite' \in [Conn -> 0..written] /\ breaks' \in 0..MaxBreaks
      /\ setConn' \in [Worker -> Conn \cup {NoConn}]
      /\ \A v \in Worker : setConn'[v] \in {NoConn, setConn[v]}
      /\ \A v \in Worker : setConn'[v] # NoConn => mine[v] <= lastWrite'[setConn[v]]
  BY BreakFacts DEF CommandRetried
<1>2. TypeOK'
  BY <1>1 DEF CommandRetried, TypeOK
<1>3. HeldInv' /\ PoolInv' /\ RetInv'
  BY DEF CommandRetried, HeldInv, PoolInv, RetInv
<1>4. \A v \in Worker : mine'[v] <= mine[v] /\ mine[v] \in Nat /\ mine'[v] \in Nat
  BY <1>2 DEF CommandRetried, TypeOK
<1>5. WriteInv'
  <2>1. ASSUME NEW v \in Worker, setConn'[v] # NoConn PROVE mine'[v] <= lastWrite'[setConn'[v]]
    <3>1. setConn'[v] = setConn[v] /\ lastWrite'[setConn[v]] \in Nat
      BY <1>1, <2>1 DEF TypeOK
    <3> QED BY <1>1, <1>4, <2>1, <3>1
  <2> QED BY <1>1, <2>1 DEF CommandRetried, WriteInv
<1>6. SameConnAckIsReplicated'
  <2>1. \A v \in Worker : ret[v] = "nil" => mine'[v] = mine[v]
    BY DEF CommandRetried, TypeOK, RetInv
  <2> QED BY <1>1, <2>1 DEF CommandRetried, SameConnAckIsReplicated
<1> QED BY <1>2, <1>3, <1>5, <1>6

\* A command returns an error.
LEMMA CommandErrStep ==
    ASSUME IInv, NEW w \in Worker, CommandErr(w)
    PROVE  IInv'
<1> USE DEF IInv
<1>1. /\ lastWrite' \in [Conn -> 0..written] /\ breaks' \in 0..MaxBreaks
      /\ setConn' \in [Worker -> Conn \cup {NoConn}]
      /\ \A v \in Worker : setConn'[v] \in {NoConn, setConn[v]}
      /\ \A v \in Worker : setConn'[v] # NoConn => mine[v] <= lastWrite'[setConn[v]]
  BY BreakFacts DEF CommandErr
<1>2. held[w] # NoConn
  BY DEF CommandErr, HeldInv
<1>3. /\ held' \in [Worker -> Conn \cup {NoConn}] /\ held'[w] = NoConn
      /\ \A v \in Worker \ {w} : held'[v] = held[v]
      /\ pool' \in Seq(Conn) /\ Len(pool') <= PoolSize
      /\ PoolInv'
  BY <1>2, PutBackFacts DEF CommandErr
<1>4. TypeOK'
  BY <1>1, <1>3 DEF CommandErr, TypeOK, Return
<1>5. HeldInv' /\ RetInv'
  BY <1>3 DEF CommandErr, HeldInv, RetInv, TypeOK, Return
<1>6. WriteInv'
  BY <1>1, <1>3 DEF CommandErr, WriteInv, TypeOK, Return
<1>7. SameConnAckIsReplicated'
  BY <1>1 DEF CommandErr, SameConnAckIsReplicated, TypeOK, Return
<1> QED BY <1>3, <1>4, <1>5, <1>6, <1>7

\* WAIT goes out on whichever connection is on top of the pool.
LEMMA WaitStartStep ==
    ASSUME IInv, NEW w \in Worker, WaitStart(w)
    PROVE  IInv'
<1> USE DEF IInv
<1>1. pc[w] = "wait" /\ held[w] = NoConn /\ ret[w] # "nil"
  BY DEF WaitStart, HeldInv, RetInv
<1>2. /\ held' \in [Worker -> Conn \cup {NoConn}] /\ held'[w] \in Conn
      /\ \A v \in Worker \ {w} : held'[v] = held[v]
      /\ pool' \in Seq(Conn) /\ Len(pool') <= PoolSize
      /\ PoolInv'
  BY <1>1, TakeFacts DEF WaitStart
<1>3. NoConn \notin Conn
  BY PoolSizeAssumption DEF Conn, NoConn
<1>4. TypeOK'
  BY <1>2 DEF WaitStart, TypeOK
<1>5. HeldInv' /\ RetInv'
  BY <1>1, <1>2, <1>3 DEF WaitStart, HeldInv, RetInv, TypeOK
<1>6. WriteInv'
  BY <1>2, <1>3 DEF WaitStart, WriteInv, TypeOK
<1>7. SameConnAckIsReplicated'
  BY <1>1 DEF WaitStart, SameConnAckIsReplicated, TypeOK
<1> QED BY <1>2, <1>4, <1>5, <1>6, <1>7

\* WAIT returns, with or without the replica.
LEMMA WaitEndStep ==
    ASSUME IInv, NEW w \in Worker, WaitOk(w) \/ WaitTimeout(w)
    PROVE  IInv'
<1> USE DEF IInv
<1>1. pc[w] = "waiting" /\ held[w] \in Conn /\ NoConn \notin Conn
  BY PoolSizeAssumption DEF WaitOk, WaitTimeout, HeldInv, TypeOK, Conn, NoConn
<1>2. /\ held' \in [Worker -> Conn \cup {NoConn}] /\ held'[w] = NoConn
      /\ \A v \in Worker \ {w} : held'[v] = held[v]
      /\ pool' \in Seq(Conn) /\ Len(pool') <= PoolSize
      /\ PoolInv'
  BY <1>1, PutBackFacts DEF WaitOk, WaitTimeout
<1>3. TypeOK'
  BY <1>2 DEF WaitOk, WaitTimeout, TypeOK, Return
<1>4. HeldInv' /\ RetInv'
  BY <1>1, <1>2 DEF WaitOk, WaitTimeout, HeldInv, RetInv, TypeOK, Return
<1>5. WriteInv'
  BY <1>2 DEF WaitOk, WaitTimeout, WriteInv, TypeOK, Return
<1>6. SameConnAckIsReplicated'
  <2>1. ASSUME setConn[w] # NoConn, waitConn[w] = setConn[w], WaitOk(w)
        PROVE  mine[w] <= acked
    <3>1. mine[w] <= lastWrite[held[w]] /\ lastWrite[held[w]] <= acked
      BY <1>1, <2>1 DEF WaitOk, WriteInv, TypeOK
    <3> QED BY <1>1, <3>1 DEF TypeOK
  <2>2. CASE WaitOk(w)
    BY <2>1, <2>2 DEF WaitOk, SameConnAckIsReplicated, TypeOK, Return
  <2>3. CASE WaitTimeout(w)
    BY <2>3 DEF WaitTimeout, SameConnAckIsReplicated, TypeOK, Return
  <2> QED BY <2>2, <2>3
<1> QED BY <1>2, <1>3, <1>4, <1>5, <1>6

\* The replica catches up by one write.
LEMMA ReplicaAckStep == IInv /\ ReplicaAck => IInv'
<1> SUFFICES ASSUME IInv, ReplicaAck PROVE IInv'
  OBVIOUS
<1> USE DEF IInv, ReplicaAck
<1>1. TypeOK'
  BY DEF TypeOK
<1>2. HeldInv' /\ PoolInv' /\ WriteInv' /\ RetInv'
  BY DEF HeldInv, PoolInv, WriteInv, RetInv
<1>3. SameConnAckIsReplicated'
  <2>1. \A v \in Worker : mine[v] \in Nat
    BY DEF TypeOK
  <2> QED BY <2>1 DEF TypeOK, SameConnAckIsReplicated
<1> QED BY <1>1, <1>2, <1>3

\* A step that changes nothing.
LEMMA StutterStep == IInv /\ UNCHANGED vars => IInv'
  BY DEF vars, IInv, TypeOK, HeldInv, PoolInv, WriteInv, RetInv, SameConnAckIsReplicated

-----------------------------------------------------------------------------
(* The theorems. *)

\* IInv is an invariant of all the workers' puts over one pool.
THEOREM InvariantHolds == Spec => []IInv
<1>1. IInv /\ [Next]_vars => IInv'
  <2> SUFFICES ASSUME IInv, [Next]_vars PROVE IInv'
    OBVIOUS
  <2>1. ASSUME NEW w \in Worker, Put(w) PROVE IInv'
    BY <2>1, PutStartStep, MasterSetStep, SetOkStep, CommandRetriedStep, CommandErrStep,
       WaitStartStep, WaitEndStep DEF Put
  <2>2. CASE ReplicaAck
    BY <2>2, ReplicaAckStep
  <2>3. CASE Finished \/ UNCHANGED vars
    BY <2>3, StutterStep DEF Finished
  <2> QED BY <2>1, <2>2, <2>3 DEF Next
<1> QED BY <1>1, InitIInv, PTL DEF Spec

\* Type correctness of put, the pool and the master's bookkeeping; the pool never
\* holds more than PoolSize connections.
THEOREM TypeCorrect == Spec => []TypeOK
<1>1. IInv => TypeOK
  BY DEF IInv
<1> QED BY <1>1, InvariantHolds, PTL

\* A put whose WAIT went out on the unbroken connection of its SET returns nil only
\* when a replica has the write (main.go:530-557).
THEOREM SameConnAckReplicated == Spec => []SameConnAckIsReplicated
<1>1. IInv => SameConnAckIsReplicated
  BY DEF IInv
<1> QED BY <1>1, InvariantHolds, PTL
=============================================================================
