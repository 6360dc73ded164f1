----------------------------- MODULE RedisSync -----------------------------
(***************************************************************************)
(* redisEngine.put of the netkv load generator (netkv/main.go): a SET and, *)
(* with -sync, a WAIT 1 behind it, each a command of its own on whichever  *)
(* connection the go-redis pool hands out.                                 *)
(*                                                                         *)
(* External: the pool is go-redis's default, a stack of idle connections;  *)
(* the master numbers its writes, remembers per connection the number of   *)
(* the last write that connection issued, and answers WAIT once a replica  *)
(* has acknowledged that number ("all writes this connection issued",      *)
(* main.go:544); the replica acknowledges writes in order; when a          *)
(* connection breaks under a command, go-redis dials another and repeats   *)
(* the command, or gives up.                                               *)
(***************************************************************************)
EXTENDS Naturals, Sequences

CONSTANTS Worker,    \* goroutines of run() that call put
          PoolSize,  \* -conns: connections of the pool (PoolSize: conns)
          MaxPuts,   \* bound: puts made by each worker
          MaxBreaks  \* bound: connections that break under a command

ASSUME PoolSizeAssumption == PoolSize \in Nat \ {0}
ASSUME BoundAssumption == MaxPuts \in Nat /\ MaxBreaks \in Nat

Conn == 1..PoolSize
NoConn == 0

VARIABLES
    sync,      \* -sync
    pc,        \* control state of put in each worker
    puts,      \* number of puts each worker has started
    held,      \* the pooled connection a worker holds
    mine,      \* number the master gave to the worker's current SET
    ret,       \* "nil" or "err": what the last put returned ("none" while it runs)
    pool,      \* idle connections, last used last
    written,   \* the master's write number
    lastWrite, \* last write issued by each connection
    acked,     \* last write the replica has acknowledged
    breaks,    \* connections that have broken
    setConn,   \* history: the connection of the worker's last SET, while it lives
    waitConn   \* history: the connection of the WAIT behind it

vars == <<sync, pc, puts, held, mine, ret, pool, written, lastWrite, acked,
          breaks, setConn, waitConn>>

\* newRedisNamed: MinIdleConns = PoolSize connections, none has written yet.
Init ==
    /\ sync \in BOOLEAN
    /\ pc = [w \in Worker |-> "idle"]
    /\ puts = [w \in Worker |-> 0]
    /\ held = [w \in Worker |-> NoConn]
    /\ mine = [w \in Worker |-> 0]
    /\ ret = [w \in Worker |-> "none"]
    /\ pool = [i \in 1..PoolSize |-> i]
    /\ written = 0
    /\ lastWrite = [c \in Conn |-> 0]
    /\ acked = 0
    /\ breaks = 0
    /\ setConn = [w \in Worker |-> NoConn]
    /\ waitConn = [w \in Worker |-> NoConn]

-----------------------------------------------------------------------------
\* A worker takes the connection that was put back last; it waits for one
\* while the pool is empty.
Take(w) == /\ pool # <<>>
           /\ held' = [held EXCEPT ![w] = pool[Len(pool)]]
           /\ pool' = SubSeq(pool, 1, Len(pool) - 1)

\* Mutant: the connection goes back twice.
PutBackTwice(w) == /\ held' = [held EXCEPT ![w] = NoConn]
                   /\ pool' = pool \o <<held[w], held[w]>>

\* The connection goes back to the pool when the command has its reply.
PutBack(w) == /\ held' = [held EXCEPT ![w] = NoConn]
              /\ pool' = Append(pool, held[w])

Return(w, v) == /\ pc' = [pc EXCEPT ![w] = "idle"]
                /\ ret' = [ret EXCEPT ![w] = v]

\* put: rdb.Set gets a connection.
PutStart(w) ==
    /\ pc[w] = "idle" /\ puts[w] < MaxPuts
    /\ Take(w)
    /\ puts' = [puts EXCEPT ![w] = @ + 1]
    /\ pc' = [pc EXCEPT ![w] = "set"]
    /\ ret' = [ret EXCEPT ![w] = "none"]
    /\ mine' = [mine EXCEPT ![w] = 0]
    /\ setConn' = [setConn EXCEPT ![w] = held'[w]]
    /\ waitConn' = [waitConn EXCEPT ![w] = NoConn]
    /\ UNCHANGED <<sync, written, lastWrite, acked, breaks>>

\* The master executes the SET (external).
MasterSet(w) ==
    /\ pc[w] = "set" /\ mine[w] = 0
    /\ written' = written + 1
    /\ mine' = [mine EXCEPT ![w] = written + 1]
    /\ lastWrite' = [lastWrite EXCEPT ![held[w]] = written + 1]
    /\ UNCHANGED <<sync, pc, puts, held, ret, pool, acked, breaks, setConn, waitConn>>

\* Set returned nil: without -sync put is done, with it rdb.Wait comes next.
SetOk(w) ==
    /\ pc[w] = "set" /\ mine[w] # 0
    /\ PutBack(w)
    /\ \/ ~sync /\ Return(w, "nil")
       \/ sync /\ pc' = [pc EXCEPT ![w] = "wait"] /\ ret' = ret
    /\ UNCHANGED <<sync, puts, mine, written, lastWrite, acked, breaks, setConn, waitConn>>

\* The connection of w's command breaks; a new one takes its place.
ConnBreaks(w) == /\ breaks < MaxBreaks
                 /\ breaks' = breaks + 1
                 /\ lastWrite' = [lastWrite EXCEPT ![held[w]] = 0]
                 /\ setConn' = [v \in Worker |->
                        IF setConn[v] = held[w] THEN NoConn ELSE setConn[v]]

\* go-redis repeats the command on the new connection: a SET that was executed
\* already is executed again, a WAIT now speaks for a connection without writes.
CommandRetried(w) ==
    /\ pc[w] \in {"set", "waiting"}
    /\ ConnBreaks(w)
    /\ mine' = [mine EXCEPT ![w] = IF pc[w] = "set" THEN 0 ELSE @]
    /\ UNCHANGED <<sync, pc, puts, held, ret, pool, written, acked, waitConn>>

\* Set or Wait returned an error, before or after the master executed it.
CommandErr(w) ==
    /\ pc[w] \in {"set", "waiting"}
    /\ ConnBreaks(w)
    /\ PutBack(w)
    /\ Return(w, "err")
    /\ UNCHANGED <<sync, puts, mine, written, acked, waitConn>>

\* rdb.Wait gets a connection, not necessarily the one the SET used.
WaitStart(w) ==
    /\ pc[w] = "wait"
    /\ Take(w)
    /\ pc' = [pc EXCEPT ![w] = "waiting"]
    /\ waitConn' = [waitConn EXCEPT ![w] = held'[w]]
    /\ UNCHANGED <<sync, puts, mine, ret, written, lastWrite, acked, breaks, setConn>>

\* WAIT returns 1: the replica has this connection's writes.
WaitOk(w) ==
    /\ pc[w] = "waiting" /\ acked >= lastWrite[held[w]]
    /\ PutBack(w)
    /\ Return(w, "nil")
    /\ UNCHANGED <<sync, puts, mine, written, lastWrite, acked, breaks, setConn, waitConn>>

\* Mutant: the result of WAIT is not looked at.
WaitTimeoutIgnored(w) ==
    /\ pc[w] = "waiting" /\ acked < lastWrite[held[w]]
    /\ PutBack(w)
    /\ Return(w, "nil")
    /\ UNCHANGED <<sync, puts, mine, written, lastWrite, acked, breaks, setConn, waitConn>>

\* Mutant: a WAIT without a timeout (-waitms 0).
WaitForever(w) == pc[w] = "waiting" /\ breaks > MaxBreaks /\ UNCHANGED vars

\* WAIT returns 0 after waitMs: n < 1 is an error.
WaitTimeout(w) ==
    /\ pc[w] = "waiting" /\ acked < lastWrite[held[w]]
    /\ PutBack(w)
    /\ Return(w, "err")
    /\ UNCHANGED <<sync, puts, mine, written, lastWrite, acked, breaks, setConn, waitConn>>

\* The replica acknowledges the next write (external).
ReplicaAck ==
    /\ acked < written
    /\ acked' = acked + 1
    /\ UNCHANGED <<sync, pc, puts, held, mine, ret, pool, written, lastWrite, breaks, setConn, waitConn>>

Put(w) == PutStart(w) \/ MasterSet(w) \/ SetOk(w) \/ WaitStart(w) \/ WaitOk(w)
          \/ WaitTimeout(w) \/ CommandRetried(w) \/ CommandErr(w)

\* Every worker has made its puts and the replica has caught up.
Finished == /\ \A w \in Worker : pc[w] = "idle" /\ puts[w] = MaxPuts
            /\ acked = written
            /\ UNCHANGED vars

Next == (\E w \in Worker : Put(w)) \/ ReplicaAck \/ Finished

Spec == Init /\ [][Next]_vars

\* Workers run, and a command gets a reply or its timeout; the pool serves its
\* waiters in turn.  Nothing is assumed of the replica.
FairSpec == Spec /\ \A w \in Worker : WF_vars(Put(w))

-----------------------------------------------------------------------------
(* Properties *)

\* The type invariant of put, the pool and the master's bookkeeping.
TypeOK ==
    /\ sync \in BOOLEAN
    /\ pc \in [Worker -> {"idle", "set", "wait", "waiting"}]
    /\ puts \in [Worker -> 0..MaxPuts]
    /\ held \in [Worker -> Conn \cup {NoConn}]
    /\ mine \in [Worker -> Nat]
    /\ ret \in [Worker -> {"none", "nil", "err"}]
    /\ pool \in Seq(Conn) /\ Len(pool) <= PoolSize
    /\ written \in Nat /\ acked \in 0..written
    /\ lastWrite \in [Conn -> 0..written]
    /\ breaks \in 0..MaxBreaks
    /\ setConn \in [Worker -> Conn \cup {NoConn}]
    /\ waitConn \in [Worker -> Conn \cup {NoConn}]

\* With -sync, a put that returned nil is on the replica ("no acked write lost
\* if one node dies", main.go:93): what put's SET wrote, the replica has.
AckedIsReplicated ==
    sync => \A w \in Worker : ret[w] = "nil" => mine[w] <= acked

\* What put does guarantee: if its WAIT went out on the connection of its SET,
\* and that connection did not break in between, nil means replicated.
SameConnAckIsReplicated ==
    sync => \A w \in Worker :
        ret[w] = "nil" /\ setConn[w] # NoConn /\ waitConn[w] = setConn[w]
            => mine[w] <= acked

\* Every put returns, with -sync too and even if the replica never acknowledges
\* anything: WAIT has a timeout and every connection goes back to the pool.
EveryPutReturns == \A w \in Worker : pc[w] # "idle" ~> pc[w] = "idle"
=============================================================================
