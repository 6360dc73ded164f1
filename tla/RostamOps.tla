----------------------------- MODULE RostamOps -----------------------------
(***************************************************************************)
(* The read-modify-write workloads of netkv against its own Rostam server: *)
(* the workers' doOp (netkv/main.go: atomic, incr, cas, append, bitmask),  *)
(* and the server's benchDispatcher with its handlers                      *)
(* (netkv/rostam_server/main.go).  A worker's request is served by the     *)
(* server goroutine of its connection while the worker waits, so one       *)
(* control state per worker stands for both.  The same workloads on        *)
(* Aerospike, by its native operations and its generation check, are the   *)
(* second engine.                                                          *)
(*                                                                         *)
(* Each tx.Get and tx.Put is atomic (external, the cache); the locks of    *)
(* the dispatcher are what makes a handler's Get and Put one step.  A      *)
(* request to Aerospike is one atomic step of its server (external).       *)
(***************************************************************************)
EXTENDS Naturals, Sequences, FiniteSets, FiniteSetsExt

CONSTANTS Worker,      \* netkv workers, each with its server goroutine
          Other,       \* clients whose op has no routing key or is cross-shard
          Key,
          NumShards,   \* cache.NumShards()
          ShardIndex,  \* cache.ShardIndex, a function of the key
          Streaks,     \* the streaks an "aru" may carry
          Retries,     \* casIncr's 1000 attempts
          Width,       \* bits of the shifted word (64)
          MaxOps,      \* bound: operations of each worker, per mode
          MaxBarriers, \* bound: cross-shard operations of each other client
          NoOne        \* the value of an unlocked mutex

Shard == 0..NumShards - 1
Client == Worker \cup Other
Modes == {"atomic", "incr", "cas", "append", "bitmask"}

ASSUME ShardAssumption == NumShards \in Nat \ {0} /\ ShardIndex \in [Key -> Shard]
ASSUME BoundAssumption == Retries \in Nat \ {0} /\ Width \in Nat /\ Streaks \subseteq Nat
                       /\ MaxOps \in [Modes -> [Worker -> Nat]] /\ MaxBarriers \in Nat
ASSUME ClientAssumption == Worker \cap Other = {} /\ NoOne \notin Client

Points == 10  \* what every "aru" adds to the score

VARIABLES
    eng,     \* -engine, "rostam" or "aerospike"
    mode,    \* -mode, one per run
    store,   \* the cache: one record per key
    mu,      \* opMu, one mutex per shard
    pc,      \* where a client's current request is
    op,      \* the op of the current request
    key,     \* its key
    arg,     \* its streak ("aru") or expected value ("casw")
    tmp,     \* what the handler's tx.Get returned
    resp,    \* the response, when pc = "reply"
    tries,   \* casIncr's loop counter
    ops,     \* operations started by each client
    log,     \* history: what was applied to each key, in order
    did,     \* history: how often the current operation was applied
    out      \* history: what the last operation returned

config == <<eng, mode>>
vars == <<eng, mode, store, mu, pc, op, key, arg, tmp, resp, tries, ops, log, did, out>>

-----------------------------------------------------------------------------
\* setupOp: the record every key is seeded with.  An appended value is told
\* by its length, in suffixes; the shifted word by its bits, the lowest first.
Seed(m) == CASE m = "atomic"  -> [games |-> 0, best |-> 0, score |-> 0]
             [] m = "bitmask" -> [b \in 1..Width |-> 0]
             [] OTHER         -> 0

\* handleAtomicRecordUpdate
HandleAtomicRecordUpdate(cur, streak) ==
    [games |-> cur.games + 1,
     best  |-> IF streak > cur.best THEN streak ELSE cur.best,
     score |-> cur.score + Points]

\* v<<1 | x: the highest bit falls out.
ShiftIn(v, x) == [b \in 1..Width |-> IF b = 1 THEN x ELSE v[b - 1]]

\* handleShift: v<<1 | 1
HandleShift(cur) == ShiftIn(cur, 1)

\* The value a handler puts, given what it got.
NewValue(name, cur, a) ==
    CASE name = "aru"  -> HandleAtomicRecordUpdate(cur, a)
      [] name = "shft" -> HandleShift(cur)
      [] name = "casw" -> a + 1
      [] OTHER         -> cur + 1

\* doOp: the first request of an operation in each mode.
FirstOp(m) == CASE m = "atomic"  -> "aru"
                [] m = "incr"    -> "incr"
                [] m = "cas"     -> "get"
                [] m = "append"  -> "app"
                [] m = "bitmask" -> "shft"

\* What stands in an idle client's key, which nothing reads.
AnyKey == CHOOSE k \in Key : TRUE

Init ==
    /\ eng \in {"rostam", "aerospike"} /\ mode \in Modes
    /\ store = [k \in Key |-> Seed(mode)]
    /\ mu = [s \in Shard |-> NoOne]
    /\ pc = [c \in Client |-> "idle"]
    /\ op = [c \in Client |-> "none"]
    /\ key = [c \in Client |-> AnyKey]
    /\ arg = [c \in Client |-> 0]
    /\ tmp = [c \in Client |-> IF c \in Other THEN store ELSE Seed(mode)]
    /\ resp = [c \in Client |-> "none"]
    /\ tries = [c \in Client |-> 0]
    /\ ops = [c \in Client |-> 0]
    /\ log = [k \in Key |-> <<>>]
    /\ did = [w \in Worker |-> 0]
    /\ out = [w \in Worker |-> "none"]

-----------------------------------------------------------------------------
(* The worker. *)

DoOp(w) ==
    /\ pc[w] = "idle" /\ ops[w] < MaxOps[mode][w]
    /\ ops' = [ops EXCEPT ![w] = @ + 1]
    /\ tries' = [tries EXCEPT ![w] = 0]
    /\ op' = [op EXCEPT ![w] = FirstOp(mode)]
    /\ pc' = [pc EXCEPT ![w] = "call"]
    /\ \E k \in Key : key' = [key EXCEPT ![w] = k]
    /\ \E a \in IF mode = "atomic" THEN Streaks ELSE {0} : arg' = [arg EXCEPT ![w] = a]
    /\ did' = [did EXCEPT ![w] = 0] /\ out' = [out EXCEPT ![w] = "none"]
    /\ UNCHANGED <<config, store, mu, tmp, resp, log>>

\* The call returned an error: the server's, or "gone", that of a connection which
\* lost the answer.  The code cannot tell them apart.
Failed(w) == resp[w] \in {"err", "gone"}

\* The operation returns: nil, or the error of the call.  Its locals are gone.
OpReturns(w) ==
    /\ pc[w] = "reply"
    /\ \/ op[w] \notin {"get", "casw"}
       \/ Failed(w)
       \/ op[w] = "casw" /\ resp[w] = "ok"
       \/ op[w] = "get" /\ tries[w] = Retries    \* "cas: too many retries"
    /\ pc' = [pc EXCEPT ![w] = "idle"]
    /\ out' = [out EXCEPT ![w] = IF Failed(w) THEN resp[w]
                                 ELSE IF op[w] = "get" THEN "err" ELSE "nil"]
    /\ op' = [op EXCEPT ![w] = "none"] /\ key' = [key EXCEPT ![w] = AnyKey]
    /\ arg' = [arg EXCEPT ![w] = 0] /\ tmp' = [tmp EXCEPT ![w] = Seed(mode)]
    /\ resp' = [resp EXCEPT ![w] = "none"] /\ tries' = [tries EXCEPT ![w] = 0]
    /\ UNCHANGED <<config, store, mu, ops, log, did>>

\* casIncr: the value was read, try to write its successor.  Rostam's expects the
\* value, Aerospike's the generation that came with it.
CasTry(w) ==
    /\ pc[w] = "reply" /\ op[w] = "get" /\ resp[w] = "ok" /\ tries[w] < Retries
    /\ op' = [op EXCEPT ![w] = "casw"]
    /\ arg' = [arg EXCEPT ![w] = IF eng = "rostam" THEN tmp[w] ELSE @]
    /\ tries' = [tries EXCEPT ![w] = @ + 1]
    /\ pc' = [pc EXCEPT ![w] = "call"]
    /\ UNCHANGED <<config, store, mu, key, tmp, resp, ops, log, did, out>>

\* Mutant: any error is taken for a lost race.
CasRereadAnyError(w) ==
    /\ pc[w] = "reply" /\ op[w] = "casw" /\ resp[w] # "ok"
    /\ op' = [op EXCEPT ![w] = "get"]
    /\ pc' = [pc EXCEPT ![w] = "call"]
    /\ UNCHANGED <<config, store, mu, key, arg, tmp, resp, tries, ops, log, did, out>>

\* casIncr: lost the race, read again.
CasReread(w) ==
    /\ pc[w] = "reply" /\ op[w] = "casw" /\ resp[w] = "lost"
    /\ op' = [op EXCEPT ![w] = "get"]
    /\ pc' = [pc EXCEPT ![w] = "call"]
    /\ UNCHANGED <<config, store, mu, key, arg, tmp, resp, tries, ops, log, did, out>>

-----------------------------------------------------------------------------
(* benchDispatcher.Call *)

Reply(c, r) == /\ pc' = [pc EXCEPT ![c] = "reply"]
               /\ resp' = [resp EXCEPT ![c] = r]

\* A read runs its handler without a lock; getI64 may get an error for it.
CallRead(w) ==
    /\ eng = "rostam" /\ pc[w] = "call" /\ op[w] = "get"
    /\ \/ tmp' = [tmp EXCEPT ![w] = store[key[w]]] /\ Reply(w, "ok")
       \/ tmp' = tmp /\ Reply(w, "err")
    /\ UNCHANGED <<config, store, mu, op, key, arg, tries, ops, log, did, out>>

\* Mutant: a routable op is not locked.
CallLockNone(w) ==
    /\ eng = "rostam" /\ pc[w] = "call" /\ op[w] # "get"
    /\ pc' = [pc EXCEPT ![w] = "read"]
    /\ UNCHANGED <<config, store, mu, op, key, arg, tmp, resp, tries, ops, log, did, out>>

\* A routable read-write op locks the shard of its key.
CallLock(w) ==
    /\ eng = "rostam" /\ pc[w] = "call" /\ op[w] # "get" /\ mu[ShardIndex[key[w]]] = NoOne
    /\ mu' = [mu EXCEPT ![ShardIndex[key[w]]] = w]
    /\ pc' = [pc EXCEPT ![w] = "read"]
    /\ UNCHANGED <<config, store, op, key, arg, tmp, resp, tries, ops, log, did, out>>

\* The handler's tx.Get
HandlerGet(w) ==
    /\ pc[w] = "read"
    /\ tmp' = [tmp EXCEPT ![w] = store[key[w]]]
    /\ pc' = [pc EXCEPT ![w] = "write"]
    /\ UNCHANGED <<config, store, mu, op, key, arg, resp, tries, ops, log, did, out>>

\* Mutant: the mutex of the shard stays locked.
UnlockForgotten(w) == mu' = mu

\* The deferred unlock
Unlock(w) == mu' = [mu EXCEPT ![ShardIndex[key[w]]] = NoOne]

\* handleCASWrite: the current value is not the expected one.
HandlerCasLost(w) ==
    /\ pc[w] = "write" /\ op[w] = "casw" /\ tmp[w] # arg[w]
    /\ Reply(w, "lost")
    /\ Unlock(w)
    /\ UNCHANGED <<config, store, op, key, arg, tmp, tries, ops, log, did, out>>

Applied(w) == /\ log' = [log EXCEPT ![key[w]] = Append(@, arg[w])]
              /\ did' = [did EXCEPT ![w] = @ + 1]

\* The handler's tx.Put
HandlerPut(w) ==
    /\ pc[w] = "write" /\ (op[w] = "casw" => tmp[w] = arg[w])
    /\ store' = [store EXCEPT ![key[w]] = NewValue(op[w], tmp[w], arg[w])]
    /\ Applied(w)
    /\ Reply(w, "ok")
    /\ Unlock(w)
    /\ UNCHANGED <<config, op, key, arg, tmp, tries, ops, out>>

\* tx.Get, or the tx.Put the handler came to, fails; nothing was written.
HandlerErr(w) ==
    /\ pc[w] \in {"read", "write"}
    /\ pc[w] = "write" /\ op[w] = "casw" => tmp[w] = arg[w]
    /\ Reply(w, "err")
    /\ Unlock(w)
    /\ UNCHANGED <<config, store, op, key, arg, tmp, tries, ops, log, did, out>>

\* The connection breaks after the server has replied (external).
ReplyLost(w) ==
    /\ pc[w] = "reply" /\ resp[w] # "gone"
    /\ resp' = [resp EXCEPT ![w] = "gone"]
    /\ UNCHANGED <<config, store, mu, pc, op, key, arg, tmp, tries, ops, log, did, out>>

-----------------------------------------------------------------------------
(* Aerospike *)

\* A record's generation counts its writes.
Generation(k) == Len(log[k])

AsGet(w) ==
    /\ eng = "aerospike" /\ pc[w] = "call" /\ op[w] = "get"
    /\ \/ /\ tmp' = [tmp EXCEPT ![w] = store[key[w]]]
          /\ arg' = [arg EXCEPT ![w] = Generation(key[w])]
          /\ Reply(w, "ok")
       \/ Reply(w, "err") /\ UNCHANGED <<tmp, arg>>
    /\ UNCHANGED <<config, store, mu, op, key, tries, ops, log, did, out>>

\* AddOp, AppendOp and the max expression do what Rostam's handlers do; the native
\* shift of "bitmask" moves in a zero.
AsNewValue(w) ==
    LET cur == store[key[w]]
    IN  CASE op[w] = "shft" -> ShiftIn(cur, 0)
          [] op[w] = "casw" -> tmp[w] + 1
          [] OTHER          -> NewValue(op[w], cur, arg[w])

\* Operate, and the Put of casIncr: EXPECT_GEN_EQUAL.
AsWrite(w) ==
    /\ eng = "aerospike" /\ pc[w] = "call" /\ op[w] # "get"
    /\ op[w] = "casw" => Generation(key[w]) = arg[w]
    /\ store' = [store EXCEPT ![key[w]] = AsNewValue(w)]
    /\ Applied(w)
    /\ Reply(w, "ok")
    /\ UNCHANGED <<config, mu, op, key, arg, tmp, tries, ops, out>>

\* GENERATION_ERROR, on which casIncr reads again.
AsGenError(w) ==
    /\ eng = "aerospike" /\ pc[w] = "call" /\ op[w] = "casw" /\ Generation(key[w]) # arg[w]
    /\ Reply(w, "lost")
    /\ UNCHANGED <<config, store, mu, op, key, arg, tmp, tries, ops, log, did, out>>

\* Any other error of the server.
AsErr(w) ==
    /\ eng = "aerospike" /\ pc[w] = "call" /\ op[w] # "get"
    /\ Reply(w, "err")
    /\ UNCHANGED <<config, store, mu, op, key, arg, tmp, tries, ops, log, did, out>>

-----------------------------------------------------------------------------
(* Read-write ops without a single routing key: the all-shards barrier.    *)
(* The handler (external) is taken to read and write back every key.       *)

BarrierStart(o) ==
    /\ eng = "rostam" /\ pc[o] = "idle" /\ ops[o] < MaxBarriers
    /\ ops' = [ops EXCEPT ![o] = @ + 1]
    /\ tries' = [tries EXCEPT ![o] = 0]       \* the index of the range loop
    /\ pc' = [pc EXCEPT ![o] = "all"]
    /\ UNCHANGED <<config, store, mu, op, key, arg, tmp, resp, log, did, out>>

\* Mutant: the last mutex is left out.
BarrierLockAllButLast(o) ==
    /\ pc[o] = "all" /\ tries[o] < NumShards
    /\ tries[o] = NumShards - 1 \/ mu[tries[o]] = NoOne
    /\ mu' = IF tries[o] = NumShards - 1 THEN mu ELSE [mu EXCEPT ![tries[o]] = o]
    /\ tries' = [tries EXCEPT ![o] = @ + 1]
    /\ UNCHANGED <<config, store, pc, op, key, arg, tmp, resp, ops, log, did, out>>

\* d.opMu[i].Lock(), i ascending
BarrierLock(o) ==
    /\ pc[o] = "all" /\ tries[o] < NumShards /\ mu[tries[o]] = NoOne
    /\ mu' = [mu EXCEPT ![tries[o]] = o]
    /\ tries' = [tries EXCEPT ![o] = @ + 1]
    /\ UNCHANGED <<config, store, pc, op, key, arg, tmp, resp, ops, log, did, out>>

\* The handler reads.
BarrierGet(o) ==
    /\ pc[o] = "all" /\ tries[o] = NumShards
    /\ tmp' = [tmp EXCEPT ![o] = store]
    /\ pc' = [pc EXCEPT ![o] = "writeAll"]
    /\ UNCHANGED <<config, store, mu, op, key, arg, resp, tries, ops, log, did, out>>

\* The handler writes.
BarrierPut(o) ==
    /\ pc[o] = "writeAll"
    /\ store' = tmp[o]
    /\ pc' = [pc EXCEPT ![o] = "unlock"]
    /\ tmp' = [tmp EXCEPT ![o] = [k \in Key |-> Seed(mode)]] /\ tries' = [tries EXCEPT ![o] = 0]
    /\ UNCHANGED <<config, mu, op, key, arg, resp, ops, log, did, out>>

\* The deferred loop: d.opMu[i].Unlock(), i ascending; the op ends with the last one.
BarrierUnlock(o) ==
    /\ pc[o] = "unlock"
    /\ mu' = [mu EXCEPT ![tries[o]] = NoOne]
    /\ IF tries[o] = NumShards - 1
       THEN pc' = [pc EXCEPT ![o] = "idle"] /\ tries' = [tries EXCEPT ![o] = 0]
       ELSE pc' = pc /\ tries' = [tries EXCEPT ![o] = @ + 1]
    /\ UNCHANGED <<config, store, op, key, arg, tmp, resp, ops, log, did, out>>

-----------------------------------------------------------------------------
Work(w) == DoOp(w) \/ OpReturns(w) \/ CasTry(w) \/ CasReread(w)
           \/ CallRead(w) \/ CallLock(w) \/ HandlerGet(w) \/ HandlerCasLost(w)
           \/ HandlerPut(w) \/ HandlerErr(w)
           \/ AsGet(w) \/ AsWrite(w) \/ AsGenError(w) \/ AsErr(w)

Barrier(o) == BarrierStart(o) \/ BarrierLock(o) \/ BarrierGet(o) \/ BarrierPut(o)
              \/ BarrierUnlock(o)

\* Every client has done its operations.
Finished == /\ \A w \in Worker : pc[w] = "idle" /\ ops[w] = MaxOps[mode][w]
            /\ \A o \in Other : pc[o] = "idle" /\ (eng = "rostam" => ops[o] = MaxBarriers)
            /\ UNCHANGED vars

Next == \/ \E w \in Worker : Work(w) \/ ReplyLost(w)
        \/ \E o \in Other : Barrier(o)
        \/ Finished

Spec == Init /\ [][Next]_vars

\* A client that can step does: goroutines are scheduled, and with finitely
\* many operations no mutex is contended for ever.
FairSpec == Spec /\ (\A w \in Worker : WF_vars(Work(w)))
                 /\ (\A o \in Other : WF_vars(Barrier(o)))

-----------------------------------------------------------------------------
(* Properties *)

\* What the record of a key must be after the operations in a log.
Expected(m, l) ==
    CASE m = "atomic"  -> [games |-> Len(l),
                           best  |-> Max({0} \cup {l[i] : i \in 1..Len(l)}),
                           score |-> Points * Len(l)]
      [] m = "bitmask" -> [b \in 1..Width |-> IF eng = "rostam" /\ b <= Len(l) THEN 1 ELSE 0]
      [] OTHER         -> Len(l)

\* No update is lost or torn ("genuinely atomic", rostam_server/main.go:12):
\* every record is what its applied operations, one after the other, make of it.
NoLostUpdate == \A k \in Key : store[k] = Expected(mode, log[k])

\* An operation that returned nil was applied exactly once, one that returned an
\* error of the server (too many retries included) was not applied, and none was
\* applied twice, although the answer to an applied write may be lost and the
\* compare-and-set loops of both engines try again.
NilMeansAppliedOnce ==
    \A w \in Worker :
        /\ did[w] <= 1
        /\ out[w] = "nil" => did[w] = 1
        /\ out[w] = "err" => did[w] = 0

\* While a cross-shard op runs, no routable read-write handler does.
BarrierIsExclusive ==
    \A o \in Other : pc[o] = "writeAll" =>
        \A c \in Client : pc[c] \in {"read", "write", "writeAll"} => c = o

\* Every operation returns: no client waits for ever on the shard mutexes,
\* and casIncr gives up in the end.
EveryOpReturns == \A c \in Client : pc[c] # "idle" ~> pc[c] = "idle"
=============================================================================
