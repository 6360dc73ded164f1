-------------------------- MODULE RostamOpsProofs --------------------------
(***************************************************************************)
(* The safety of the benchmark's read-modify-write operations, for any     *)
(* number of workers, cross-shard clients, keys, shards and retries: the   *)
(* mutexes of benchDispatcher exclude what they must, so that the value a  *)
(* handler writes is computed from the value it replaces; and a worker's   *)
(* verdict on its operation is the truth.                                  *)
(***************************************************************************)
EXTENDS RostamOps, SequenceTheorems, TLAPS

Counting == {"incr", "cas", "append"}   \* the modes whose record is a counter

Types ==
    /\ eng \in {"rostam", "aerospike"} /\ mode \in Modes
    /\ DOMAIN store = Key /\ DOMAIN tmp = Client
    /\ mu \in [Shard -> Client \cup {NoOne}]
    /\ pc \in [Client -> {"idle", "call", "read", "write", "reply", "all", "writeAll", "unlock"}]
    /\ op \in [Client -> {"none", "aru", "incr", "get", "app", "shft", "casw"}]
    /\ key \in [Client -> Key \cup {AnyKey}]
    /\ arg \in [Client -> Nat]
    /\ resp \in [Client -> {"none", "ok", "lost", "err", "gone"}]
    /\ tries \in [Client -> Nat]
    /\ log \in [Key -> Seq(Nat)]
    /\ did \in [Worker -> Nat]
    /\ out \in [Worker -> {"none", "nil", "err", "gone"}]

\* Where a worker and a cross-shard client can be, and with which operation.
OpInv ==
    /\ \A w \in Worker :
        /\ pc[w] \in {"idle", "call", "read", "write", "reply"}
        /\ pc[w] # "idle" => /\ key[w] \in Key
                             /\ op[w] = FirstOp(mode) \/ (mode = "cas" /\ op[w] = "casw")
        /\ pc[w] \in {"read", "write"} => eng = "rostam" /\ op[w] # "get"
    /\ \A o \in Other :
        /\ pc[o] \in {"idle", "all", "writeAll", "unlock"}
        /\ pc[o] # "idle" => eng = "rostam"

\* A running handler holds the mutex of its key's shard; a barrier the mutexes
\* below its index, all of them when its handler runs, and those from the index
\* of the unlocking loop on when it has run.
LockInv ==
    /\ \A w \in Worker : pc[w] \in {"read", "write"} => mu[ShardIndex[key[w]]] = w
    /\ \A o \in Other :
        /\ pc[o] = "all" => tries[o] <= NumShards
                            /\ \A s \in Shard : s < tries[o] => mu[s] = o
        /\ pc[o] = "writeAll" => \A s \in Shard : mu[s] = o
        /\ pc[o] = "unlock" => tries[o] < NumShards
                               /\ \A s \in Shard : tries[o] <= s => mu[s] = o

\* What a handler has read is what is there until it writes.
SnapInv ==
    /\ \A w \in Worker : pc[w] = "write" => tmp[w] = store[key[w]]
    /\ \A o \in Other : pc[o] = "writeAll" => tmp[o] = store

\* casIncr: the values read are counters; on Aerospike the generation that came
\* with a value is the value.
CasInv ==
    mode = "cas" => \A w \in Worker :
        /\ tmp[w] \in Nat
        /\ eng = "aerospike" /\ (op[w] = "casw" \/ (op[w] = "get" /\ pc[w] = "reply" /\ resp[w] = "ok"))
               => tmp[w] = arg[w]

\* How often the current operation was applied, by where it is and what it was told.
DidInv ==
    \A w \in Worker :
        /\ pc[w] \in {"call", "read", "write"} => did[w] = 0 /\ out[w] = "none"
        /\ pc[w] = "reply" =>
            /\ out[w] = "none" /\ resp[w] # "none"
            /\ resp[w] = "ok" => did[w] = (IF op[w] = "get" THEN 0 ELSE 1)
            /\ resp[w] \in {"lost", "err"} => did[w] = 0
            /\ resp[w] = "lost" => op[w] = "casw"
            /\ resp[w] = "gone" => did[w] <= 1
        /\ pc[w] = "idle" => did[w] <= 1
        /\ out[w] = "nil" => did[w] = 1
        /\ out[w] = "err" => did[w] = 0

\* r counts the updates in l, and holds the best of their streaks.
IsRecordOf(r, l) ==
    \E b \in Nat :
        /\ r = [games |-> Len(l), best |-> b, score |-> Points * Len(l)]
        /\ b = 0 \/ \E i \in 1..Len(l) : b = l[i]
        /\ \A i \in 1..Len(l) : b >= l[i]

\* The shifted word after n shifts: ones from below on Rostam, none on Aerospike.
Shifted(n) == [b \in 1..Width |-> IF eng = "rostam" /\ b <= n THEN 1 ELSE 0]

\* The record of a key is what its log says: a counter, a shifted word, or games,
\* best and score.
StoreInv ==
    /\ mode \in Counting => \A k \in Key : store[k] = Len(log[k])
    /\ mode = "atomic" => \A k \in Key : IsRecordOf(store[k], log[k])
    /\ mode = "bitmask" => \A k \in Key : store[k] = Shifted(Len(log[k]))

IInv == Types /\ OpInv /\ LockInv /\ SnapInv /\ CasInv /\ DidInv /\ StoreInv

-----------------------------------------------------------------------------
(* What the steps need of the operation and of the records. *)

\* Only casIncr reads and compares; every other operation is its mode's.
LEMMA OpOfMode ==
    ASSUME IInv, NEW w \in Worker, pc[w] # "idle"
    PROVE  /\ key[w] \in Key /\ w \in Client
           /\ op[w] \in {"get", "casw"} => mode = "cas"
           /\ mode = "cas" => op[w] \in {"get", "casw"}
           /\ mode = "atomic" => op[w] = "aru"
           /\ mode = "incr" => op[w] = "incr"
           /\ mode = "append" => op[w] = "app"
           /\ mode = "bitmask" => op[w] = "shft"
BY DEF IInv, OpInv, Types, FirstOp, Modes, Client

\* Counters are natural numbers.
LEMMA CounterIsNat ==
    ASSUME IInv, NEW k \in Key, mode \in Counting
    PROVE  store[k] \in Nat /\ store[k] = Len(log[k])
BY LenProperties DEF IInv, StoreInv, Types

\* One more shift, which moves in a one or, on Aerospike, a zero.
LEMMA OneMoreShift ==
    ASSUME NEW n \in Nat, NEW x, x = IF eng = "rostam" THEN 1 ELSE 0
    PROVE  ShiftIn(Shifted(n), x) = Shifted(n + 1)
<1>1. ASSUME NEW b \in 1..Width
      PROVE  (IF b = 1 THEN x ELSE Shifted(n)[b - 1]) = IF eng = "rostam" /\ b <= n + 1 THEN 1 ELSE 0
  <2>1. CASE b = 1
    BY <2>1
  <2>2. CASE b # 1
    <3>1. b - 1 \in 1..Width /\ (b - 1 <= n <=> b <= n + 1)
      BY <2>2, BoundAssumption
    <3> QED BY <2>2, <3>1 DEF Shifted
  <2> QED BY <2>1, <2>2
<1> QED BY <1>1 DEF ShiftIn, Shifted

\* One more update of a record.
LEMMA OneMoreUpdate ==
    ASSUME NEW l \in Seq(Nat), NEW r, IsRecordOf(r, l), NEW a \in Nat
    PROVE  IsRecordOf(HandleAtomicRecordUpdate(r, a), Append(l, a))
<1>1. PICK b \in Nat :
        /\ r = [games |-> Len(l), best |-> b, score |-> Points * Len(l)]
        /\ b = 0 \/ \E i \in 1..Len(l) : b = l[i]
        /\ \A i \in 1..Len(l) : b >= l[i]
  BY DEF IsRecordOf
<1> DEFINE l2 == Append(l, a)
           b2 == IF a > b THEN a ELSE b
<1>2. /\ Len(l) \in Nat /\ Len(l2) = Len(l) + 1
      /\ \A i \in 1..Len(l) : l2[i] = l[i]
      /\ l2[Len(l) + 1] = a
  BY AppendProperties, LenProperties
<1>3. \A i \in 1..Len(l) : l[i] \in Nat
  BY ElementOfSeq
<1>4. HandleAtomicRecordUpdate(r, a) = [games |-> Len(l2), best |-> b2, score |-> Points * Len(l2)]
  <2>1. Points * Len(l) + Points = Points * (Len(l) + 1)
    BY <1>2 DEF Points
  <2> HIDE DEF l2
  <2> QED BY <1>1, <1>2, <2>1 DEF HandleAtomicRecordUpdate
<1> HIDE DEF l2
<1>5. b2 \in Nat /\ (b2 = 0 \/ \E i \in 1..Len(l2) : b2 = l2[i])
  <2>1. CASE a > b
    <3>1. b2 = l2[Len(l) + 1] /\ Len(l) + 1 \in 1..Len(l2)
      BY <1>2, <2>1
    <3> QED BY <2>1, <3>1
  <2>2. CASE ~(a > b) /\ b = 0
    BY <2>2
  <2>3. CASE ~(a > b) /\ \E i \in 1..Len(l) : b = l[i]
    <3>1. PICK i \in 1..Len(l) : b = l[i]
      BY <2>3
    <3>2. b2 = l2[i] /\ i \in 1..Len(l2)
      BY <1>2, <2>3, <3>1
    <3> QED BY <2>3, <3>2
  <2> QED BY <1>1, <2>1, <2>2, <2>3
<1>6. ASSUME NEW i \in 1..Len(l2) PROVE b2 >= l2[i]
  <2>1. CASE i \in 1..Len(l)
    BY <1>1, <1>2, <1>3, <2>1
  <2>2. CASE i = Len(l) + 1
    BY <1>2, <2>2
  <2> QED BY <1>2, <2>1, <2>2
<1> QED BY <1>4, <1>5, <1>6 DEF IsRecordOf, l2

\* What the history variables say after an operation was applied.
LEMMA AppliedFacts ==
    ASSUME IInv, NEW w \in Worker, key[w] \in Key, Applied(w)
    PROVE  /\ log' \in [Key -> Seq(Nat)] /\ did' \in [Worker -> Nat]
           /\ log'[key[w]] = Append(log[key[w]], arg[w])
           /\ \A k \in Key \ {key[w]} : log'[k] = log[k]
           /\ Len(log[key[w]]) \in Nat /\ Len(log'[key[w]]) = Len(log[key[w]]) + 1
           /\ did' = [did EXCEPT ![w] = @ + 1]
<1>1. log \in [Key -> Seq(Nat)] /\ arg[w] \in Nat /\ log[key[w]] \in Seq(Nat)
  BY DEF IInv, Types, Client
<1>2. /\ Append(log[key[w]], arg[w]) \in Seq(Nat)
      /\ Len(Append(log[key[w]], arg[w])) = Len(log[key[w]]) + 1
      /\ Len(log[key[w]]) \in Nat
  BY <1>1, AppendProperties, LenProperties
<1>3. did' \in [Worker -> Nat]
  <2>1. did \in [Worker -> Nat] /\ did[w] + 1 \in Nat
    BY DEF IInv, Types
  <2> QED BY <2>1 DEF Applied
<1> QED BY <1>1, <1>2, <1>3 DEF Applied

\* What newBench and setupOp leave.
LEMMA InitIInv == Init => IInv
<1> SUFFICES ASSUME Init PROVE IInv
  OBVIOUS
<1> USE ClientAssumption DEF Init
<1>1. <<>> \in Seq(Nat) /\ Len(<<>>) = 0
  BY EmptySeq
<1>2. Types
  <2>1. log \in [Key -> Seq(Nat)]
    BY <1>1
  <2> QED BY <2>1 DEF Types, Client
<1>3. OpInv /\ LockInv /\ SnapInv
  BY DEF OpInv, LockInv, SnapInv, Client
<1>4. CasInv /\ DidInv
  BY DEF CasInv, DidInv, Client, Seed
<1>5. StoreInv
  <2>1. mode \in Counting => \A k \in Key : store[k] = Len(log[k])
    BY <1>1 DEF Counting, Seed
  <2>2. ASSUME mode = "atomic", NEW k \in Key PROVE IsRecordOf(store[k], log[k])
    <3>1. store[k] = [games |-> 0, best |-> 0, score |-> 0] /\ log[k] = <<>> /\ Points * 0 = 0
      BY <2>2 DEF Seed, Points
    <3> QED BY <1>1, <3>1 DEF IsRecordOf
  <2>3. ASSUME mode = "bitmask", NEW k \in Key PROVE store[k] = Shifted(Len(log[k]))
    <3>1. store[k] = [b \in 1..Width |-> 0] /\ Len(log[k]) = 0
      BY <1>1, <2>3 DEF Seed
    <3>2. \A b \in 1..Width : ~(b <= 0)
      BY BoundAssumption
    <3> QED BY <3>1, <3>2 DEF Shifted
  <2> QED BY <2>1, <2>2, <2>3 DEF StoreInv
<1> QED BY <1>2, <1>3, <1>4, <1>5 DEF IInv

-----------------------------------------------------------------------------
(* One lemma per action. *)

\* An operation begins.
LEMMA DoOpStep ==
    ASSUME IInv, NEW w \in Worker, DoOp(w)
    PROVE  IInv'
<1> USE ClientAssumption DEF IInv, DoOp, config
<1>1. Types'
  <2>1. arg' \in [Client -> Nat]
    BY BoundAssumption DEF Types, Client
  <2>2. op' \in [Client -> {"none", "aru", "incr", "get", "app", "shft", "casw"}]
    BY DEF Types, Client, FirstOp, Modes
  <2>3. did' \in [Worker -> Nat]
    BY DEF Types
  <2> QED BY <2>1, <2>2, <2>3 DEF Types, Client
<1>2. OpInv'
  <2>1. /\ key'[w] \in Key /\ op'[w] = FirstOp(mode) /\ pc'[w] = "call"
        /\ \A c \in Client \ {w} : pc'[c] = pc[c] /\ key'[c] = key[c] /\ op'[c] = op[c]
    BY DEF Types, Client
  <2> QED BY <2>1 DEF OpInv, Client
<1>3. LockInv'
  BY DEF LockInv, OpInv, Types, Client
<1>4. SnapInv'
  BY DEF SnapInv, OpInv, Types, Client
<1>5. CasInv'
  BY DEF CasInv, Types, Client, FirstOp
<1>6. DidInv'
  BY DEF DidInv, OpInv, Types, Client
<1>7. StoreInv'
  BY DEF StoreInv, Shifted
<1> QED BY <1>1, <1>2, <1>3, <1>4, <1>5, <1>6, <1>7

\* It ends, with nil or an error.
LEMMA OpReturnsStep ==
    ASSUME IInv, NEW w \in Worker, OpReturns(w)
    PROVE  IInv'
<1> USE ClientAssumption DEF IInv, OpReturns, Failed, config
<1>1. Types'
  BY DEF Types, Client
<1>2. OpInv'
  BY DEF OpInv, Types, Client
<1>3. LockInv'
  BY DEF LockInv, OpInv, Types, Client
<1>4. SnapInv'
  BY DEF SnapInv, OpInv, Types, Client
<1>5. CasInv'
  BY DEF CasInv, Types, Client, Seed
<1>6. DidInv'
  BY DEF DidInv, OpInv, Types, Client
<1>7. StoreInv'
  BY DEF StoreInv, Shifted
<1> QED BY <1>1, <1>2, <1>3, <1>4, <1>5, <1>6, <1>7

\* casIncr goes from the value read to the write.
LEMMA CasTryStep ==
    ASSUME IInv, NEW w \in Worker, CasTry(w)
    PROVE  IInv'
<1> USE ClientAssumption DEF IInv, CasTry, config
<1>1. Types'
  <2>1. w \in Client /\ mode = "cas"
    BY OpOfMode
  <2>2. tmp[w] \in Nat
    BY <2>1 DEF CasInv
  <2>3. arg' \in [Client -> Nat]
    BY <2>1, <2>2 DEF Types
  <2>4. tries' \in [Client -> Nat]
    BY <2>1 DEF Types
  <2> QED BY <2>1, <2>3, <2>4 DEF Types
<1>2. OpInv'
  <2>1. mode = "cas" /\ key[w] \in Key /\ w \in Client
    BY OpOfMode
  <2>2. op'[w] = "casw" /\ pc'[w] = "call" /\ \A c \in Client \ {w} : pc'[c] = pc[c] /\ op'[c] = op[c]
    BY <2>1 DEF Types
  <2> QED BY <2>1, <2>2 DEF OpInv, Client
<1>3. LockInv'
  BY DEF LockInv, OpInv, Types, Client
<1>4. SnapInv'
  BY DEF SnapInv, OpInv, Types, Client
<1>5. CasInv'
  BY DEF CasInv, Types, Client
<1>6. DidInv'
  BY DEF DidInv, OpInv, Types, Client
<1>7. StoreInv'
  BY DEF StoreInv, Shifted
<1> QED BY <1>1, <1>2, <1>3, <1>4, <1>5, <1>6, <1>7

\* casIncr lost its race.
LEMMA CasRereadStep ==
    ASSUME IInv, NEW w \in Worker, CasReread(w)
    PROVE  IInv'
<1> USE ClientAssumption DEF IInv, CasReread, config
<1>1. Types'
  BY DEF Types, Client
<1>2. OpInv'
  <2>1. mode = "cas" /\ FirstOp(mode) = "get"
    BY OpOfMode DEF FirstOp
  <2> QED BY <2>1 DEF OpInv, Types, Client
<1>3. LockInv'
  BY DEF LockInv, OpInv, Types, Client
<1>4. SnapInv'
  BY DEF SnapInv, OpInv, Types, Client
<1>5. CasInv'
  BY DEF CasInv, Types, Client
<1>6. DidInv'
  BY DEF DidInv, OpInv, Types, Client
<1>7. StoreInv'
  BY DEF StoreInv, Shifted
<1> QED BY <1>1, <1>2, <1>3, <1>4, <1>5, <1>6, <1>7

\* A read, without a lock.
LEMMA CallReadStep ==
    ASSUME IInv, NEW w \in Worker, CallRead(w)
    PROVE  IInv'
<1> USE ClientAssumption DEF IInv, CallRead, Reply, config
<1>1. Types'
  BY DEF Types, Client
<1>2. OpInv'
  <2>1. /\ pc[w] = "call" /\ pc'[w] = "reply" /\ \A c \in Client \ {w} : pc'[c] = pc[c]
        /\ UNCHANGED <<eng, mode, op, key>>
    BY DEF Types, Client
  <2> HIDE DEF CallRead
  <2> QED BY <2>1 DEF OpInv, Client
<1>3. LockInv'
  BY DEF LockInv, OpInv, Types, Client
<1>4. SnapInv'
  BY DEF SnapInv, OpInv, Types, Client
<1>5. CasInv'
  <2>1. key[w] \in Key /\ mode = "cas" /\ store[key[w]] \in Nat
    BY OpOfMode, CounterIsNat DEF Counting
  <2> QED BY <2>1 DEF CasInv, Types, Client
<1>6. DidInv'
  BY DEF DidInv, OpInv, Types, Client
<1>7. StoreInv'
  BY DEF StoreInv, Shifted
<1> QED BY <1>1, <1>2, <1>3, <1>4, <1>5, <1>6, <1>7

\* The lock of the key's shard.
LEMMA CallLockStep ==
    ASSUME IInv, NEW w \in Worker, CallLock(w)
    PROVE  IInv'
<1> USE ClientAssumption DEF IInv, CallLock, config
<1>1. Types'
  BY DEF Types, Client
<1>2. OpInv'
  BY DEF OpInv, Types, Client
<1>3. LockInv'
  <2>1. w \in Client /\ key[w] \in Key /\ ShardIndex[key[w]] \in Shard
    BY OpOfMode, ShardAssumption
  <2>2. /\ mu'[ShardIndex[key[w]]] = w
        /\ \A s \in Shard : mu[s] # NoOne => mu'[s] = mu[s]
    BY <2>1 DEF Types
  <2>3. \A v \in Worker : pc[v] # "idle" => ShardIndex[key[v]] \in Shard
    BY OpOfMode, ShardAssumption
  <2>4. \A c \in Client \ {w} : pc'[c] = pc[c]
    BY DEF Types
  <2>5. \A v \in Worker : pc'[v] \in {"read", "write"} => mu'[ShardIndex[key'[v]]] = v
    BY <2>1, <2>2, <2>3, <2>4 DEF LockInv, Client
  <2>6. ASSUME NEW o \in Other PROVE o \in Client \ {w} /\ o # NoOne
    BY DEF Client
  <2> QED BY <2>2, <2>4, <2>5, <2>6 DEF LockInv
<1>4. SnapInv'
  BY DEF SnapInv, OpInv, Types, Client
<1>5. CasInv'
  BY DEF CasInv, Types, Client
<1>6. DidInv'
  BY DEF DidInv, OpInv, Types, Client
<1>7. StoreInv'
  BY DEF StoreInv, Shifted
<1> QED BY <1>1, <1>2, <1>3, <1>4, <1>5, <1>6, <1>7

\* The handler's read.
LEMMA HandlerGetStep ==
    ASSUME IInv, NEW w \in Worker, HandlerGet(w)
    PROVE  IInv'
<1> USE ClientAssumption DEF IInv, HandlerGet, config
<1>1. Types'
  BY DEF Types, Client
<1>2. OpInv'
  BY DEF OpInv, Types, Client
<1>3. LockInv'
  BY DEF LockInv, OpInv, Types, Client
<1>4. SnapInv'
  BY DEF SnapInv, OpInv, Types, Client
<1>5. CasInv'
  <2>1. key[w] \in Key /\ eng = "rostam" /\ (mode = "cas" => store[key[w]] \in Nat)
    BY OpOfMode, CounterIsNat DEF Counting, OpInv
  <2> QED BY <2>1 DEF CasInv, Types, Client
<1>6. DidInv'
  BY DEF DidInv, OpInv, Types, Client
<1>7. StoreInv'
  BY DEF StoreInv, Shifted
<1> QED BY <1>1, <1>2, <1>3, <1>4, <1>5, <1>6, <1>7

\* The handler refuses a compare-and-set.
LEMMA HandlerCasLostStep ==
    ASSUME IInv, NEW w \in Worker, HandlerCasLost(w)
    PROVE  IInv'
<1> USE ClientAssumption DEF IInv, HandlerCasLost, Reply, Unlock, config
<1>1. Types'
  BY DEF Types, Client
<1>2. OpInv'
  BY DEF OpInv, Types, Client
<1>3. LockInv'
  BY DEF LockInv, OpInv, Types, Client
<1>4. SnapInv'
  BY DEF SnapInv, OpInv, Types, Client
<1>5. CasInv'
  BY DEF CasInv, Types, Client
<1>6. DidInv'
  BY DEF DidInv, OpInv, Types, Client
<1>7. StoreInv'
  BY DEF StoreInv, Shifted
<1> QED BY <1>1, <1>2, <1>3, <1>4, <1>5, <1>6, <1>7

\* The handler's write.
LEMMA HandlerPutStep ==
    ASSUME IInv, NEW w \in Worker, HandlerPut(w)
    PROVE  IInv'
<1> USE ClientAssumption DEF IInv, HandlerPut, Reply, Unlock, Applied, config
<1>1. Types'
  <2>1. key[w] \in Key /\ w \in Client /\ ShardIndex[key[w]] \in Shard
    BY OpOfMode, ShardAssumption
  <2>2. log' \in [Key -> Seq(Nat)] /\ did' \in [Worker -> Nat]
    BY <2>1, AppliedFacts
  <2>3. DOMAIN store' = Key
    BY DEF Types
  <2> QED BY <2>1, <2>2, <2>3 DEF Types
<1>2. OpInv'
  BY DEF OpInv, Types, Client
<1>3. LockInv'
  BY DEF LockInv, OpInv, Types, Client
<1>4. SnapInv'
  <2>1. key[w] \in Key /\ w \in Client /\ ShardIndex[key[w]] \in Shard /\ mu[ShardIndex[key[w]]] = w
    BY OpOfMode, ShardAssumption DEF LockInv
  <2>2. ASSUME NEW v \in Worker, pc'[v] = "write" PROVE tmp'[v] = store'[key'[v]]
    <3>1. v # w /\ pc[v] = "write" /\ key[v] \in Key
      BY <2>1, <2>2, OpOfMode DEF Types, Client
    <3>2. key[v] # key[w]
      BY <2>1, <3>1 DEF LockInv
    <3> QED BY <2>1, <3>1, <3>2 DEF SnapInv, Types
  <2>3. ASSUME NEW o \in Other PROVE pc'[o] # "writeAll"
    <3>1. o # w /\ o \in Client
      BY DEF Client
    <3> QED BY <2>1, <3>1 DEF LockInv, Types
  <2> QED BY <2>2, <2>3 DEF SnapInv
<1>5. CasInv'
  BY DEF CasInv, Types, Client, OpInv
<1>6. DidInv'
  BY DEF DidInv, OpInv, Types, Client
<1>7. StoreInv'
  <2> DEFINE k == key[w]
  <2>1. k \in Key /\ tmp[w] = store[k] /\ arg[w] \in Nat /\ log[k] \in Seq(Nat)
    BY OpOfMode DEF SnapInv, Types, Client
  <2>2. /\ log'[k] = Append(log[k], arg[w]) /\ Len(log[k]) \in Nat /\ Len(log'[k]) = Len(log[k]) + 1
        /\ \A j \in Key \ {k} : log'[j] = log[j]
    BY <2>1, AppliedFacts
  <2>3. /\ store'[k] = NewValue(op[w], store[k], arg[w])
        /\ \A j \in Key \ {k} : store'[j] = store[j]
    BY <2>1 DEF Types
  <2>4. ASSUME mode \in Counting PROVE store'[k] = Len(log'[k])
    <3>1. op[w] \in {"incr", "app"} \/ op[w] = "casw"
      BY <2>4, OpOfMode DEF Counting, OpInv
    <3>2. NewValue(op[w], store[k], arg[w]) = store[k] + 1
      BY <2>1, <3>1 DEF NewValue
    <3> QED BY <2>1, <2>2, <2>3, <2>4, <3>2 DEF StoreInv
  <2>5. ASSUME mode = "atomic" PROVE IsRecordOf(store'[k], log'[k])
    <3>1. NewValue(op[w], store[k], arg[w]) = HandleAtomicRecordUpdate(store[k], arg[w])
      BY <2>5, OpOfMode DEF NewValue
    <3>2. IsRecordOf(store[k], log[k])
      BY <2>1, <2>5 DEF StoreInv
    <3> QED BY <2>1, <2>2, <2>3, <3>1, <3>2, OneMoreUpdate
  <2>6. ASSUME mode = "bitmask" PROVE store'[k] = Shifted(Len(log'[k]))
    <3>1. store[k] = Shifted(Len(log[k])) /\ eng = "rostam" /\ NewValue(op[w], store[k], arg[w]) = ShiftIn(store[k], 1)
      BY <2>1, <2>6, OpOfMode DEF StoreInv, OpInv, NewValue, HandleShift
    <3> QED BY <2>2, <2>3, <3>1, OneMoreShift
  <2>7. \A n : Shifted(n)' = Shifted(n)
    BY DEF Shifted
  <2> QED BY <2>1, <2>2, <2>3, <2>4, <2>5, <2>6, <2>7 DEF StoreInv, Counting
<1> QED BY <1>1, <1>2, <1>3, <1>4, <1>5, <1>6, <1>7

\* The handler fails.
LEMMA HandlerErrStep ==
    ASSUME IInv, NEW w \in Worker, HandlerErr(w)
    PROVE  IInv'
<1> USE ClientAssumption DEF IInv, HandlerErr, Reply, Unlock, config
<1>1. Types'
  BY DEF Types, Client
<1>2. OpInv'
  BY DEF OpInv, Types, Client
<1>3. LockInv'
  BY DEF LockInv, OpInv, Types, Client
<1>4. SnapInv'
  BY DEF SnapInv, OpInv, Types, Client
<1>5. CasInv'
  BY DEF CasInv, Types, Client
<1>6. DidInv'
  BY DEF DidInv, OpInv, Types, Client
<1>7. StoreInv'
  BY DEF StoreInv, Shifted
<1> QED BY <1>1, <1>2, <1>3, <1>4, <1>5, <1>6, <1>7

\* The connection breaks.
LEMMA ReplyLostStep ==
    ASSUME IInv, NEW w \in Worker, ReplyLost(w)
    PROVE  IInv'
<1> USE ClientAssumption DEF IInv, ReplyLost, config
<1>1. Types'
  BY DEF Types, Client
<1>2. OpInv'
  BY DEF OpInv, Types, Client
<1>3. LockInv'
  BY DEF LockInv, OpInv, Types, Client
<1>4. SnapInv'
  BY DEF SnapInv, OpInv, Types, Client
<1>5. CasInv'
  BY DEF CasInv, Types, Client
<1>6. DidInv'
  BY DEF DidInv, OpInv, Types, Client
<1>7. StoreInv'
  BY DEF StoreInv, Shifted
<1> QED BY <1>1, <1>2, <1>3, <1>4, <1>5, <1>6, <1>7

\* Aerospike's read.
LEMMA AsGetStep ==
    ASSUME IInv, NEW w \in Worker, AsGet(w)
    PROVE  IInv'
<1> USE ClientAssumption DEF IInv, AsGet, Reply, config
<1>1. Types'
  <2>1. key[w] \in Key /\ w \in Client
    BY OpOfMode
  <2>2. Generation(key[w]) \in Nat
    BY <2>1, LenProperties DEF Types, Generation
  <2>3. arg' \in [Client -> Nat]
    <3>1. arg \in [Client -> Nat]
      BY DEF Types
    <3> QED BY <2>1, <2>2, <3>1
  <2> QED BY <2>1, <2>3 DEF Types
<1>2. OpInv'
  BY DEF OpInv, Types, Client
<1>3. LockInv'
  BY DEF LockInv, OpInv, Types, Client
<1>4. SnapInv'
  BY DEF SnapInv, OpInv, Types, Client
<1>5. CasInv'
  <2>1. /\ key[w] \in Key /\ mode = "cas" /\ w \in Client
        /\ store[key[w]] \in Nat /\ store[key[w]] = Generation(key[w])
    BY OpOfMode, CounterIsNat DEF Counting, Generation
  <2>2. CASE resp'[w] = "ok"
    <3>1. tmp'[w] = store[key[w]] /\ arg'[w] = Generation(key[w])
      BY <2>1, <2>2 DEF Types
    <3>2. \A v \in Worker \ {w} : /\ tmp'[v] = tmp[v] /\ arg'[v] = arg[v] /\ op'[v] = op[v]
                                  /\ pc'[v] = pc[v] /\ resp'[v] = resp[v]
      BY <2>1 DEF Types, Client
    <3> QED BY <2>1, <3>1, <3>2 DEF CasInv
  <2>3. CASE resp'[w] # "ok"
    <3>1. UNCHANGED <<tmp, arg>>
      BY <2>1, <2>3 DEF Types
    <3> QED BY <2>1, <2>3, <3>1 DEF CasInv, Types, Client
  <2> QED BY <2>2, <2>3
<1>6. DidInv'
  BY DEF DidInv, OpInv, Types, Client
<1>7. StoreInv'
  BY DEF StoreInv, Shifted
<1> QED BY <1>1, <1>2, <1>3, <1>4, <1>5, <1>6, <1>7

\* Aerospike's write.
LEMMA AsWriteStep ==
    ASSUME IInv, NEW w \in Worker, AsWrite(w)
    PROVE  IInv'
<1> USE ClientAssumption DEF IInv, AsWrite, Reply, Applied, config
<1>1. Types'
  <2>1. key[w] \in Key /\ w \in Client
    BY OpOfMode
  <2>2. log' \in [Key -> Seq(Nat)] /\ did' \in [Worker -> Nat]
    BY <2>1, AppliedFacts
  <2>3. DOMAIN store' = Key
    BY DEF Types
  <2> QED BY <2>1, <2>2, <2>3 DEF Types
<1>2. OpInv'
  BY DEF OpInv, Types, Client
<1>3. LockInv'
  BY DEF LockInv, OpInv, Types, Client
<1>4. SnapInv'
  BY DEF SnapInv, OpInv, Types, Client
<1>5. CasInv'
  BY DEF CasInv, Types, Client, OpInv
<1>6. DidInv'
  BY DEF DidInv, OpInv, Types, Client
<1>7. StoreInv'
  <2> DEFINE k == key[w]
  <2>1. k \in Key /\ arg[w] \in Nat /\ log[k] \in Seq(Nat)
    BY OpOfMode DEF Types, Client
  <2>2. /\ log'[k] = Append(log[k], arg[w]) /\ Len(log[k]) \in Nat /\ Len(log'[k]) = Len(log[k]) + 1
        /\ \A j \in Key \ {k} : log'[j] = log[j]
    BY <2>1, AppliedFacts
  <2>3. /\ store'[k] = AsNewValue(w)
        /\ \A j \in Key \ {k} : store'[j] = store[j]
    BY <2>1 DEF Types
  <2>4. ASSUME mode \in Counting PROVE store'[k] = Len(log'[k])
    <3>1. store[k] = Len(log[k])
      BY <2>1, <2>4 DEF StoreInv
    <3>2. CASE op[w] = "casw"
      <4>1. tmp[w] = arg[w] /\ arg[w] = Len(log[k])
        BY <3>2, OpOfMode DEF CasInv, Generation
      <4> QED BY <2>2, <2>3, <3>2, <4>1 DEF AsNewValue
    <3>3. CASE op[w] \in {"incr", "app"}
      BY <2>2, <2>3, <3>1, <3>3 DEF AsNewValue, NewValue
    <3> QED BY <2>4, <3>2, <3>3, OpOfMode DEF Counting
  <2>5. ASSUME mode = "atomic" PROVE IsRecordOf(store'[k], log'[k])
    <3>1. AsNewValue(w) = HandleAtomicRecordUpdate(store[k], arg[w])
      BY <2>5, OpOfMode DEF AsNewValue, NewValue
    <3>2. IsRecordOf(store[k], log[k])
      BY <2>1, <2>5 DEF StoreInv
    <3> QED BY <2>1, <2>2, <2>3, <3>1, <3>2, OneMoreUpdate
  <2>6. ASSUME mode = "bitmask" PROVE store'[k] = Shifted(Len(log'[k]))
    <3>1. store[k] = Shifted(Len(log[k])) /\ eng = "aerospike" /\ AsNewValue(w) = ShiftIn(store[k], 0)
      BY <2>1, <2>6, OpOfMode DEF StoreInv, AsNewValue
    <3> QED BY <2>2, <2>3, <3>1, OneMoreShift
  <2>7. \A n : Shifted(n)' = Shifted(n)
    BY DEF Shifted
  <2> QED BY <2>1, <2>2, <2>3, <2>4, <2>5, <2>6, <2>7 DEF StoreInv, Counting
<1> QED BY <1>1, <1>2, <1>3, <1>4, <1>5, <1>6, <1>7

\* Aerospike refuses a generation.
LEMMA AsGenErrorStep ==
    ASSUME IInv, NEW w \in Worker, AsGenError(w)
    PROVE  IInv'
<1> USE ClientAssumption DEF IInv, AsGenError, Reply, config
<1>1. Types'
  BY DEF Types, Client
<1>2. OpInv'
  BY DEF OpInv, Types, Client
<1>3. LockInv'
  BY DEF LockInv, OpInv, Types, Client
<1>4. SnapInv'
  BY DEF SnapInv, OpInv, Types, Client
<1>5. CasInv'
  BY DEF CasInv, Types, Client
<1>6. DidInv'
  BY DEF DidInv, OpInv, Types, Client
<1>7. StoreInv'
  BY DEF StoreInv, Shifted
<1> QED BY <1>1, <1>2, <1>3, <1>4, <1>5, <1>6, <1>7

\* Aerospike fails.
LEMMA AsErrStep ==
    ASSUME IInv, NEW w \in Worker, AsErr(w)
    PROVE  IInv'
<1> USE ClientAssumption DEF IInv, AsErr, Reply, config
<1>1. Types'
  BY DEF Types, Client
<1>2. OpInv'
  BY DEF OpInv, Types, Client
<1>3. LockInv'
  BY DEF LockInv, OpInv, Types, Client
<1>4. SnapInv'
  BY DEF SnapInv, OpInv, Types, Client
<1>5. CasInv'
  BY DEF CasInv, Types, Client
<1>6. DidInv'
  BY DEF DidInv, OpInv, Types, Client
<1>7. StoreInv'
  BY DEF StoreInv, Shifted
<1> QED BY <1>1, <1>2, <1>3, <1>4, <1>5, <1>6, <1>7

\* A cross-shard operation begins.
LEMMA BarrierStartStep ==
    ASSUME IInv, NEW o \in Other, BarrierStart(o)
    PROVE  IInv'
<1> USE ClientAssumption DEF IInv, BarrierStart, config
<1>1. Types'
  BY DEF Types, Client
<1>2. OpInv'
  BY DEF OpInv, Types, Client
<1>3. LockInv'
  <2>1. pc'[o] = "all" /\ tries'[o] = 0 /\ \A c \in Client \ {o} : pc'[c] = pc[c] /\ tries'[c] = tries[c]
    BY DEF Types, Client
  <2>2. 0 <= NumShards /\ \A s \in Shard : ~(s < 0)
    BY ShardAssumption DEF Shard
  <2> QED BY <2>1, <2>2 DEF LockInv, Client
<1>4. SnapInv'
  BY DEF SnapInv, OpInv, Types, Client
<1>5. CasInv'
  BY DEF CasInv, Types, Client
<1>6. DidInv'
  BY DEF DidInv, OpInv, Types, Client
<1>7. StoreInv'
  BY DEF StoreInv, Shifted
<1> QED BY <1>1, <1>2, <1>3, <1>4, <1>5, <1>6, <1>7

\* It locks one more mutex.
LEMMA BarrierLockStep ==
    ASSUME IInv, NEW o \in Other, BarrierLock(o)
    PROVE  IInv'
<1> USE ClientAssumption DEF IInv, BarrierLock, config
<1>1. Types'
  <2>1. o \in Client /\ tries[o] \in Shard
    BY ShardAssumption DEF Types, Client, Shard
  <2>2. mu' \in [Shard -> Client \cup {NoOne}]
    BY <2>1 DEF Types
  <2>3. tries' \in [Client -> Nat]
    BY <2>1 DEF Types
  <2> QED BY <2>2, <2>3 DEF Types
<1>2. OpInv'
  BY DEF OpInv, Types, Client
<1>3. LockInv'
  <2>1. o \in Client /\ tries[o] \in Nat /\ tries[o] \in Shard /\ o # NoOne
    BY ShardAssumption DEF Types, Client, Shard
  <2>2. /\ mu'[tries[o]] = o /\ tries'[o] = tries[o] + 1
        /\ \A s \in Shard : mu[s] # NoOne => mu'[s] = mu[s]
        /\ \A c \in Client \ {o} : tries'[c] = tries[c]
    BY <2>1 DEF Types
  <2>3. \A v \in Worker : pc[v] # "idle" => ShardIndex[key[v]] \in Shard
    BY OpOfMode, ShardAssumption
  <2>4. ASSUME NEW v \in Worker, pc[v] \in {"read", "write"} PROVE mu'[ShardIndex[key[v]]] = v
    BY <2>2, <2>3, <2>4 DEF LockInv, Client
  <2>5. ASSUME NEW p \in Other, p # o
        PROVE  /\ pc[p] = "all" => tries'[p] <= NumShards /\ \A s \in Shard : s < tries'[p] => mu'[s] = p
               /\ pc[p] = "writeAll" => \A s \in Shard : mu'[s] = p
               /\ pc[p] = "unlock" => /\ tries'[p] < NumShards
                                      /\ \A s \in Shard : tries'[p] <= s => mu'[s] = p
    BY <2>2, <2>5 DEF LockInv, Client
  <2>6. tries'[o] <= NumShards /\ \A s \in Shard : s < tries'[o] => mu'[s] = o
    <3>1. \A s \in Shard : s < tries[o] + 1 => s < tries[o] \/ s = tries[o]
      BY <2>1, ShardAssumption DEF Shard
    <3>2. tries[o] + 1 <= NumShards
      BY <2>1, ShardAssumption
    <3> QED BY <2>1, <2>2, <3>1, <3>2 DEF LockInv
  <2> QED BY <2>4, <2>5, <2>6 DEF LockInv
<1>4. SnapInv'
  BY DEF SnapInv, OpInv, Types, Client
<1>5. CasInv'
  BY DEF CasInv, Types, Client
<1>6. DidInv'
  BY DEF DidInv, OpInv, Types, Client
<1>7. StoreInv'
  BY DEF StoreInv, Shifted
<1> QED BY <1>1, <1>2, <1>3, <1>4, <1>5, <1>6, <1>7

\* Its handler reads.
LEMMA BarrierGetStep ==
    ASSUME IInv, NEW o \in Other, BarrierGet(o)
    PROVE  IInv'
<1> USE ClientAssumption DEF IInv, BarrierGet, config
<1>1. Types'
  BY DEF Types, Client
<1>2. OpInv'
  BY DEF OpInv, Types, Client
<1>3. LockInv'
  <2>1. \A s \in Shard : s < NumShards
    BY ShardAssumption DEF Shard
  <2>2. \A s \in Shard : mu[s] = o
    BY <2>1 DEF LockInv
  <2>3. pc'[o] = "writeAll" /\ \A c \in Client \ {o} : pc'[c] = pc[c]
    BY DEF Types, Client
  <2> QED BY <2>2, <2>3 DEF LockInv, Client
<1>4. SnapInv'
  BY DEF SnapInv, OpInv, Types, Client
<1>5. CasInv'
  BY DEF CasInv, Types, Client
<1>6. DidInv'
  BY DEF DidInv, OpInv, Types, Client
<1>7. StoreInv'
  BY DEF StoreInv, Shifted
<1> QED BY <1>1, <1>2, <1>3, <1>4, <1>5, <1>6, <1>7

\* Its handler writes.
LEMMA BarrierPutStep ==
    ASSUME IInv, NEW o \in Other, BarrierPut(o)
    PROVE  IInv'
<1> USE ClientAssumption DEF IInv, BarrierPut, config
<1>1. Types'
  <2>1. o \in Client /\ store' = store
    BY DEF Client, SnapInv
  <2>2. tries' \in [Client -> Nat]
    BY DEF Types
  <2>3. DOMAIN tmp' = Client
    BY DEF Types
  <2> QED BY <2>1, <2>2, <2>3 DEF Types
<1>2. OpInv'
  BY DEF OpInv, Types, Client
<1>3. LockInv'
  <2>1. o \in Client /\ \A s \in Shard : mu[s] = o
    BY DEF Client, LockInv
  <2>2. /\ pc'[o] = "unlock" /\ tries'[o] = 0
        /\ \A c \in Client \ {o} : pc'[c] = pc[c] /\ tries'[c] = tries[c]
    BY <2>1 DEF Types
  <2>3. 0 < NumShards
    BY ShardAssumption
  <2> QED BY <2>1, <2>2, <2>3 DEF LockInv, Client
<1>4. SnapInv'
  BY DEF SnapInv, OpInv, Types, Client
<1>5. CasInv'
  BY DEF CasInv, Types, Client
<1>6. DidInv'
  BY DEF DidInv, OpInv, Types, Client
<1>7. StoreInv'
  BY DEF StoreInv, Shifted, SnapInv
<1> QED BY <1>1, <1>2, <1>3, <1>4, <1>5, <1>6, <1>7

\* It unlocks one more mutex, which nobody else can hold.
LEMMA BarrierUnlockStep ==
    ASSUME IInv, NEW o \in Other, BarrierUnlock(o)
    PROVE  IInv'
<1> USE ClientAssumption DEF IInv, BarrierUnlock, config
<1> DEFINE t == tries[o]
<1>1. /\ o \in Client /\ o # NoOne /\ t \in Shard /\ t \in Nat /\ mu[t] = o
      /\ \A s \in Shard : t <= s => mu[s] = o
  BY ShardAssumption DEF Types, Client, Shard, LockInv
<1>2. /\ mu' = [mu EXCEPT ![t] = NoOne]
      /\ \/ t = NumShards - 1 /\ pc'[o] = "idle" /\ tries'[o] = 0
         \/ t # NumShards - 1 /\ pc'[o] = "unlock" /\ tries'[o] = t + 1
      /\ \A c \in Client \ {o} : pc'[c] = pc[c] /\ tries'[c] = tries[c]
  BY <1>1 DEF Types
<1>3. Types'
  <2>1. mu' \in [Shard -> Client \cup {NoOne}]
    BY <1>1, <1>2 DEF Types
  <2>2. tries' \in [Client -> Nat]
    BY <1>1 DEF Types
  <2> QED BY <2>1, <2>2 DEF Types
<1>4. OpInv'
  <2>1. pc[o] = "unlock" /\ UNCHANGED <<eng, mode, op, key>>
    OBVIOUS
  <2> HIDE DEF BarrierUnlock
  <2> QED BY <1>1, <1>2, <2>1 DEF OpInv, Client
<1>5. LockInv'
  <2>1. \A s \in Shard : mu[s] # o => mu'[s] = mu[s]
    BY <1>1, <1>2 DEF Types
  <2>2. \A v \in Worker : pc[v] # "idle" => ShardIndex[key[v]] \in Shard
    BY OpOfMode, ShardAssumption
  <2>3. ASSUME NEW v \in Worker, pc'[v] \in {"read", "write"} PROVE mu'[ShardIndex[key'[v]]] = v
    <3>1. v \in Client \ {o} /\ pc[v] = pc'[v]
      BY <1>2 DEF Client
    <3> QED BY <2>1, <2>2, <2>3, <3>1 DEF LockInv
  <2>4. ASSUME NEW p \in Other, p # o
        PROVE  /\ pc'[p] = "all" => tries'[p] <= NumShards /\ \A s \in Shard : s < tries'[p] => mu'[s] = p
               /\ pc'[p] = "writeAll" => \A s \in Shard : mu'[s] = p
               /\ pc'[p] = "unlock" => /\ tries'[p] < NumShards
                                       /\ \A s \in Shard : tries'[p] <= s => mu'[s] = p
    <3>1. p \in Client \ {o} /\ pc[p] = pc'[p] /\ tries'[p] = tries[p]
      BY <1>2, <2>4 DEF Client
    <3> QED BY <2>1, <2>4, <3>1 DEF LockInv
  <2>5. pc'[o] = "unlock" => /\ tries'[o] < NumShards
                             /\ \A s \in Shard : tries'[o] <= s => mu'[s] = o
    <3>1. \A s \in Shard : t + 1 <= s => t <= s /\ s # t
      BY <1>1 DEF Shard
    <3>2. \A s \in Shard : s # t => mu'[s] = mu[s]
      BY <1>1, <1>2 DEF Types
    <3>3. t # NumShards - 1 => t + 1 < NumShards
      BY <1>1, ShardAssumption DEF Shard
    <3> QED BY <1>1, <1>2, <3>1, <3>2, <3>3
  <2> QED BY <1>2, <2>3, <2>4, <2>5 DEF LockInv
<1>6. SnapInv'
  BY DEF SnapInv, OpInv, Types, Client
<1>7. CasInv'
  BY DEF CasInv, Types, Client
<1>8. DidInv'
  BY DEF DidInv, OpInv, Types, Client
<1>9. StoreInv'
  BY DEF StoreInv, Shifted
<1> QED BY <1>3, <1>4, <1>5, <1>6, <1>7, <1>8, <1>9

-----------------------------------------------------------------------------
(* The theorems. *)

\* IInv is an invariant of both engines, all modes, and the barriers.
THEOREM InvariantHolds == Spec => []IInv
<1>1. IInv /\ [Next]_vars => IInv'
  <2> SUFFICES ASSUME IInv, [Next]_vars PROVE IInv'
    OBVIOUS
  <2>1. ASSUME NEW w \in Worker, Work(w) \/ ReplyLost(w) PROVE IInv'
    BY <2>1, DoOpStep, OpReturnsStep, CasTryStep, CasRereadStep, CallReadStep, CallLockStep,
       HandlerGetStep, HandlerCasLostStep, HandlerPutStep, HandlerErrStep, ReplyLostStep,
       AsGetStep, AsWriteStep, AsGenErrorStep, AsErrStep DEF Work
  <2>2. ASSUME NEW o \in Other, Barrier(o) PROVE IInv'
    BY <2>2, BarrierStartStep, BarrierLockStep, BarrierGetStep, BarrierPutStep,
       BarrierUnlockStep DEF Barrier
  <2>3. CASE UNCHANGED vars
    BY <2>3 DEF vars, IInv, Types, OpInv, LockInv, SnapInv, CasInv, DidInv, StoreInv, Shifted
  <2> QED BY <2>1, <2>2, <2>3 DEF Next, Finished
<1> QED BY <1>1, InitIInv, PTL DEF Spec

\* While the handler of a cross-shard op runs, no other read-write handler does
\* (rostam_server/main.go:80-88).
THEOREM BarrierExcludes == Spec => []BarrierIsExclusive
<1>1. IInv => BarrierIsExclusive
  <2> SUFFICES ASSUME IInv, NEW o \in Other, pc[o] = "writeAll",
                      NEW c \in Client, pc[c] \in {"read", "write", "writeAll"}
               PROVE  c = o
    BY DEF BarrierIsExclusive
  <2>1. (\A s \in Shard : mu[s] = o) /\ 0 \in Shard
    BY ShardAssumption DEF IInv, LockInv, Shard
  <2>2. CASE c \in Worker
    <3>1. pc[c] \in {"read", "write"} /\ key[c] \in Key
      BY <2>2 DEF IInv, OpInv
    <3> QED BY <2>1, <2>2, <3>1, ShardAssumption DEF IInv, LockInv
  <2>3. CASE c \in Other
    <3>1. pc[c] = "writeAll"
      BY <2>3 DEF IInv, OpInv
    <3> QED BY <2>1, <2>3, <3>1 DEF IInv, LockInv
  <2> QED BY <2>2, <2>3 DEF Client
<1> QED BY <1>1, InvariantHolds, PTL

\* An operation that returns nil was applied once, one that returns an error of the
\* server was not, and none is applied twice (main.go:248-330, rostam_server/main.go).
THEOREM NilAppliedOnce == Spec => []NilMeansAppliedOnce
<1>1. IInv => NilMeansAppliedOnce
  <2> SUFFICES ASSUME IInv, NEW w \in Worker
               PROVE  did[w] <= 1 /\ (out[w] = "nil" => did[w] = 1) /\ (out[w] = "err" => did[w] = 0)
    BY DEF NilMeansAppliedOnce
  <2>1. pc[w] \in {"idle", "call", "read", "write", "reply"} /\ did[w] \in Nat
        /\ resp[w] \in {"none", "ok", "lost", "err", "gone"}
    BY DEF IInv, OpInv, Types, Client
  <2> QED BY <2>1 DEF IInv, DidInv
<1> QED BY <1>1, InvariantHolds, PTL

\* A record that a log describes is what Expected makes of the log.
LEMMA RecordIsExpected ==
    ASSUME NEW l \in Seq(Nat), NEW r, IsRecordOf(r, l), mode = "atomic"
    PROVE  r = Expected(mode, l)
<1>1. PICK b \in Nat :
        /\ r = [games |-> Len(l), best |-> b, score |-> Points * Len(l)]
        /\ b = 0 \/ \E i \in 1..Len(l) : b = l[i]
        /\ \A i \in 1..Len(l) : b >= l[i]
  BY DEF IsRecordOf
<1> DEFINE S == {0} \cup {l[i] : i \in 1..Len(l)}
<1>2. b \in S /\ \A y \in S : b >= y
  BY <1>1
<1>3. \A i \in 1..Len(l) : l[i] \in Nat
  BY ElementOfSeq
<1>4. \A x \in S : x \in Nat
  BY <1>3
<1> HIDE DEF S
<1>5. \A x \in S : (\A y \in S : x >= y) => x = b
  BY <1>2, <1>4
<1>6. Max(S) = b
  BY <1>2, <1>5 DEF Max
<1> QED BY <1>1, <1>6 DEF Expected, S

\* No update is lost or torn in any mode of either engine: every record is what the
\* operations applied to it, one after the other, make of it
\* ("genuinely atomic", rostam_server/main.go:12).
THEOREM NoUpdateLost == Spec => []NoLostUpdate
<1>1. IInv => NoLostUpdate
  <2> SUFFICES ASSUME IInv, NEW k \in Key PROVE store[k] = Expected(mode, log[k])
    BY DEF NoLostUpdate
  <2>1. CASE mode = "atomic"
    BY <2>1, RecordIsExpected DEF IInv, StoreInv, Types
  <2>2. CASE mode \in Counting
    BY <2>2 DEF IInv, StoreInv, Expected, Counting
  <2>3. CASE mode = "bitmask"
    BY <2>3 DEF IInv, StoreInv, Expected, Shifted
  <2> QED BY <2>1, <2>2, <2>3 DEF IInv, Types, Modes, Counting
<1> QED BY <1>1, InvariantHolds, PTL

\* What the operation of w makes of a record.
Effect(w, cur) ==
    CASE op[w] = "casw" -> cur + 1
      [] op[w] = "shft" /\ eng = "aerospike" -> ShiftIn(cur, 0)
      [] OTHER -> NewValue(op[w], cur, arg[w])

\* Every write of a record is one operation applied to the value it replaces.
AppliesToCurrent ==
    \/ UNCHANGED <<store, log>>
    \/ \E w \in Worker :
        Applied(w) /\ store' = [store EXCEPT ![key[w]] = Effect(w, store[key[w]])]

\* In every mode: whatever interleaves with a handler or with
\* casIncr between its read and its write, the record goes from one value to the
\* next by a single operation on the present value, and the log is their order.
THEOREM UpdatesAreSerial == Spec => [][AppliesToCurrent]_vars
<1>1. IInv /\ [Next]_vars => AppliesToCurrent \/ UNCHANGED vars
  <2> SUFFICES ASSUME IInv, [Next]_vars PROVE AppliesToCurrent \/ UNCHANGED vars
    OBVIOUS
  <2>1. ASSUME NEW w \in Worker, HandlerPut(w) PROVE AppliesToCurrent
    <3>1. pc[w] = "write" /\ tmp[w] = store[key[w]] /\ eng = "rostam"
      BY <2>1 DEF HandlerPut, IInv, SnapInv, OpInv
    <3>2. NewValue(op[w], tmp[w], arg[w]) = Effect(w, store[key[w]])
      BY <2>1, <3>1 DEF HandlerPut, Effect, NewValue
    <3> QED BY <2>1, <3>2 DEF HandlerPut, AppliesToCurrent
  <2>2. ASSUME NEW w \in Worker, AsWrite(w) PROVE AppliesToCurrent
    <3>1. eng = "aerospike" /\ pc[w] = "call" /\ (op[w] = "casw" => Len(log[key[w]]) = arg[w])
      BY <2>2 DEF AsWrite, Generation
    <3>2. op[w] = "casw" => tmp[w] = arg[w] /\ store[key[w]] = Len(log[key[w]])
      BY <3>1, OpOfMode, CounterIsNat DEF IInv, CasInv, Counting
    <3>3. AsNewValue(w) = Effect(w, store[key[w]])
      BY <3>1, <3>2 DEF AsNewValue, Effect
    <3> QED BY <2>2, <3>3 DEF AsWrite, AppliesToCurrent
  <2>3. ASSUME NEW w \in Worker,
               \/ DoOp(w) \/ OpReturns(w) \/ CasTry(w) \/ CasReread(w) \/ CallRead(w) \/ CallLock(w)
               \/ HandlerGet(w) \/ HandlerCasLost(w) \/ HandlerErr(w) \/ ReplyLost(w)
               \/ AsGet(w) \/ AsGenError(w) \/ AsErr(w)
        PROVE  UNCHANGED <<store, log>>
    BY <2>3 DEF DoOp, OpReturns, CasTry, CasReread, CallRead, CallLock, HandlerGet, HandlerCasLost,
                HandlerErr, ReplyLost, AsGet, AsGenError, AsErr
  <2>4. ASSUME NEW o \in Other, Barrier(o) PROVE UNCHANGED <<store, log>>
    BY <2>4 DEF Barrier, BarrierStart, BarrierLock, BarrierGet, BarrierPut, BarrierUnlock,
                IInv, SnapInv
  <2> QED BY <2>1, <2>2, <2>3, <2>4 DEF Next, Work, Finished, AppliesToCurrent
<1> QED BY <1>1, InvariantHolds, PTL DEF Spec
=============================================================================
