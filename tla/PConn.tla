------------------------------- MODULE PConn -------------------------------
(***************************************************************************)
(* One pipelined connection of the netkv load generator                   *)
(* (netkv/pipeline.go, type pconn): worker goroutines that call() on it,   *)
(* the read loop that matches answers to result slots in FIFO order, the   *)
(* fail() path that either side may take first, and the engine's close().  *)
(*                                                                         *)
(* The server and the TCP stream are external: the stream delivers whole   *)
(* frames in order until the peer goes away, and the server answers the    *)
(* requests of one connection in order ("server answers in request order", *)
(* pipeline.go:113).  Frame bytes are abstracted to the call they belong   *)
(* to; the result slot of a call (its channel rc) is named by that call.   *)
(***************************************************************************)
EXTENDS Naturals, Sequences

CONSTANTS Caller,    \* worker goroutines sharing the connection
          Window,    \* -pipeline: capacity of fifo
          MaxCalls,  \* bound: calls made by each worker
          NoOne,     \* the value of mu when it is unlocked
          Empty,     \* a result slot nothing was sent into
          Dead       \* errPConnDead

Slot == Caller \X (1..MaxCalls)  \* the k-th call of a worker, and its rc

ASSUME WindowAssumption == Window \in Nat \ {0}   \* -pipeline > 0, main.go:125
ASSUME MaxCallsAssumption == MaxCalls \in Nat
ASSUME DistinctAssumption == /\ NoOne \notin Caller
                             /\ Empty \notin Slot /\ Dead \notin Slot
                             /\ Empty # Dead

VARIABLES
    pc,        \* control state of each worker inside call()
    calls,     \* number of calls each worker has started
    ret,       \* what the worker's last call returned (Empty while it runs)
    mu,        \* pconn.mu
    fifo,      \* pconn.fifo, oldest slot first
    dead,      \* pconn.dead
    closed,    \* p.c.Close() has run
    werr,      \* the sticky error of the bufio.Writer p.w
    rc,        \* what was sent into each result slot
    rpc,       \* control state of readLoop
    rframe,    \* the answer readLoop holds while it is in "got"
    toServer,  \* request frames the server has not answered
    toClient,  \* answers readLoop has not read
    peerUp,    \* the server's end of the stream is open
    kpc        \* control state of the engine's close()

callVars   == <<pc, calls, ret>>
connVars   == <<mu, fifo, dead, closed, werr, rc>>
readVars   == <<rpc, rframe>>
netVars    == <<toServer, toClient, peerUp>>
vars       == <<pc, calls, ret, mu, fifo, dead, closed, werr, rc,
                rpc, rframe, toServer, toClient, peerUp, kpc>>

\* Mutant: a call reuses the slot of the worker's previous call.
slotReused(c) == <<c, calls[c] - 1>>

\* rc: the result slot of c's current call
slot(c) == <<c, calls[c]>>

-----------------------------------------------------------------------------
\* dialPConn: a fresh connection, its read loop started.
Init ==
    /\ pc = [c \in Caller |-> "idle"]
    /\ calls = [c \in Caller |-> 0]
    /\ ret = [c \in Caller |-> Empty]
    /\ mu = NoOne
    /\ fifo = <<>>
    /\ dead = FALSE
    /\ closed = FALSE
    /\ werr = FALSE
    /\ rc = [s \in Slot |-> Empty]
    /\ rpc = "read"
    /\ rframe = Empty
    /\ toServer = <<>>
    /\ toClient = <<>>
    /\ peerUp = TRUE
    /\ kpc = "open"

-----------------------------------------------------------------------------
(* call(), one action per step another goroutine can get in between. *)

\* Return v from call().
Return(c, v) == /\ pc' = [pc EXCEPT ![c] = "idle"]
                /\ ret' = [ret EXCEPT ![c] = v]

\* Entry and the unlocked check of dead; a worker calls only while run() runs.
CallStart(c) ==
    /\ pc[c] = "idle" /\ kpc = "open" /\ calls[c] < MaxCalls
    /\ calls' = [calls EXCEPT ![c] = @ + 1]
    /\ \/ dead /\ Return(c, Dead)
       \/ /\ ~dead
          /\ pc' = [pc EXCEPT ![c] = "lock"]
          /\ ret' = [ret EXCEPT ![c] = Empty]
    /\ UNCHANGED <<connVars, readVars, netVars, kpc>>

\* Mutant: the check under the lock is missing.
CallLockNoRecheck(c) ==
    /\ pc[c] = "lock" /\ mu = NoOne
    /\ mu' = c
    /\ pc' = [pc EXCEPT ![c] = "push"]
    /\ UNCHANGED <<calls, ret, fifo, dead, closed, werr, rc, readVars, netVars, kpc>>

\* mu.Lock() and the second check of dead, which unlocks and returns.
CallLock(c) ==
    /\ pc[c] = "lock" /\ mu = NoOne
    /\ \/ dead /\ Return(c, Dead) /\ mu' = mu
       \/ ~dead /\ mu' = c /\ pc' = [pc EXCEPT ![c] = "push"] /\ ret' = ret
    /\ UNCHANGED <<calls, fifo, dead, closed, werr, rc, readVars, netVars, kpc>>

\* Mutant: mu protects the push only, not the write that follows it.
CallPushUnlocks(c) ==
    /\ pc[c] = "push" /\ Len(fifo) < Window
    /\ fifo' = Append(fifo, slot(c))
    /\ mu' = NoOne
    /\ pc' = [pc EXCEPT ![c] = "write"]
    /\ UNCHANGED <<calls, ret, dead, closed, werr, rc, readVars, netVars, kpc>>

\* Mutant: the push does not wait for room in the window.
CallPushUnbounded(c) ==
    /\ pc[c] = "push"
    /\ fifo' = Append(fifo, slot(c))
    /\ pc' = [pc EXCEPT ![c] = "write"]
    /\ UNCHANGED <<calls, ret, mu, dead, closed, werr, rc, readVars, netVars, kpc>>

\* p.fifo <- rc, holding mu; blocks while the window is full.
CallPush(c) ==
    /\ pc[c] = "push" /\ Len(fifo) < Window
    /\ fifo' = Append(fifo, slot(c))
    /\ pc' = [pc EXCEPT ![c] = "write"]
    /\ UNCHANGED <<calls, ret, mu, dead, closed, werr, rc, readVars, netVars, kpc>>

\* Write, Write, Flush succeed and mu is released.  A frame written after the
\* peer went away may still be accepted by the kernel, and is lost.
CallWriteOk(c) ==
    /\ pc[c] = "write" /\ ~werr /\ ~closed
    /\ toServer' = IF peerUp THEN Append(toServer, slot(c)) ELSE toServer
    /\ mu' = NoOne
    /\ pc' = [pc EXCEPT ![c] = "wait"]
    /\ UNCHANGED <<calls, ret, fifo, dead, closed, werr, rc, readVars,
                   toClient, peerUp, kpc>>

\* Mutant: a writer that forgets its error (no bufio.Writer in between).
CallWriteErrNotSticky(c) ==
    /\ pc[c] = "write" /\ (werr \/ closed \/ ~peerUp)
    /\ mu' = NoOne
    /\ pc' = [pc EXCEPT ![c] = "fail"]
    /\ UNCHANGED <<calls, ret, fifo, dead, closed, werr, rc, readVars, netVars, kpc>>

\* One of them fails: the stream is closed here or gone there, or an earlier
\* error is returned again.  The frame does not reach the server whole.
CallWriteErr(c) ==
    /\ pc[c] = "write" /\ (werr \/ closed \/ ~peerUp)
    /\ werr' = TRUE
    /\ mu' = NoOne
    /\ pc' = [pc EXCEPT ![c] = "fail"]
    /\ UNCHANGED <<calls, ret, fifo, dead, closed, rc, readVars, netVars, kpc>>

\* Mutant: the caller also answers its own slot, which the drain answers too.
CallFailAnswersSlot(c) ==
    /\ pc[c] = "fail"
    /\ rc' = [rc EXCEPT ![slot(c)] = Dead]
    /\ \/ dead /\ Return(c, Dead) /\ dead' = dead
       \/ ~dead /\ dead' = TRUE /\ pc' = [pc EXCEPT ![c] = "close"] /\ ret' = ret
    /\ UNCHANGED <<calls, mu, fifo, closed, werr, readVars, netVars, kpc>>

\* Mutant: the caller gives up without marking the connection dead.
CallFailUnmarked(c) ==
    /\ pc[c] = "fail"
    /\ Return(c, Dead)
    /\ UNCHANGED <<calls, connVars, readVars, netVars, kpc>>

\* fail(): the compare-and-swap; only its winner goes on to close.
CallFail(c) ==
    /\ pc[c] = "fail"
    /\ \/ dead /\ Return(c, Dead) /\ dead' = dead
       \/ ~dead /\ dead' = TRUE /\ pc' = [pc EXCEPT ![c] = "close"] /\ ret' = ret
    /\ UNCHANGED <<calls, mu, fifo, closed, werr, rc, readVars, netVars, kpc>>

\* fail(): p.c.Close(); call() returns errPConnDead.
CallClose(c) ==
    /\ pc[c] = "close"
    /\ closed' = TRUE
    /\ Return(c, Dead)
    /\ UNCHANGED <<calls, mu, fifo, dead, werr, rc, readVars, netVars, kpc>>

\* return <-rc
CallReceive(c) ==
    /\ pc[c] = "wait" /\ rc[slot(c)] # Empty
    /\ Return(c, rc[slot(c)])
    /\ UNCHANGED <<calls, connVars, readVars, netVars, kpc>>

Call(c) == CallStart(c) \/ CallLock(c) \/ CallPush(c) \/ CallWriteOk(c)
           \/ CallWriteErr(c) \/ CallFail(c) \/ CallClose(c) \/ CallReceive(c)

-----------------------------------------------------------------------------
(* readLoop.  A send into a slot never blocks: rc has capacity 1, and     *)
(* SlotAnsweredOnce says that no slot is sent to twice.                    *)

\* Take the oldest slot out of fifo and send v into it.
AnswerHead(v) == /\ rc' = [rc EXCEPT ![Head(fifo)] = v]
                 /\ fifo' = Tail(fifo)

\* A whole, well-formed answer is read.  After a local Close the answers the
\* bufio.Reader holds already are still read.
ReadFrame ==
    /\ rpc = "read" /\ toClient # <<>>
    /\ rframe' = Head(toClient)
    /\ toClient' = Tail(toClient)
    /\ rpc' = "got"
    /\ UNCHANGED <<callVars, connVars, toServer, peerUp, kpc>>

\* The frame read is too short for its payload length: break.
ReadMalformed ==
    /\ rpc = "read" /\ toClient # <<>>
    /\ toClient' = Tail(toClient)
    /\ rpc' = "fail"
    /\ UNCHANGED <<callVars, connVars, rframe, toServer, peerUp, kpc>>

\* io.ReadFull fails: closed here, or end of stream: break.
ReadError ==
    /\ rpc = "read" /\ (closed \/ (~peerUp /\ toClient = <<>>))
    /\ rpc' = "fail"
    /\ UNCHANGED <<callVars, connVars, rframe, netVars, kpc>>

\* rc := <-p.fifo; rc <- presp{...}
ReadMatch ==
    /\ rpc = "got" /\ fifo # <<>>
    /\ AnswerHead(rframe)
    /\ rpc' = "read" /\ rframe' = Empty
    /\ UNCHANGED <<callVars, mu, dead, closed, werr, netVars, kpc>>

\* After the loop: fail(), the compare-and-swap.
ReadFail ==
    /\ rpc = "fail"
    /\ dead' = TRUE
    /\ rpc' = IF dead THEN "drain" ELSE "close"
    /\ UNCHANGED <<callVars, mu, fifo, closed, werr, rc, rframe, netVars, kpc>>

\* fail(): p.c.Close()
ReadClose ==
    /\ rpc = "close"
    /\ closed' = TRUE
    /\ rpc' = "drain"
    /\ UNCHANGED <<callVars, mu, fifo, dead, werr, rc, rframe, netVars, kpc>>

\* The select loop: fail one waiting slot, or return when fifo is empty.
ReadDrain ==
    /\ rpc = "drain"
    /\ \/ fifo # <<>> /\ AnswerHead(Dead) /\ rpc' = rpc
       \/ fifo = <<>> /\ rpc' = "done" /\ UNCHANGED <<rc, fifo>>
    /\ UNCHANGED <<callVars, mu, dead, closed, werr, rframe, netVars, kpc>>

ReadLoop == ReadFrame \/ ReadMalformed \/ ReadError \/ ReadMatch
            \/ ReadFail \/ ReadClose \/ ReadDrain

-----------------------------------------------------------------------------
(* rostamPipeEngine.close(), deferred in main(): it runs once run() has    *)
(* waited for every worker.                                                *)

\* Mutant: close() does not wait for the workers.
EngineCloseEarly ==
    /\ kpc = "open"
    /\ kpc' = "fail"
    /\ UNCHANGED <<callVars, connVars, readVars, netVars>>

EngineClose ==
    /\ kpc = "open" /\ \A c \in Caller : pc[c] = "idle"
    /\ kpc' = "fail"
    /\ UNCHANGED <<callVars, connVars, readVars, netVars>>

\* pc.fail(), the compare-and-swap
EngineFail ==
    /\ kpc = "fail"
    /\ dead' = TRUE
    /\ kpc' = IF dead THEN "closed" ELSE "close"
    /\ UNCHANGED <<callVars, mu, fifo, closed, werr, rc, readVars, netVars>>

\* Mutant: fail() marks the connection dead and leaves it open.
EngineFailLeavesOpen ==
    /\ kpc = "close"
    /\ kpc' = "closed"
    /\ UNCHANGED <<callVars, connVars, readVars, netVars>>

\* fail(): p.c.Close()
EngineFailClose ==
    /\ kpc = "close"
    /\ closed' = TRUE
    /\ kpc' = "closed"
    /\ UNCHANGED <<callVars, mu, fifo, dead, werr, rc, readVars, netVars>>

Engine == EngineClose \/ EngineFail \/ EngineFailClose

-----------------------------------------------------------------------------
(* The server and the stream (external). *)

\* The server answers the oldest request.
ServerReply ==
    /\ peerUp /\ toServer # <<>>
    /\ toClient' = Append(toClient, Head(toServer))
    /\ toServer' = Tail(toServer)
    /\ UNCHANGED <<callVars, connVars, readVars, peerUp, kpc>>

\* The server's end goes away; a tail of the answers may be lost with it.
PeerClose ==
    /\ peerUp
    /\ peerUp' = FALSE
    /\ toServer' = <<>>
    /\ \E n \in 0..Len(toClient) : toClient' = SubSeq(toClient, 1, n)
    /\ UNCHANGED <<callVars, connVars, readVars, kpc>>

-----------------------------------------------------------------------------
\* The engine is closed and the read loop has returned.
Finished == kpc = "closed" /\ rpc = "done" /\ UNCHANGED vars

Next == \/ \E c \in Caller : Call(c)
        \/ ReadLoop
        \/ Engine
        \/ ServerReply
        \/ PeerClose
        \/ Finished

(* Goroutines that can step do; the server answers what it has received    *)
(* (a server that stays up and silent blocks its callers: call() has no    *)
(* timeout).  Nothing forces the peer to go away or an answer to be bad.   *)
Fairness == /\ \A c \in Caller : WF_vars(Call(c))
            /\ WF_vars(ReadLoop)
            /\ WF_vars(Engine)
            /\ WF_vars(ServerReply)

Spec == Init /\ [][Next]_vars
FairSpec == Spec /\ Fairness

-----------------------------------------------------------------------------
(* Properties *)

\* The type invariant of the connection's state (pconn, readLoop, call).
TypeOK ==
    /\ pc \in [Caller -> {"idle", "lock", "push", "write", "fail", "close", "wait"}]
    /\ calls \in [Caller -> 0..MaxCalls]
    /\ ret \in [Caller -> {Empty, Dead} \cup Slot]
    /\ mu \in Caller \cup {NoOne}
    /\ fifo \in Seq(Slot)
    /\ dead \in BOOLEAN /\ closed \in BOOLEAN /\ werr \in BOOLEAN
    /\ rc \in [Slot -> {Empty, Dead} \cup Slot]
    /\ rpc \in {"read", "got", "fail", "close", "drain", "done"}
    /\ rframe \in {Empty} \cup Slot
    /\ toServer \in Seq(Slot) /\ toClient \in Seq(Slot)
    /\ peerUp \in BOOLEAN
    /\ kpc \in {"open", "fail", "close", "closed"}

\* A call returns the answer to its own request, or errPConnDead: matching by
\* position in fifo (pipeline.go:113) never hands one caller another's answer,
\* and readLoop never waits on an empty fifo with an answer in hand.
ResponseMatches ==
    /\ \A s \in Slot : rc[s] \in {Empty, Dead, s}
    /\ \A c \in Caller : ret[c] \in {Empty, Dead, slot(c)}
    /\ rpc = "got" => fifo # <<>> /\ Head(fifo) = rframe

\* No caller waits for an answer nobody will send: a slot that is waited for
\* and still empty is in fifo, and the read loop has not returned.
NoStrandedWaiter ==
    \A c \in Caller :
        pc[c] = "wait" /\ rc[slot(c)] = Empty =>
            /\ rpc # "done"
            /\ \E i \in 1..Len(fifo) : fifo[i] = slot(c)

\* Once the read loop has returned, nobody is left to make room in fifo: a
\* caller that still has to push its slot (pipeline.go:74) finds room for it.
PushAfterDrainHasRoom ==
    rpc = "done" => \A c \in Caller : pc[c] = "push" => Len(fifo) < Window

\* At most Window requests are on the wire in both directions: a slot leaves
\* fifo only after its answer has been read whole (the flag's "requests in
\* flight per pipelined conn", main.go:84).
InFlightBounded ==
    rpc \in {"read", "got"} =>
        Len(toServer) + Len(toClient) + (IF rpc = "got" THEN 1 ELSE 0) <= Window

\* Every result slot is answered at most once ("exactly once", pipeline.go:87):
\* what is queued was not answered yet and is queued only once.  rc has room
\* for one value, so a second send would block the read loop for good.
SlotAnsweredOnce ==
    /\ \A i \in 1..Len(fifo) : rc[fifo[i]] = Empty
    /\ \A i, j \in 1..Len(fifo) : fifo[i] = fifo[j] => i = j

\* Every call returns, whatever dies and whoever notices it first.
EveryCallReturns == \A c \in Caller : pc[c] # "idle" ~> pc[c] = "idle"

\* Seen from its callers, the connection is the one Conn specifies: whatever the
\* read loop, the writers and close() do in between, a call ends, and with the
\* answer to its own request or, on a dead connection only, with errPConnDead.
ConnMap == INSTANCE Conn WITH open <- {c \in Caller : pc[c] # "idle"}
ImplementsConn == ConnMap!FairSpec

\* Once anybody has marked the connection dead, the read loop drains and
\* returns: no goroutine is left behind, and nothing stays queued for it.
DeadConnDrained == dead ~> rpc = "done"
=============================================================================
