---------------------------- MODULE PConnProofs ----------------------------
(***************************************************************************)
(* The safety of the pipelined connection, for any number of workers, any  *)
(* window and any number of calls.  The inductive invariant IInv says who  *)
(* holds mu, which slots are queued, and how the frames on the wire line   *)
(* up with fifo.                                                           *)
(***************************************************************************)
EXTENDS PConn, SequenceTheorems, TLAPS

\* mu is held exactly by the worker between its check of dead and its write.
MutexInv ==
    \A c \in Caller : (mu = c) <=> pc[c] \in {"push", "write"}

\* A running call has a number; its slot is fresh until it is pushed.
CallInv ==
    \A c \in Caller :
        /\ pc[c] # "idle" => calls[c] >= 1
        /\ pc[c] \in {"lock", "push"} => rc[slot(c)] = Empty

\* Slots of calls that were not started are empty.
FutureInv == \A s \in Slot : s[2] > calls[s[1]] => rc[s] = Empty

\* At most Window slots are queued.
BoundInv == Len(fifo) <= Window

\* Only calls that went through their push have a slot queued.
PastInv ==
    \A i \in 1..Len(fifo) :
        /\ fifo[i][2] <= calls[fifo[i][1]]
        /\ \A c \in Caller : pc[c] \in {"lock", "push"} => fifo[i] # slot(c)

\* A slot that was pushed by a running call is answered or still queued.
QueuedInv ==
    \A c \in Caller :
        pc[c] \in {"write", "wait"} /\ rc[slot(c)] = Empty =>
            \E i \in 1..Len(fifo) : fifo[i] = slot(c)

\* Who marks the connection dead leaves a reason for every later write to
\* fail behind: the sticky error, or the closed stream.
DeadInv ==
    /\ rpc \in {"close", "drain", "done"} => dead
    /\ kpc \in {"close", "closed"} => dead
    /\ dead => werr \/ closed \/ rpc = "close" \/ kpc = "close"
    /\ \A c \in Caller : pc[c] \in {"fail", "close"} => werr
    /\ kpc # "open" => \A c \in Caller : pc[c] = "idle"

\* After the drain, nobody waits unanswered, and whoever has still to push
\* finds fifo empty.
DoneInv ==
    rpc = "done" => \A c \in Caller :
        /\ pc[c] = "wait" => rc[slot(c)] # Empty
        /\ pc[c] = "push" => fifo = <<>>

\* Answers the read loop holds, and frames before the ones in toServer.
Held == IF rpc = "got" THEN 1 ELSE 0

\* Frames line up with fifo: the answer held, the answers and the requests
\* on the wire are the oldest slots, in this order.
WireInv ==
    rpc \in {"read", "got"} =>
        /\ rpc = "got" => fifo # <<>> /\ fifo[1] = rframe
        /\ Held + Len(toClient) + Len(toServer) <= Len(fifo)
        /\ \A i \in 1..Len(toClient) : toClient[i] = fifo[Held + i]
        /\ \A i \in 1..Len(toServer) : toServer[i] = fifo[Held + Len(toClient) + i]
        /\ \A c \in Caller : pc[c] = "write" =>
            /\ fifo # <<>> /\ fifo[Len(fifo)] = slot(c)
            /\ Held + Len(toClient) + Len(toServer) < Len(fifo)
            /\ peerUp /\ ~werr =>
                Len(fifo) = Held + Len(toClient) + Len(toServer) + 1
        /\ peerUp /\ ~werr /\ (\A c \in Caller : pc[c] # "write") =>
                Len(fifo) = Held + Len(toClient) + Len(toServer)

\* Slots hold their own answer.
AnswerInv ==
    /\ \A s \in Slot : rc[s] \in {Empty, Dead, s}
    /\ \A c \in Caller : ret[c] \in {Empty, Dead, slot(c)}

IInv == /\ TypeOK /\ MutexInv /\ CallInv /\ FutureInv /\ BoundInv /\ PastInv
        /\ SlotAnsweredOnce /\ QueuedInv /\ DeadInv /\ DoneInv /\ WireInv
        /\ AnswerInv

-----------------------------------------------------------------------------
(* Facts about sequences and slots the steps below use. *)

\* What a push at the end of a sequence leaves alone and adds.
LEMMA AppendFacts ==
    ASSUME NEW S, NEW q \in Seq(S), NEW e \in S
    PROVE  /\ Append(q, e) \in Seq(S)
           /\ Append(q, e) # <<>>
           /\ Len(q) \in Nat
           /\ Len(Append(q, e)) = Len(q) + 1
           /\ Append(q, e)[Len(q) + 1] = e
           /\ \A i \in 1..Len(q) : Append(q, e)[i] = q[i]
  BY AppendProperties, LenProperties

\* What taking the oldest element of a sequence leaves.
LEMMA TailFacts ==
    ASSUME NEW S, NEW q \in Seq(S), q # <<>>
    PROVE  /\ Head(q) = q[1] /\ q[1] \in S
           /\ Tail(q) \in Seq(S)
           /\ Len(q) \in Nat /\ Len(q) >= 1
           /\ Len(Tail(q)) = Len(q) - 1
           /\ \A i \in 1..Len(q) - 1 : Tail(q)[i] = q[i + 1]
  BY HeadTailProperties, LenProperties, EmptySeq

\* The two components of a slot: its worker and the number of its call.
LEMMA SlotFacts ==
    ASSUME NEW s \in Slot
    PROVE  s[1] \in Caller /\ s[2] \in 1..MaxCalls /\ s = <<s[1], s[2]>>
  BY DEF Slot

\* The elements of a sequence of slots are slots.
LEMMA QueueFacts ==
    ASSUME NEW q \in Seq(Slot)
    PROVE  Len(q) \in Nat /\ \A i \in 1..Len(q) : q[i] \in Slot
  BY LenProperties, ElementOfSeq

-----------------------------------------------------------------------------
(* The initial state, and one lemma per action. *)

\* A fresh connection (dialPConn) satisfies the invariant.
LEMMA InitIInv ==
    ASSUME Init
    PROVE  IInv
<1> USE WindowAssumption, MaxCallsAssumption, DistinctAssumption DEF Init
<1>1. Len(fifo) = 0 /\ Len(toClient) = 0 /\ Len(toServer) = 0
  OBVIOUS
<1>2. TypeOK
  <2>1. rc \in [Slot -> {Empty, Dead} \cup Slot]
    OBVIOUS
  <2>2. fifo \in Seq(Slot) /\ toServer \in Seq(Slot) /\ toClient \in Seq(Slot)
    BY EmptySeq
  <2>3. calls \in [Caller -> 0..MaxCalls]
    OBVIOUS
  <2> QED BY <2>1, <2>2, <2>3 DEF TypeOK
<1>3. MutexInv /\ CallInv /\ FutureInv /\ AnswerInv
  BY DEF MutexInv, CallInv, FutureInv, AnswerInv, slot, Slot
<1>4. BoundInv /\ PastInv /\ SlotAnsweredOnce /\ QueuedInv
  BY <1>1 DEF BoundInv, PastInv, SlotAnsweredOnce, QueuedInv
<1>5. DeadInv /\ DoneInv /\ WireInv
  BY <1>1 DEF DeadInv, DoneInv, WireInv, Held
<1> QED BY <1>2, <1>3, <1>4, <1>5 DEF IInv

\* Entering call() with a new slot.
LEMMA CallStartStep ==
    ASSUME IInv, NEW c \in Caller, CallStart(c)
    PROVE  IInv'
<1> USE WindowAssumption, MaxCallsAssumption, DistinctAssumption
<1>1. /\ calls' = [calls EXCEPT ![c] = calls[c] + 1] /\ calls' \in [Caller -> 0..MaxCalls]
      /\ calls \in [Caller -> 0..MaxCalls]
      /\ \A d \in Caller : d # c => calls'[d] = calls[d]
      /\ calls'[c] = calls[c] + 1
  BY DEF CallStart, IInv, TypeOK
<1>2. /\ pc' \in [Caller -> {"idle", "lock", "push", "write", "fail", "close", "wait"}]
      /\ \A d \in Caller : d # c => pc'[d] = pc[d] /\ ret'[d] = ret[d]
      /\ pc[c] = "idle" /\ pc'[c] \in {"idle", "lock"} /\ kpc = "open"
      /\ ret' \in [Caller -> {Empty, Dead} \cup Slot]
      /\ ret'[c] \in {Empty, Dead}
  <2>1. CASE dead
    BY <2>1 DEF CallStart, Return, IInv, TypeOK
  <2>2. CASE ~dead
    BY <2>2 DEF CallStart, Return, IInv, TypeOK
  <2> QED BY <2>1, <2>2
<1>3. UNCHANGED <<connVars, readVars, netVars, kpc>>
  BY DEF CallStart
<1>4. TypeOK'
  BY <1>1, <1>2, <1>3 DEF IInv, TypeOK, connVars, readVars, netVars
<1>5. MutexInv'
  BY <1>2, <1>3 DEF IInv, MutexInv, connVars
<1>6. CallInv' /\ FutureInv'
  BY <1>1, <1>2, <1>3 DEF IInv, TypeOK, CallInv, FutureInv, slot, Slot, connVars
<1>7. PastInv'
  <2> SUFFICES ASSUME NEW i \in 1..Len(fifo)
               PROVE  /\ fifo[i][2] <= calls'[fifo[i][1]]
                      /\ \A d \in Caller : pc'[d] \in {"lock", "push"} => fifo[i] # <<d, calls'[d]>>
    BY <1>3 DEF PastInv, slot, connVars
  <2>1. fifo[i] \in Slot /\ fifo[i][1] \in Caller /\ fifo[i][2] \in Nat
    BY QueueFacts, SlotFacts DEF IInv, TypeOK
  <2>2. fifo[i][2] <= calls[fifo[i][1]]
    BY DEF IInv, PastInv
  <2>3. ASSUME NEW d \in Caller, pc'[d] \in {"lock", "push"}
        PROVE  fifo[i] # <<d, calls'[d]>>
    <3>1. CASE d = c
      BY <3>1, <2>1, <2>2, <1>1
    <3>2. CASE d # c
      BY <3>2, <2>3, <1>1, <1>2 DEF IInv, PastInv, slot
    <3> QED BY <3>1, <3>2
  <2> QED BY <1>1, <2>1, <2>2, <2>3
<1>8. BoundInv' /\ SlotAnsweredOnce' /\ QueuedInv' /\ DoneInv'
  <2>1. BoundInv' /\ SlotAnsweredOnce'
    BY <1>3 DEF IInv, BoundInv, SlotAnsweredOnce, connVars, readVars
  <2>2. QueuedInv'
    BY <1>1, <1>2, <1>3 DEF IInv, QueuedInv, slot, connVars
  <2>3. DoneInv'
    BY <1>1, <1>2, <1>3 DEF IInv, DoneInv, slot, connVars, readVars
  <2> QED BY <2>1, <2>2, <2>3
<1>9. DeadInv'
  BY <1>2, <1>3 DEF IInv, DeadInv, connVars, readVars
<1>10. WireInv'
  BY <1>1, <1>2, <1>3 DEF IInv, WireInv, Held, slot, connVars, readVars, netVars
<1>11. AnswerInv'
  BY <1>1, <1>2, <1>3 DEF IInv, AnswerInv, slot, connVars
<1> QED BY <1>4, <1>5, <1>6, <1>7, <1>8, <1>9, <1>10, <1>11 DEF IInv

\* Taking mu, or leaving because the connection is dead.
LEMMA CallLockStep ==
    ASSUME IInv, NEW c \in Caller, CallLock(c)
    PROVE  IInv'
<1> USE WindowAssumption, MaxCallsAssumption, DistinctAssumption
<1>1. UNCHANGED <<calls, fifo, dead, closed, werr, rc, readVars, netVars, kpc>>
  BY DEF CallLock
<1>2. /\ pc' \in [Caller -> {"idle", "lock", "push", "write", "fail", "close", "wait"}]
      /\ ret' \in [Caller -> {Empty, Dead} \cup Slot]
      /\ mu' \in Caller \cup {NoOne}
      /\ pc[c] = "lock" /\ mu = NoOne /\ pc'[c] \in {"idle", "push"}
      /\ \A d \in Caller : d # c => pc'[d] = pc[d] /\ ret'[d] = ret[d]
      /\ ret'[c] \in {Dead, ret[c]}
      /\ pc'[c] = "push" => mu' = c /\ ~dead
      /\ pc'[c] = "idle" => mu' = NoOne
  <2>1. CASE dead
    BY <2>1 DEF CallLock, Return, IInv, TypeOK
  <2>2. CASE ~dead
    BY <2>2 DEF CallLock, Return, IInv, TypeOK
  <2> QED BY <2>1, <2>2
<1>3. TypeOK'
  BY <1>1, <1>2 DEF IInv, TypeOK, readVars, netVars
<1>4. MutexInv'
  BY <1>2 DEF IInv, MutexInv
<1>5. CallInv' /\ FutureInv' /\ BoundInv' /\ SlotAnsweredOnce'
  BY <1>1, <1>2 DEF IInv, CallInv, FutureInv, BoundInv, SlotAnsweredOnce, slot
<1>6. PastInv'
  BY <1>1, <1>2 DEF IInv, PastInv, slot
<1>7. QueuedInv' /\ DoneInv'
  BY <1>1, <1>2 DEF IInv, QueuedInv, DoneInv, DeadInv, slot, readVars
<1>8. DeadInv'
  BY <1>1, <1>2 DEF IInv, DeadInv, readVars
<1>9. WireInv'
  BY <1>1, <1>2 DEF IInv, WireInv, Held, slot, readVars, netVars
<1>10. AnswerInv'
  BY <1>1, <1>2 DEF IInv, AnswerInv, slot
<1> QED BY <1>3, <1>4, <1>5, <1>6, <1>7, <1>8, <1>9, <1>10 DEF IInv

\* Queueing the slot.
LEMMA CallPushStep ==
    ASSUME IInv, NEW c \in Caller, CallPush(c)
    PROVE  IInv'
<1> USE WindowAssumption, MaxCallsAssumption, DistinctAssumption
<1>1. UNCHANGED <<calls, ret, mu, dead, closed, werr, rc, readVars, netVars, kpc>>
  BY DEF CallPush
<1>2. /\ pc' \in [Caller -> {"idle", "lock", "push", "write", "fail", "close", "wait"}]
      /\ pc[c] = "push" /\ pc'[c] = "write"
      /\ \A d \in Caller : d # c => pc'[d] = pc[d]
  BY DEF CallPush, IInv, TypeOK
<1>3. slot(c) \in Slot /\ slot(c)' = slot(c) /\ slot(c)[1] = c /\ slot(c)[2] = calls[c]
  BY <1>1, <1>2 DEF IInv, TypeOK, CallInv, slot, Slot
<1>4. /\ fifo \in Seq(Slot) /\ fifo' = Append(fifo, slot(c)) /\ Len(fifo) < Window
      /\ Len(fifo) \in Nat /\ fifo' \in Seq(Slot) /\ fifo' # <<>>
      /\ Len(fifo') = Len(fifo) + 1
      /\ fifo'[Len(fifo) + 1] = slot(c)
      /\ \A i \in 1..Len(fifo) : fifo'[i] = fifo[i]
  <2>1. fifo \in Seq(Slot) /\ fifo' = Append(fifo, slot(c)) /\ Len(fifo) < Window
    BY DEF CallPush, IInv, TypeOK
  <2> QED BY <1>3, <2>1, AppendFacts
<1>5. \A d \in Caller : d # c => pc[d] \notin {"push", "write"}
  BY <1>2 DEF IInv, MutexInv
<1>6. TypeOK'
  BY <1>1, <1>2, <1>4 DEF IInv, TypeOK, readVars, netVars
<1>7. MutexInv' /\ CallInv' /\ FutureInv' /\ AnswerInv'
  BY <1>1, <1>2 DEF IInv, MutexInv, CallInv, FutureInv, AnswerInv, slot
<1>8. BoundInv'
  BY <1>4 DEF BoundInv
<1>9. PastInv'
  <2> SUFFICES ASSUME NEW i \in 1..Len(fifo')
               PROVE  /\ fifo'[i][2] <= calls[fifo'[i][1]]
                      /\ \A d \in Caller : pc'[d] \in {"lock", "push"} => fifo'[i] # slot(d)
    BY <1>1 DEF PastInv, slot
  <2>1. CASE i \in 1..Len(fifo)
    BY <2>1, <1>2, <1>4 DEF IInv, PastInv
  <2>2. CASE i = Len(fifo) + 1
    <3>1. fifo'[i][2] <= calls[fifo'[i][1]]
      BY <2>2, <1>3, <1>4 DEF IInv, TypeOK
    <3>2. \A d \in Caller : pc'[d] \in {"lock", "push"} => d # c
      BY <1>2
    <3> QED BY <3>1, <3>2, <2>2, <1>3, <1>4 DEF slot
  <2> QED BY <2>1, <2>2, <1>4
<1>10. SlotAnsweredOnce'
  <2>1. rc[slot(c)] = Empty /\ \A i \in 1..Len(fifo) : fifo[i] # slot(c)
    BY <1>2 DEF IInv, CallInv, PastInv
  <2> QED BY <2>1, <1>1, <1>4 DEF IInv, SlotAnsweredOnce
<1>11. QueuedInv'
  <2> SUFFICES ASSUME NEW d \in Caller, pc'[d] \in {"write", "wait"}, rc[slot(d)] = Empty
               PROVE  \E i \in 1..Len(fifo') : fifo'[i] = slot(d)
    BY <1>1 DEF QueuedInv, slot
  <2>1. CASE d = c
    BY <2>1, <1>4
  <2>2. CASE d # c
    <3>1. PICK i \in 1..Len(fifo) : fifo[i] = slot(d)
      BY <2>2, <1>2 DEF IInv, QueuedInv
    <3> QED BY <3>1, <1>4
  <2> QED BY <2>1, <2>2
<1>12. DeadInv'
  BY <1>1, <1>2 DEF IInv, DeadInv, readVars
<1>13. DoneInv'
  BY <1>1, <1>2, <1>5 DEF IInv, DoneInv, slot, readVars
<1>14. WireInv'
  <2> SUFFICES ASSUME rpc \in {"read", "got"} PROVE WireInv'
    BY <1>1 DEF WireInv, readVars
  <2>1. Held' = Held /\ Held \in {0, 1}
    BY <1>1 DEF Held, readVars
  <2>2. Len(toClient) \in Nat /\ Len(toServer) \in Nat
    BY QueueFacts DEF IInv, TypeOK
  <2>3. rpc = "got" => fifo # <<>> /\ Len(fifo) >= 1 /\ fifo[1] = rframe
    BY <1>4, EmptySeq DEF IInv, WireInv
  <2>4. \A d \in Caller : pc[d] # "write"
    BY <1>2, <1>5
  <2>5. Held + Len(toClient) + Len(toServer) <= Len(fifo)
    BY DEF IInv, WireInv
  <2>6. \A i \in 1..Len(toClient) : toClient[i] = fifo'[Held + i]
    BY <1>4, <2>1, <2>2, <2>5 DEF IInv, WireInv
  <2>7. \A i \in 1..Len(toServer) : toServer[i] = fifo'[Held + Len(toClient) + i]
    BY <1>4, <2>1, <2>2, <2>5 DEF IInv, WireInv
  <2>8. rpc = "got" => fifo' # <<>> /\ fifo'[1] = rframe
    BY <2>3, <1>4
  <2>9. peerUp /\ ~werr => Len(fifo') = Held + Len(toClient) + Len(toServer) + 1
    BY <2>4, <1>4 DEF IInv, WireInv
  <2>10. \A d \in Caller : pc'[d] = "write" => d = c
    BY <1>2, <1>5
  <2>11. Held + Len(toClient) + Len(toServer) <= Len(fifo')
    BY <1>4, <2>1, <2>2, <2>5
  <2>12. /\ fifo' # <<>> /\ fifo'[Len(fifo')] = slot(c)
         /\ Held + Len(toClient) + Len(toServer) < Len(fifo')
    BY <1>4, <2>1, <2>2, <2>5
  <2>13. UNCHANGED <<toClient, toServer, peerUp, werr, rpc, rframe>>
    BY <1>1 DEF readVars, netVars
  <2> QED BY <1>2, <1>3, <2>1, <2>6, <2>7, <2>8, <2>9, <2>10, <2>11, <2>12, <2>13
          DEF WireInv
<1> QED BY <1>6, <1>7, <1>8, <1>9, <1>10, <1>11, <1>12, <1>13, <1>14 DEF IInv

\* Sending the frame and releasing mu.
LEMMA CallWriteOkStep ==
    ASSUME IInv, NEW c \in Caller, CallWriteOk(c)
    PROVE  IInv'
<1> USE WindowAssumption, MaxCallsAssumption, DistinctAssumption
<1>1. UNCHANGED <<calls, ret, fifo, dead, closed, werr, rc, readVars, toClient, peerUp, kpc>>
  BY DEF CallWriteOk
<1>2. /\ pc' \in [Caller -> {"idle", "lock", "push", "write", "fail", "close", "wait"}]
      /\ pc[c] = "write" /\ pc'[c] = "wait" /\ mu' = NoOne /\ ~werr /\ ~closed
      /\ \A d \in Caller : d # c => pc'[d] = pc[d]
  BY DEF CallWriteOk, IInv, TypeOK
<1>3. slot(c) \in Slot
  BY <1>2 DEF IInv, TypeOK, CallInv, slot, Slot
<1>4. /\ toServer \in Seq(Slot) /\ Len(toServer) \in Nat
      /\ ~peerUp => toServer' = toServer
      /\ peerUp => /\ toServer' \in Seq(Slot) /\ Len(toServer') = Len(toServer) + 1
                   /\ toServer'[Len(toServer) + 1] = slot(c)
                   /\ \A i \in 1..Len(toServer) : toServer'[i] = toServer[i]
  BY <1>3, AppendFacts, QueueFacts DEF CallWriteOk, IInv, TypeOK
<1>5. \A d \in Caller : d # c => pc[d] \notin {"push", "write"}
  BY <1>2 DEF IInv, MutexInv
<1>6. TypeOK'
  BY <1>1, <1>2, <1>4 DEF IInv, TypeOK, readVars
<1>7. MutexInv'
  BY <1>2, <1>5 DEF MutexInv
<1>8. CallInv' /\ FutureInv' /\ BoundInv' /\ SlotAnsweredOnce' /\ AnswerInv'
  BY <1>1, <1>2 DEF IInv, CallInv, FutureInv, BoundInv, SlotAnsweredOnce, AnswerInv, slot
<1>9. PastInv'
  BY <1>1, <1>2 DEF IInv, PastInv, slot
<1>10. QueuedInv'
  <2> SUFFICES ASSUME NEW d \in Caller, pc'[d] \in {"write", "wait"}, rc[slot(d)] = Empty
               PROVE  \E i \in 1..Len(fifo) : fifo[i] = slot(d)
    BY <1>1 DEF QueuedInv, slot
  <2> QED BY <1>2 DEF IInv, QueuedInv
<1>11. DeadInv'
  BY <1>1, <1>2 DEF IInv, DeadInv, readVars
<1>12. DoneInv'
  <2>1. rpc # "done"
    BY <1>2 DEF IInv, DeadInv
  <2> QED BY <2>1, <1>1 DEF DoneInv, readVars
<1>13. WireInv'
  <2> SUFFICES ASSUME rpc \in {"read", "got"} PROVE WireInv'
    BY <1>1 DEF WireInv, readVars
  <2>1. Held' = Held /\ Held \in {0, 1}
    BY <1>1 DEF Held, readVars
  <2>2. Len(toClient) \in Nat /\ Len(fifo) \in Nat
    BY QueueFacts DEF IInv, TypeOK
  <2>3. Held + Len(toClient) + Len(toServer) <= Len(fifo)
    BY DEF IInv, WireInv
  <2>4. /\ fifo # <<>> /\ fifo[Len(fifo)] = slot(c)
        /\ peerUp => Len(fifo) = Held + Len(toClient) + Len(toServer) + 1
    BY <1>2 DEF IInv, WireInv
  <2>5. Held + Len(toClient) + Len(toServer') <= Len(fifo)
    BY <2>1, <2>2, <2>3, <2>4, <1>4 DEF IInv, TypeOK
  <2>6. \A i \in 1..Len(toServer') : toServer'[i] = fifo[Held + Len(toClient) + i]
    <3>1. CASE peerUp
      <4> SUFFICES ASSUME NEW i \in 1..Len(toServer')
                   PROVE  toServer'[i] = fifo[Held + Len(toClient) + i]
        OBVIOUS
      <4>1. CASE i \in 1..Len(toServer)
        BY <4>1, <3>1, <1>4 DEF IInv, WireInv
      <4>2. CASE i = Len(toServer) + 1
        BY <4>2, <3>1, <1>4, <2>1, <2>2, <2>4
      <4> QED BY <4>1, <4>2, <3>1, <1>4
    <3>2. CASE ~peerUp
      BY <3>2, <1>4 DEF IInv, WireInv
    <3> QED BY <3>1, <3>2
  <2>7. \A d \in Caller : pc'[d] # "write"
    BY <1>2, <1>5
  <2>8. peerUp => Len(fifo) = Held + Len(toClient) + Len(toServer')
    BY <2>1, <2>2, <2>4, <1>4
  <2>9. UNCHANGED <<toClient, fifo, peerUp, werr, rpc, rframe>>
    BY <1>1 DEF readVars
  <2>10. /\ rpc = "got" => fifo # <<>> /\ fifo[1] = rframe
         /\ \A i \in 1..Len(toClient) : toClient[i] = fifo[Held + i]
    BY DEF IInv, WireInv
  <2> QED BY <2>1, <2>5, <2>6, <2>7, <2>8, <2>9, <2>10 DEF WireInv
<1> QED BY <1>6, <1>7, <1>8, <1>9, <1>10, <1>11, <1>12, <1>13 DEF IInv

\* A failed write, which leaves the writer's sticky error behind.
LEMMA CallWriteErrStep ==
    ASSUME IInv, NEW c \in Caller, CallWriteErr(c)
    PROVE  IInv'
<1> USE WindowAssumption, MaxCallsAssumption, DistinctAssumption
<1>1. UNCHANGED <<calls, ret, fifo, dead, closed, rc, readVars, netVars, kpc>>
  BY DEF CallWriteErr
<1>2. /\ pc' \in [Caller -> {"idle", "lock", "push", "write", "fail", "close", "wait"}]
      /\ pc[c] = "write" /\ pc'[c] = "fail" /\ mu' = NoOne /\ werr' = TRUE
      /\ \A d \in Caller : d # c => pc'[d] = pc[d]
  BY DEF CallWriteErr, IInv, TypeOK
<1>3. \A d \in Caller : d # c => pc[d] \notin {"push", "write"}
  BY <1>2 DEF IInv, MutexInv
<1>4. TypeOK'
  BY <1>1, <1>2 DEF IInv, TypeOK, readVars, netVars
<1>5. MutexInv'
  BY <1>2, <1>3 DEF MutexInv
<1>6. CallInv' /\ FutureInv' /\ BoundInv' /\ SlotAnsweredOnce' /\ AnswerInv'
  BY <1>1, <1>2 DEF IInv, CallInv, FutureInv, BoundInv, SlotAnsweredOnce, AnswerInv, slot
<1>7. PastInv'
  BY <1>1, <1>2 DEF IInv, PastInv, slot
<1>8. QueuedInv' /\ DoneInv'
  BY <1>1, <1>2 DEF IInv, QueuedInv, DoneInv, slot, readVars
<1>9. DeadInv'
  BY <1>1, <1>2 DEF IInv, DeadInv, readVars
<1>10. WireInv'
  BY <1>1, <1>2, <1>3 DEF IInv, WireInv, Held, slot, readVars, netVars
<1> QED BY <1>4, <1>5, <1>6, <1>7, <1>8, <1>9, <1>10 DEF IInv

\* The compare-and-swap of fail() by a caller.
LEMMA CallFailStep ==
    ASSUME IInv, NEW c \in Caller, CallFail(c)
    PROVE  IInv'
<1> USE WindowAssumption, MaxCallsAssumption, DistinctAssumption
<1>1. UNCHANGED <<calls, mu, fifo, closed, werr, rc, readVars, netVars, kpc>>
  BY DEF CallFail
<1>2. /\ pc' \in [Caller -> {"idle", "lock", "push", "write", "fail", "close", "wait"}]
      /\ ret' \in [Caller -> {Empty, Dead} \cup Slot]
      /\ pc[c] = "fail" /\ pc'[c] \in {"idle", "close"} /\ dead' = TRUE
      /\ \A d \in Caller : d # c => pc'[d] = pc[d] /\ ret'[d] = ret[d]
      /\ ret'[c] \in {Dead, ret[c]}
  <2>1. CASE dead
    BY <2>1 DEF CallFail, Return, IInv, TypeOK
  <2>2. CASE ~dead
    BY <2>2 DEF CallFail, Return, IInv, TypeOK
  <2> QED BY <2>1, <2>2
<1>3. TypeOK'
  BY <1>1, <1>2 DEF IInv, TypeOK, readVars, netVars
<1>4. MutexInv' /\ CallInv' /\ FutureInv' /\ BoundInv' /\ SlotAnsweredOnce' /\ AnswerInv'
  BY <1>1, <1>2 DEF IInv, MutexInv, CallInv, FutureInv, BoundInv, SlotAnsweredOnce, AnswerInv, slot
<1>5. PastInv'
  BY <1>1, <1>2 DEF IInv, PastInv, slot
<1>6. QueuedInv' /\ DoneInv'
  BY <1>1, <1>2 DEF IInv, QueuedInv, DoneInv, slot, readVars
<1>7. DeadInv'
  BY <1>1, <1>2 DEF IInv, DeadInv, readVars
<1>8. WireInv'
  BY <1>1, <1>2 DEF IInv, WireInv, Held, slot, readVars, netVars
<1> QED BY <1>3, <1>4, <1>5, <1>6, <1>7, <1>8 DEF IInv

\* The Close of fail() by a caller, and its return.
LEMMA CallCloseStep ==
    ASSUME IInv, NEW c \in Caller, CallClose(c)
    PROVE  IInv'
<1> USE WindowAssumption, MaxCallsAssumption, DistinctAssumption
<1>1. UNCHANGED <<calls, mu, fifo, dead, werr, rc, readVars, netVars, kpc>>
  BY DEF CallClose
<1>2. /\ pc' \in [Caller -> {"idle", "lock", "push", "write", "fail", "close", "wait"}]
      /\ ret' \in [Caller -> {Empty, Dead} \cup Slot]
      /\ pc[c] = "close" /\ pc'[c] = "idle" /\ closed' = TRUE
      /\ \A d \in Caller : d # c => pc'[d] = pc[d] /\ ret'[d] = ret[d]
      /\ ret'[c] = Dead
  BY DEF CallClose, Return, IInv, TypeOK
<1>3. TypeOK'
  BY <1>1, <1>2 DEF IInv, TypeOK, readVars, netVars
<1>4. MutexInv' /\ CallInv' /\ FutureInv' /\ BoundInv' /\ SlotAnsweredOnce' /\ AnswerInv'
  BY <1>1, <1>2 DEF IInv, MutexInv, CallInv, FutureInv, BoundInv, SlotAnsweredOnce, AnswerInv, slot
<1>5. PastInv'
  BY <1>1, <1>2 DEF IInv, PastInv, slot
<1>6. QueuedInv' /\ DoneInv'
  BY <1>1, <1>2 DEF IInv, QueuedInv, DoneInv, slot, readVars
<1>7. DeadInv'
  BY <1>1, <1>2 DEF IInv, DeadInv, readVars
<1>8. WireInv'
  BY <1>1, <1>2 DEF IInv, WireInv, Held, slot, readVars, netVars
<1> QED BY <1>3, <1>4, <1>5, <1>6, <1>7, <1>8 DEF IInv

\* Receiving the answer.
LEMMA CallReceiveStep ==
    ASSUME IInv, NEW c \in Caller, CallReceive(c)
    PROVE  IInv'
<1> USE WindowAssumption, MaxCallsAssumption, DistinctAssumption
<1>1. UNCHANGED <<calls, connVars, readVars, netVars, kpc>>
  BY DEF CallReceive
<1>2. slot(c) \in Slot
  BY DEF CallReceive, IInv, TypeOK, CallInv, slot, Slot
<1>3. /\ pc' \in [Caller -> {"idle", "lock", "push", "write", "fail", "close", "wait"}]
      /\ ret' \in [Caller -> {Empty, Dead} \cup Slot]
      /\ pc[c] = "wait" /\ pc'[c] = "idle"
      /\ \A d \in Caller : d # c => pc'[d] = pc[d] /\ ret'[d] = ret[d]
      /\ ret'[c] \in {Empty, Dead, slot(c)}
  BY <1>2 DEF CallReceive, Return, IInv, TypeOK, AnswerInv
<1>4. TypeOK'
  BY <1>1, <1>3 DEF IInv, TypeOK, connVars, readVars, netVars
<1>5. MutexInv' /\ CallInv' /\ FutureInv' /\ BoundInv' /\ SlotAnsweredOnce' /\ AnswerInv'
  BY <1>1, <1>3 DEF IInv, MutexInv, CallInv, FutureInv, BoundInv, SlotAnsweredOnce, AnswerInv, slot, connVars
<1>6. PastInv'
  BY <1>1, <1>3 DEF IInv, PastInv, slot, connVars
<1>7. QueuedInv' /\ DoneInv'
  BY <1>1, <1>3 DEF IInv, QueuedInv, DoneInv, slot, connVars, readVars
<1>8. DeadInv'
  BY <1>1, <1>3 DEF IInv, DeadInv, connVars, readVars
<1>9. WireInv'
  BY <1>1, <1>3 DEF IInv, WireInv, Held, slot, connVars, readVars, netVars
<1> QED BY <1>4, <1>5, <1>6, <1>7, <1>8, <1>9 DEF IInv

\* Answering the oldest queued slot keeps what is said of slots and fifo.
LEMMA AnswerHeadStep ==
    ASSUME IInv, fifo # <<>>, NEW v \in {Dead, Head(fifo)}, AnswerHead(v), UNCHANGED callVars
    PROVE  /\ fifo' \in Seq(Slot) /\ rc' \in [Slot -> {Empty, Dead} \cup Slot]
           /\ CallInv' /\ FutureInv' /\ BoundInv' /\ PastInv' /\ SlotAnsweredOnce'
           /\ QueuedInv' /\ AnswerInv'
<1> USE WindowAssumption, MaxCallsAssumption, DistinctAssumption
<1>1. /\ fifo \in Seq(Slot) /\ rc \in [Slot -> {Empty, Dead} \cup Slot]
      /\ calls \in [Caller -> 0..MaxCalls]
  BY DEF IInv, TypeOK
<1>2. /\ Head(fifo) = fifo[1] /\ fifo[1] \in Slot
      /\ fifo' \in Seq(Slot) /\ Len(fifo) \in Nat /\ Len(fifo) >= 1
      /\ Len(fifo') = Len(fifo) - 1
      /\ \A i \in 1..Len(fifo') : fifo'[i] = fifo[i + 1]
  BY <1>1, TailFacts DEF AnswerHead
<1>3. v # Empty /\ v \in {Dead} \cup Slot
  BY <1>2
<1>4. /\ rc' \in [Slot -> {Empty, Dead} \cup Slot]
      /\ rc'[fifo[1]] = v
      /\ \A s \in Slot : s # fifo[1] => rc'[s] = rc[s]
  BY <1>1, <1>2, <1>3 DEF AnswerHead
<1>5. \A d \in Caller : slot(d)' = slot(d) /\ (pc[d] # "idle" => slot(d) \in Slot)
  BY <1>1 DEF IInv, TypeOK, CallInv, callVars, slot, Slot
<1>6. CallInv'
  <2>1. ASSUME NEW d \in Caller, pc[d] \in {"lock", "push"}
        PROVE  rc'[slot(d)] = Empty
    <3>1. slot(d) # fifo[1]
      BY <2>1, <1>2 DEF IInv, PastInv
    <3>2. rc[slot(d)] = Empty
      BY <2>1 DEF IInv, CallInv
    <3>3. slot(d) \in Slot
      BY <2>1, <1>5
    <3> QED BY <3>1, <3>2, <3>3, <1>4
  <2> QED BY <2>1, <1>5 DEF IInv, CallInv, callVars
<1>7. FutureInv'
  <2>1. ~(fifo[1][2] > calls[fifo[1][1]])
    BY <1>1, <1>2, SlotFacts DEF IInv, PastInv
  <2> QED BY <2>1, <1>4 DEF IInv, FutureInv, callVars
<1>8. BoundInv'
  BY <1>2 DEF IInv, BoundInv
<1>9. PastInv'
  BY <1>2, <1>5 DEF IInv, PastInv, callVars
<1>10. SlotAnsweredOnce'
  <2>1. \A i \in 1..Len(fifo') : fifo[i + 1] \in Slot /\ fifo[i + 1] # fifo[1] /\ rc[fifo[i + 1]] = Empty
    BY <1>1, <1>2, QueueFacts DEF IInv, SlotAnsweredOnce
  <2>2. \A i \in 1..Len(fifo') : rc'[fifo'[i]] = Empty
    BY <2>1, <1>2, <1>4
  <2>3. \A i, j \in 1..Len(fifo') : fifo'[i] = fifo'[j] => i = j
    BY <1>2 DEF IInv, SlotAnsweredOnce
  <2> QED BY <2>2, <2>3 DEF SlotAnsweredOnce
<1>11. QueuedInv'
  <2> SUFFICES ASSUME NEW d \in Caller, pc[d] \in {"write", "wait"}, rc'[slot(d)] = Empty
               PROVE  \E i \in 1..Len(fifo') : fifo'[i] = slot(d)
    BY <1>5 DEF QueuedInv, callVars
  <2>1. slot(d) \in Slot /\ slot(d) # fifo[1] /\ rc[slot(d)] = Empty
    BY <1>3, <1>4, <1>5
  <2>2. PICK i \in 1..Len(fifo) : fifo[i] = slot(d)
    BY <2>1 DEF IInv, QueuedInv
  <2>3. i # 1 /\ i - 1 \in 1..Len(fifo') /\ fifo'[i - 1] = slot(d)
    BY <2>1, <2>2, <1>2
  <2> QED BY <2>3
<1>12. AnswerInv'
  BY <1>2, <1>4, <1>5 DEF IInv, AnswerInv, callVars
<1> QED BY <1>2, <1>4, <1>6, <1>7, <1>8, <1>9, <1>10, <1>11, <1>12

\* The parts of the invariant a step of readLoop, of the engine or of the
\* stream leaves alone when it changes neither a call nor the slots.
LEMMA FrameStep ==
    ASSUME IInv, UNCHANGED <<callVars, mu, fifo, rc>>
    PROVE  /\ MutexInv' /\ CallInv' /\ FutureInv' /\ BoundInv' /\ PastInv'
           /\ SlotAnsweredOnce' /\ QueuedInv' /\ AnswerInv'
  BY DEF IInv, MutexInv, CallInv, FutureInv, BoundInv, PastInv, SlotAnsweredOnce,
         QueuedInv, AnswerInv, slot, callVars

\* Reading an answer.
LEMMA ReadFrameStep ==
    ASSUME IInv, ReadFrame
    PROVE  IInv'
<1> USE WindowAssumption, MaxCallsAssumption, DistinctAssumption
<1>1. UNCHANGED <<callVars, connVars, toServer, peerUp, kpc>>
  BY DEF ReadFrame
<1>2. /\ rpc = "read" /\ rpc' = "got" /\ rframe' = toClient[1] /\ toClient[1] \in Slot
      /\ toClient \in Seq(Slot) /\ toClient' \in Seq(Slot)
      /\ Len(toClient) \in Nat /\ Len(toClient) >= 1
      /\ Len(toClient') = Len(toClient) - 1
      /\ \A i \in 1..Len(toClient') : toClient'[i] = toClient[i + 1]
  BY TailFacts DEF ReadFrame, IInv, TypeOK
<1>3. TypeOK'
  BY <1>1, <1>2 DEF IInv, TypeOK, callVars, connVars
<1>4. DeadInv' /\ DoneInv'
  BY <1>1, <1>2 DEF IInv, DeadInv, DoneInv, callVars, connVars
<1>5. WireInv'
  <2>1. Held = 0 /\ Held' = 1
    BY <1>2 DEF Held
  <2>2. Len(toServer) \in Nat /\ Len(fifo) \in Nat
    BY QueueFacts DEF IInv, TypeOK
  <2>3. Len(toClient) + Len(toServer) <= Len(fifo)
    BY <1>2, <2>1, <2>2 DEF IInv, WireInv
  <2>4. fifo # <<>> /\ fifo[1] = rframe'
    BY <1>2, <2>1, <2>2, <2>3, EmptySeq DEF IInv, WireInv
  <2>5. \A i \in 1..Len(toClient') : toClient'[i] = fifo[1 + i]
    BY <1>2, <2>1, <2>2 DEF IInv, WireInv
  <2>6. \A i \in 1..Len(toServer) : toServer[i] = fifo[1 + Len(toClient') + i]
    BY <1>2, <2>1, <2>2 DEF IInv, WireInv
  <2>7. 1 + Len(toClient') + Len(toServer) = Held + Len(toClient) + Len(toServer)
    BY <1>2, <2>1, <2>2
  <2> QED BY <1>1, <1>2, <2>1, <2>3, <2>4, <2>5, <2>6, <2>7
          DEF IInv, WireInv, slot, callVars, connVars
<1> QED BY <1>1, <1>3, <1>4, <1>5, FrameStep DEF IInv, connVars

\* Giving up on a malformed answer.
LEMMA ReadMalformedStep ==
    ASSUME IInv, ReadMalformed
    PROVE  IInv'
<1>1. UNCHANGED <<callVars, connVars, rframe, toServer, peerUp, kpc>>
  BY DEF ReadMalformed
<1>2. rpc = "read" /\ rpc' = "fail" /\ toClient' \in Seq(Slot)
  BY TailFacts DEF ReadMalformed, IInv, TypeOK
<1>3. TypeOK'
  BY <1>1, <1>2 DEF IInv, TypeOK, callVars, connVars
<1>4. DeadInv' /\ DoneInv' /\ WireInv'
  BY <1>1, <1>2 DEF IInv, DeadInv, DoneInv, WireInv, callVars, connVars
<1> QED BY <1>1, <1>3, <1>4, FrameStep DEF IInv, connVars

\* The end of the stream.
LEMMA ReadErrorStep ==
    ASSUME IInv, ReadError
    PROVE  IInv'
<1>1. UNCHANGED <<callVars, connVars, rframe, netVars, kpc>> /\ rpc = "read" /\ rpc' = "fail"
  BY DEF ReadError
<1>2. TypeOK'
  BY <1>1 DEF IInv, TypeOK, callVars, connVars, netVars
<1>3. DeadInv' /\ DoneInv' /\ WireInv'
  BY <1>1 DEF IInv, DeadInv, DoneInv, WireInv, callVars, connVars
<1> QED BY <1>1, <1>2, <1>3, FrameStep DEF IInv, connVars

\* Matching the answer to the oldest slot.
LEMMA ReadMatchStep ==
    ASSUME IInv, ReadMatch
    PROVE  IInv'
<1> USE WindowAssumption, MaxCallsAssumption, DistinctAssumption
<1>1. UNCHANGED <<callVars, mu, dead, closed, werr, netVars, kpc>>
  BY DEF ReadMatch
<1>2. rpc = "got" /\ rpc' = "read" /\ rframe' = Empty /\ fifo # <<>> /\ AnswerHead(rframe)
  BY DEF ReadMatch
<1>3. /\ Head(fifo) = fifo[1] /\ fifo[1] = rframe /\ fifo' = Tail(fifo)
      /\ Len(fifo) \in Nat /\ Len(fifo) >= 1 /\ Len(fifo') = Len(fifo) - 1
      /\ \A i \in 1..Len(fifo') : fifo'[i] = fifo[i + 1]
  BY <1>2, TailFacts DEF IInv, TypeOK, WireInv, AnswerHead
<1>4. /\ fifo' \in Seq(Slot) /\ rc' \in [Slot -> {Empty, Dead} \cup Slot]
      /\ CallInv' /\ FutureInv' /\ BoundInv' /\ PastInv' /\ SlotAnsweredOnce'
      /\ QueuedInv' /\ AnswerInv'
  BY <1>1, <1>2, <1>3, AnswerHeadStep
<1>5. TypeOK'
  BY <1>1, <1>2, <1>4 DEF IInv, TypeOK, callVars, netVars
<1>6. MutexInv' /\ DeadInv' /\ DoneInv'
  BY <1>1, <1>2 DEF IInv, MutexInv, DeadInv, DoneInv, callVars
<1>7. WireInv'
  <2>1. Held = 1 /\ Held' = 0
    BY <1>2 DEF Held
  <2>2. Len(toServer) \in Nat /\ Len(toClient) \in Nat
    BY QueueFacts DEF IInv, TypeOK
  <2>3. 1 + Len(toClient) + Len(toServer) <= Len(fifo)
    BY <1>2, <2>1 DEF IInv, WireInv
  <2>4. Len(toClient) + Len(toServer) <= Len(fifo')
    BY <1>3, <2>2, <2>3
  <2>5. \A i \in 1..Len(toClient) : toClient[i] = fifo'[i]
    <3> SUFFICES ASSUME NEW i \in 1..Len(toClient)
                 PROVE  toClient[i] = fifo'[i]
      OBVIOUS
    <3>1. toClient[i] = fifo[1 + i]
      BY <1>2, <2>1 DEF IInv, WireInv
    <3>2. i \in 1..Len(fifo')
      BY <2>2, <2>4, <1>3
    <3> QED BY <3>1, <3>2, <1>3
  <2>6. \A i \in 1..Len(toServer) : toServer[i] = fifo'[Len(toClient) + i]
    <3> SUFFICES ASSUME NEW i \in 1..Len(toServer)
                 PROVE  toServer[i] = fifo'[Len(toClient) + i]
      OBVIOUS
    <3>1. toServer[i] = fifo[1 + Len(toClient) + i]
      BY <1>2, <2>1 DEF IInv, WireInv
    <3>2. Len(toClient) + i \in 1..Len(fifo')
      BY <2>2, <2>4, <1>3
    <3>3. fifo'[Len(toClient) + i] = fifo[Len(toClient) + i + 1]
      BY <3>2, <1>3
    <3> QED BY <3>1, <3>3, <2>2
  <2>7. ASSUME NEW d \in Caller, pc[d] = "write"
        PROVE  /\ peerUp /\ ~werr => Len(fifo') = Len(toClient) + Len(toServer) + 1
               /\ Len(toClient) + Len(toServer) < Len(fifo')
               /\ fifo' # <<>> /\ fifo'[Len(fifo')] = slot(d)
    <3>1. fifo[Len(fifo)] = slot(d)
          /\ (peerUp /\ ~werr => Len(fifo) = 1 + Len(toClient) + Len(toServer) + 1)
      BY <1>2, <2>1, <2>7 DEF IInv, WireInv
    <3>2. 1 + Len(toClient) + Len(toServer) < Len(fifo)
      BY <1>2, <2>1, <2>7 DEF IInv, WireInv
    <3>3. Len(fifo') >= 1 /\ fifo'[Len(fifo')] = fifo[Len(fifo)]
      BY <3>2, <1>3, <2>2
    <3>4. fifo' # <<>>
      BY <3>3
    <3>5. Len(toClient) + Len(toServer) < Len(fifo')
      BY <3>2, <1>3, <2>2
    <3>6. peerUp /\ ~werr => Len(fifo') = Len(toClient) + Len(toServer) + 1
      BY <3>1, <1>3, <2>2
    <3> QED BY <3>1, <3>3, <3>4, <3>5, <3>6
  <2>8. peerUp /\ ~werr /\ (\A d \in Caller : pc[d] # "write") =>
            Len(fifo') = Len(toClient) + Len(toServer)
    <3>1. peerUp /\ ~werr /\ (\A d \in Caller : pc[d] # "write") =>
              Len(fifo) = 1 + Len(toClient) + Len(toServer)
      BY <1>2, <2>1 DEF IInv, WireInv
    <3> QED BY <3>1, <1>3, <2>2
  <2> QED BY <1>1, <1>2, <2>1, <2>2, <2>4, <2>5, <2>6, <2>7, <2>8 DEF WireInv, slot, callVars, netVars
<1> QED BY <1>4, <1>5, <1>6, <1>7 DEF IInv

\* The compare-and-swap of fail() by the read loop.
LEMMA ReadFailStep ==
    ASSUME IInv, ReadFail
    PROVE  IInv'
<1>1. UNCHANGED <<callVars, mu, fifo, closed, werr, rc, rframe, netVars, kpc>>
  BY DEF ReadFail
<1>2. rpc = "fail" /\ dead' = TRUE /\ rpc' = IF dead THEN "drain" ELSE "close"
  BY DEF ReadFail
<1>3. TypeOK'
  BY <1>1, <1>2 DEF IInv, TypeOK, callVars, netVars
<1>4. DeadInv' /\ DoneInv' /\ WireInv'
  BY <1>1, <1>2 DEF IInv, TypeOK, DeadInv, DoneInv, WireInv, callVars
<1> QED BY <1>1, <1>3, <1>4, FrameStep DEF IInv

\* The Close of fail() by the read loop.
LEMMA ReadCloseStep ==
    ASSUME IInv, ReadClose
    PROVE  IInv'
<1>1. UNCHANGED <<callVars, mu, fifo, dead, werr, rc, rframe, netVars, kpc>>
      /\ rpc = "close" /\ rpc' = "drain" /\ closed' = TRUE
  BY DEF ReadClose
<1>2. TypeOK'
  BY <1>1 DEF IInv, TypeOK, callVars, netVars
<1>3. DeadInv' /\ DoneInv' /\ WireInv'
  BY <1>1 DEF IInv, DeadInv, DoneInv, WireInv, callVars
<1> QED BY <1>1, <1>2, <1>3, FrameStep DEF IInv

\* Failing a waiting slot, or returning.
LEMMA ReadDrainStep ==
    ASSUME IInv, ReadDrain
    PROVE  IInv'
<1>1. UNCHANGED <<callVars, mu, dead, closed, werr, rframe, netVars, kpc>> /\ rpc = "drain"
  BY DEF ReadDrain
<1>2. CASE fifo # <<>> /\ AnswerHead(Dead) /\ rpc' = rpc
  <2>1. /\ fifo' \in Seq(Slot) /\ rc' \in [Slot -> {Empty, Dead} \cup Slot]
        /\ CallInv' /\ FutureInv' /\ BoundInv' /\ PastInv' /\ SlotAnsweredOnce'
        /\ QueuedInv' /\ AnswerInv'
    BY <1>1, <1>2, AnswerHeadStep
  <2>2. TypeOK'
    BY <1>1, <1>2, <2>1 DEF IInv, TypeOK, callVars, netVars
  <2>3. MutexInv' /\ DeadInv' /\ DoneInv' /\ WireInv'
    BY <1>1, <1>2 DEF IInv, MutexInv, DeadInv, DoneInv, WireInv, callVars
  <2> QED BY <2>1, <2>2, <2>3 DEF IInv
<1>3. CASE fifo = <<>> /\ rpc' = "done" /\ UNCHANGED <<rc, fifo>>
  <2>1. TypeOK'
    BY <1>1, <1>3 DEF IInv, TypeOK, callVars, netVars
  <2>2. DoneInv'
    <3>1. Len(fifo) = 0
      BY <1>3
    <3>2. \A c \in Caller : pc[c] = "wait" => rc[slot(c)] # Empty
      BY <3>1 DEF IInv, QueuedInv
    <3> QED BY <1>1, <1>3, <3>2 DEF DoneInv, slot, callVars
  <2>3. DeadInv' /\ WireInv'
    BY <1>1, <1>3 DEF IInv, DeadInv, WireInv, callVars
  <2> QED BY <1>1, <1>3, <2>1, <2>2, <2>3, FrameStep DEF IInv
<1> QED BY <1>2, <1>3 DEF ReadDrain

\* The engine's close() begins.
LEMMA EngineCloseStep ==
    ASSUME IInv, EngineClose
    PROVE  IInv'
<1>1. UNCHANGED <<callVars, connVars, readVars, netVars>> /\ kpc = "open" /\ kpc' = "fail"
      /\ \A c \in Caller : pc[c] = "idle"
  BY DEF EngineClose
<1>2. TypeOK'
  BY <1>1 DEF IInv, TypeOK, callVars, connVars, readVars, netVars
<1>3. DeadInv' /\ DoneInv' /\ WireInv'
  BY <1>1 DEF IInv, DeadInv, DoneInv, WireInv, Held, slot, callVars, connVars, readVars, netVars
<1> QED BY <1>1, <1>2, <1>3, FrameStep DEF IInv, connVars

\* The compare-and-swap of fail() by the engine.
LEMMA EngineFailStep ==
    ASSUME IInv, EngineFail
    PROVE  IInv'
<1>1. UNCHANGED <<callVars, mu, fifo, closed, werr, rc, readVars, netVars>>
      /\ kpc = "fail" /\ dead' = TRUE /\ kpc' = IF dead THEN "closed" ELSE "close"
  BY DEF EngineFail
<1>2. TypeOK'
  BY <1>1 DEF IInv, TypeOK, callVars, readVars, netVars
<1>3. DeadInv'
  BY <1>1 DEF IInv, TypeOK, DeadInv, callVars, readVars
<1>4. DoneInv' /\ WireInv'
  BY <1>1 DEF IInv, DoneInv, WireInv, Held, slot, callVars, readVars, netVars
<1> QED BY <1>1, <1>2, <1>3, <1>4, FrameStep DEF IInv

\* The Close of fail() by the engine.
LEMMA EngineFailCloseStep ==
    ASSUME IInv, EngineFailClose
    PROVE  IInv'
<1>1. UNCHANGED <<callVars, mu, fifo, dead, werr, rc, readVars, netVars>>
      /\ kpc = "close" /\ closed' = TRUE /\ kpc' = "closed"
  BY DEF EngineFailClose
<1>2. TypeOK'
  BY <1>1 DEF IInv, TypeOK, callVars, readVars, netVars
<1>3. DeadInv'
  BY <1>1 DEF IInv, DeadInv, callVars, readVars
<1>4. DoneInv' /\ WireInv'
  BY <1>1 DEF IInv, DoneInv, WireInv, Held, slot, callVars, readVars, netVars
<1> QED BY <1>1, <1>2, <1>3, <1>4, FrameStep DEF IInv

\* The server answers: the oldest request becomes the youngest answer.
LEMMA ServerReplyStep ==
    ASSUME IInv, ServerReply
    PROVE  IInv'
<1>1. UNCHANGED <<callVars, connVars, readVars, peerUp, kpc>>
  BY DEF ServerReply
<1>2. /\ toServer \in Seq(Slot) /\ toServer # <<>> /\ toServer[1] \in Slot
      /\ toServer' = Tail(toServer) /\ toServer' \in Seq(Slot)
      /\ Len(toServer) \in Nat /\ Len(toServer) >= 1
      /\ Len(toServer') = Len(toServer) - 1
      /\ \A i \in 1..Len(toServer') : toServer'[i] = toServer[i + 1]
      /\ toClient' = Append(toClient, toServer[1])
  BY TailFacts DEF ServerReply, IInv, TypeOK
<1>3. /\ toClient \in Seq(Slot) /\ toClient' \in Seq(Slot) /\ Len(toClient) \in Nat
      /\ Len(toClient') = Len(toClient) + 1
      /\ toClient'[Len(toClient) + 1] = toServer[1]
      /\ \A i \in 1..Len(toClient) : toClient'[i] = toClient[i]
  BY <1>2, AppendFacts DEF IInv, TypeOK
<1>4. TypeOK'
  BY <1>1, <1>2, <1>3 DEF IInv, TypeOK, callVars, connVars, readVars
<1>5. DeadInv' /\ DoneInv'
  BY <1>1 DEF IInv, DeadInv, DoneInv, slot, callVars, connVars, readVars
<1>6. WireInv'
  <2> SUFFICES ASSUME rpc \in {"read", "got"} PROVE WireInv'
    BY <1>1 DEF WireInv, readVars
  <2>1. Held' = Held /\ Held \in {0, 1} /\ Len(fifo) \in Nat
    BY <1>1, QueueFacts DEF Held, readVars, IInv, TypeOK
  <2>2. Held + Len(toClient') + Len(toServer') = Held + Len(toClient) + Len(toServer)
    BY <1>2, <1>3, <2>1
  <2>3. \A i \in 1..Len(toClient') : toClient'[i] = fifo[Held + i]
    <3> SUFFICES ASSUME NEW i \in 1..Len(toClient')
                 PROVE  toClient'[i] = fifo[Held + i]
      OBVIOUS
    <3>1. CASE i \in 1..Len(toClient)
      BY <3>1, <1>3 DEF IInv, WireInv
    <3>2. CASE i = Len(toClient) + 1
      <4>1. toServer[1] = fifo[Held + Len(toClient) + 1]
        BY <1>2 DEF IInv, WireInv
      <4> QED BY <4>1, <3>2, <1>3, <2>1
    <3> QED BY <3>1, <3>2, <1>3
  <2>4. \A i \in 1..Len(toServer') : toServer'[i] = fifo[Held + Len(toClient') + i]
    <3> SUFFICES ASSUME NEW i \in 1..Len(toServer')
                 PROVE  toServer'[i] = fifo[Held + Len(toClient') + i]
      OBVIOUS
    <3>1. i + 1 \in 1..Len(toServer) /\ toServer'[i] = toServer[i + 1]
      BY <1>2
    <3>2. toServer[i + 1] = fifo[Held + Len(toClient) + (i + 1)]
      BY <3>1 DEF IInv, WireInv
    <3>3. Held + Len(toClient) + (i + 1) = Held + Len(toClient') + i
      BY <1>2, <1>3, <2>1
    <3> QED BY <3>1, <3>2, <3>3
  <2> QED BY <1>1, <2>1, <2>2, <2>3, <2>4 DEF IInv, WireInv, slot, callVars, connVars, readVars
<1> QED BY <1>1, <1>4, <1>5, <1>6, FrameStep DEF IInv, connVars

\* The server's end goes away with a part of the answers.
LEMMA PeerCloseStep ==
    ASSUME IInv, PeerClose
    PROVE  IInv'
<1>1. UNCHANGED <<callVars, connVars, readVars, kpc>> /\ peerUp' = FALSE /\ toServer' = <<>>
  BY DEF PeerClose
<1>2. PICK n \in 0..Len(toClient) : toClient' = SubSeq(toClient, 1, n)
  BY DEF PeerClose
<1>3. /\ toClient \in Seq(Slot) /\ Len(toClient) \in Nat /\ toServer' \in Seq(Slot)
      /\ Len(toServer) \in Nat /\ Len(toServer') = 0
  BY <1>1, QueueFacts, EmptySeq DEF IInv, TypeOK
<1>4. /\ toClient' \in Seq(Slot) /\ Len(toClient') = n
      /\ \A i \in 1..n : toClient'[i] = toClient[i]
  BY <1>2, <1>3, SubSeqProperties
<1>5. TypeOK'
  BY <1>1, <1>3, <1>4 DEF IInv, TypeOK, callVars, connVars, readVars
<1>6. DeadInv' /\ DoneInv'
  BY <1>1 DEF IInv, DeadInv, DoneInv, slot, callVars, connVars, readVars
<1>7. WireInv'
  <2> SUFFICES ASSUME rpc \in {"read", "got"} PROVE WireInv'
    BY <1>1 DEF WireInv, readVars
  <2>1. Held' = Held /\ Held \in {0, 1} /\ Len(fifo) \in Nat
    BY <1>1, QueueFacts DEF Held, readVars, IInv, TypeOK
  <2>2. Held + Len(toClient') + Len(toServer') <= Held + Len(toClient) + Len(toServer)
    BY <1>2, <1>3, <1>4, <2>1
  <2>3. Held + Len(toClient') + Len(toServer') <= Len(fifo)
    BY <2>1, <2>2, <1>2, <1>3, <1>4 DEF IInv, WireInv
  <2>4. \A i \in 1..Len(toClient') : toClient'[i] = fifo[Held + i]
    BY <1>2, <1>3, <1>4 DEF IInv, WireInv
  <2>5. ASSUME NEW c \in Caller, pc[c] = "write"
        PROVE  /\ fifo # <<>> /\ fifo[Len(fifo)] = slot(c)
               /\ Held + Len(toClient') + Len(toServer') < Len(fifo)
    <3>1. /\ fifo # <<>> /\ fifo[Len(fifo)] = slot(c)
          /\ Held + Len(toClient) + Len(toServer) < Len(fifo)
      BY <2>5 DEF IInv, WireInv
    <3> QED BY <3>1, <2>1, <2>2, <1>2, <1>3, <1>4
  <2>6. rpc = "got" => fifo # <<>> /\ fifo[1] = rframe
    BY DEF IInv, WireInv
  <2> QED BY <1>1, <1>3, <2>1, <2>3, <2>4, <2>5, <2>6 DEF WireInv, slot, callVars, connVars, readVars
<1> QED BY <1>1, <1>5, <1>6, <1>7, FrameStep DEF IInv, connVars

\* A stuttering step keeps the invariant.
LEMMA StutterStep ==
    ASSUME IInv, UNCHANGED vars
    PROVE  IInv'
<1>1. TypeOK' /\ DeadInv' /\ DoneInv' /\ WireInv'
  BY DEF IInv, TypeOK, DeadInv, DoneInv, WireInv, Held, slot, vars
<1> QED BY <1>1, FrameStep DEF IInv, callVars, vars

-----------------------------------------------------------------------------
(* The theorems. *)

\* IInv is an invariant of call(), readLoop, fail() and close() together.
THEOREM InvariantHolds == Spec => []IInv
<1>1. Init => IInv
  BY InitIInv
<1>2. IInv /\ [Next]_vars => IInv'
  <2> SUFFICES ASSUME IInv, [Next]_vars
               PROVE  IInv'
    OBVIOUS
  <2>1. ASSUME NEW c \in Caller, Call(c) PROVE IInv'
    BY <2>1, CallStartStep, CallLockStep, CallPushStep, CallWriteOkStep,
       CallWriteErrStep, CallFailStep, CallCloseStep, CallReceiveStep DEF Call
  <2>2. CASE ReadLoop
    BY <2>2, ReadFrameStep, ReadMalformedStep, ReadErrorStep, ReadMatchStep,
       ReadFailStep, ReadCloseStep, ReadDrainStep DEF ReadLoop
  <2>3. CASE Engine
    BY <2>3, EngineCloseStep, EngineFailStep, EngineFailCloseStep DEF Engine
  <2>4. CASE ServerReply
    BY <2>4, ServerReplyStep
  <2>5. CASE PeerClose
    BY <2>5, PeerCloseStep
  <2>6. CASE Finished
    BY <2>6, StutterStep DEF Finished
  <2>7. CASE UNCHANGED vars
    BY <2>7, StutterStep
  <2> QED BY <2>1, <2>2, <2>3, <2>4, <2>5, <2>6, <2>7 DEF Next
<1> QED BY <1>1, <1>2, PTL DEF Spec

\* Type correctness of the connection's state.
THEOREM TypeCorrect == Spec => []TypeOK
<1>1. IInv => TypeOK
  BY DEF IInv
<1> QED BY <1>1, InvariantHolds, PTL

\* Whatever the interleaving and whenever the stream fails, a call returns the
\* answer to its own request or errPConnDead (pipeline.go:113-114).
THEOREM ResponsesMatch == Spec => []ResponseMatches
<1>1. IInv => ResponseMatches
  BY TailFacts DEF IInv, TypeOK, WireInv, AnswerInv, ResponseMatches
<1> QED BY <1>1, InvariantHolds, PTL

\* No caller waits on a slot that the read loop will not answer.
THEOREM NobodyStranded == Spec => []NoStrandedWaiter
<1>1. IInv => NoStrandedWaiter
  BY DEF IInv, DoneInv, QueuedInv, NoStrandedWaiter
<1> QED BY <1>1, InvariantHolds, PTL

\* No caller blocks on a full fifo that nobody drains any more.
THEOREM PushNeverStuck == Spec => []PushAfterDrainHasRoom
<1>1. IInv => PushAfterDrainHasRoom
  <2> SUFFICES ASSUME IInv, rpc = "done", NEW c \in Caller, pc[c] = "push"
               PROVE  Len(fifo) < Window
    BY DEF PushAfterDrainHasRoom
  <2>1. fifo = <<>>
    BY DEF IInv, DoneInv
  <2> QED BY <2>1, WindowAssumption
<1> QED BY <1>1, InvariantHolds, PTL

\* The window bounds the requests on the wire, not only the queued slots.
THEOREM InFlightIsBounded == Spec => []InFlightBounded
<1>1. IInv => InFlightBounded
  <2> SUFFICES ASSUME IInv, rpc \in {"read", "got"}
               PROVE  Len(toServer) + Len(toClient) + Held <= Window
    BY DEF InFlightBounded, Held
  <2>1. Len(toServer) \in Nat /\ Len(toClient) \in Nat /\ Len(fifo) \in Nat /\ Held \in {0, 1}
    BY QueueFacts DEF IInv, TypeOK, Held
  <2>2. Held + Len(toClient) + Len(toServer) <= Len(fifo) /\ Len(fifo) <= Window
    BY DEF IInv, WireInv, BoundInv
  <2> QED BY <2>1, <2>2, WindowAssumption
<1> QED BY <1>1, InvariantHolds, PTL

\* Every slot is answered at most once, so the read loop never blocks in a send.
THEOREM AnsweredOnce == Spec => []SlotAnsweredOnce
<1>1. IInv => SlotAnsweredOnce
  BY DEF IInv
<1> QED BY <1>1, InvariantHolds, PTL

-----------------------------------------------------------------------------
(* The connection implements Conn. *)

\* Nobody is refused on a connection that lives: errPConnDead is sent into a slot,
\* and returned after a close, only once dead is set.
RefusedInv ==
    /\ \A s \in Slot : rc[s] = Dead => dead
    /\ \A c \in Caller : pc[c] = "close" => dead

\* RefusedInv is kept by every step of callers, read loop and close().
LEMMA RefusedStep ==
    ASSUME IInv, RefusedInv, [Next]_vars
    PROVE  RefusedInv'
<1> USE DEF RefusedInv, Return
<1>1. TypeOK
  BY DEF IInv
<1>2. ASSUME NEW c \in Caller, Call(c) PROVE RefusedInv'
  <2> USE <1>1 DEF TypeOK, connVars, readVars, netVars
  <2>1. CASE CallStart(c)
    BY <2>1 DEF CallStart
  <2>2. CASE CallLock(c)
    BY <2>2 DEF CallLock
  <2>3. CASE CallPush(c)
    BY <2>3 DEF CallPush
  <2>4. CASE CallWriteOk(c) \/ CallWriteErr(c)
    BY <2>4 DEF CallWriteOk, CallWriteErr
  <2>5. CASE CallFail(c)
    BY <2>5 DEF CallFail
  <2>6. CASE CallClose(c) \/ CallReceive(c)
    BY <2>6 DEF CallClose, CallReceive
  <2> QED BY <1>2, <2>1, <2>2, <2>3, <2>4, <2>5, <2>6 DEF Call
<1>3. CASE ReadLoop
  <2> USE DEF callVars, connVars, netVars
  <2>1. CASE ReadFrame \/ ReadMalformed \/ ReadError
    BY <2>1 DEF ReadFrame, ReadMalformed, ReadError
  <2>2. CASE ReadMatch
    <3>1. rframe \in Slot /\ Head(fifo) \in Slot
      BY <1>1, <2>2, TailFacts DEF ReadMatch, IInv, WireInv, TypeOK
    <3> QED BY <1>1, <2>2, <3>1, DistinctAssumption DEF ReadMatch, AnswerHead, TypeOK
  <2>3. CASE ReadFail \/ ReadClose
    BY <2>3 DEF ReadFail, ReadClose
  <2>4. CASE ReadDrain
    <3>1. dead /\ dead' /\ pc' = pc
      BY <2>4 DEF ReadDrain, IInv, DeadInv
    <3> QED BY <3>1
  <2> QED BY <1>3, <2>1, <2>2, <2>3, <2>4 DEF ReadLoop
<1>4. CASE Engine
  BY <1>4 DEF Engine, EngineClose, EngineFail, EngineFailClose, callVars, connVars
<1>5. CASE ServerReply \/ PeerClose
  BY <1>5 DEF ServerReply, PeerClose, callVars, connVars
<1>6. CASE UNCHANGED vars \/ Finished
  BY <1>6 DEF Finished, vars
<1> QED BY <1>2, <1>3, <1>4, <1>5, <1>6 DEF Next

\* A step of a caller is a step of Conn, or none that Conn sees.
LEMMA CallSimulates ==
    ASSUME IInv, RefusedInv, NEW c \in Caller, Call(c)
    PROVE  [ConnMap!Next]_ConnMap!vars
<1> DEFINE open == {d \in Caller : pc[d] # "idle"}
<1> USE DEF TypeOK, Return, ConnMap!vars, ConnMap!Next, ConnMap!Begin, ConnMap!Reject,
            ConnMap!Answer, ConnMap!Refuse, ConnMap!Die
<1>1. TypeOK
  BY DEF IInv
<1>2. CASE CallStart(c)
  <2>1. CASE dead
    <3>1. open' = open
      BY <1>1, <1>2, <2>1 DEF CallStart
    <3>2. ConnMap!Reject(c)
      BY <1>1, <1>2, <2>1, <3>1 DEF CallStart, connVars
    <3> QED BY <3>2
  <2>2. CASE ~dead
    <3>1. open' = open \cup {c}
      BY <1>1, <1>2, <2>2 DEF CallStart
    <3>2. ConnMap!Begin(c)
      BY <1>1, <1>2, <2>2, <3>1 DEF CallStart, connVars
    <3> QED BY <3>2
  <2> QED BY <2>1, <2>2
<1>3. ASSUME pc[c] # "idle", pc' = [pc EXCEPT ![c] = "idle"], calls' = calls, dead' = dead,
             \/ dead /\ ret' = [ret EXCEPT ![c] = Dead]
             \/ ret' = [ret EXCEPT ![c] = slot(c)]
      PROVE  ConnMap!Answer(c) \/ ConnMap!Refuse(c)
  <2>1. open' = open \ {c} /\ c \in open
    BY <1>1, <1>3
  <2> QED BY <1>3, <2>1 DEF slot
<1>4. ASSUME pc[c] # "idle", NEW l \in {"push", "write", "fail", "close", "wait"},
             pc' = [pc EXCEPT ![c] = l]
      PROVE  open' = open
  BY <1>1, <1>4
<1>5. CASE CallLock(c)
  <2>1. CASE dead
    BY <1>3, <1>5, <2>1 DEF CallLock
  <2>2. CASE ~dead
    BY <1>4, <1>5, <2>2 DEF CallLock
  <2> QED BY <2>1, <2>2
<1>6. CASE CallPush(c) \/ CallWriteOk(c) \/ CallWriteErr(c)
  BY <1>4, <1>6 DEF CallPush, CallWriteOk, CallWriteErr
<1>7. CASE CallFail(c)
  <2>1. CASE dead
    BY <1>3, <1>7, <2>1 DEF CallFail
  <2>2. CASE ~dead
    <3>1. open' = open
      BY <1>4, <1>7, <2>2 DEF CallFail
    <3> QED BY <1>7, <2>2, <3>1 DEF CallFail
  <2> QED BY <2>1, <2>2
<1>8. CASE CallClose(c)
  BY <1>3, <1>8 DEF CallClose, RefusedInv
<1>9. CASE CallReceive(c)
  <2>1. pc[c] = "wait" /\ slot(c) \in Slot
    BY <1>1, <1>9, MaxCallsAssumption DEF CallReceive, IInv, CallInv, slot, Slot
  <2>2. rc[slot(c)] = slot(c) \/ (rc[slot(c)] = Dead /\ dead)
    BY <1>9, <2>1 DEF CallReceive, IInv, AnswerInv, RefusedInv
  <2> QED BY <1>3, <1>9, <2>1, <2>2 DEF CallReceive, connVars
<1> QED BY <1>2, <1>5, <1>6, <1>7, <1>8, <1>9 DEF Call

\* To the engine that calls it, the connection is the one Conn specifies, as far as
\* safety goes: a call ends with its own answer or, once the connection is dead,
\* with errPConnDead, and dead is for ever (pipeline.go:58-90).
THEOREM ImplementsConnSafely == Spec => ConnMap!Spec
<1>1. Init => RefusedInv /\ ConnMap!Init
  <2> SUFFICES ASSUME Init PROVE RefusedInv /\ ConnMap!Init
    OBVIOUS
  <2>1. {c \in Caller : pc[c] # "idle"} = {}
    BY DEF Init
  <2> QED BY <2>1, DistinctAssumption DEF Init, RefusedInv, ConnMap!Init
<1>2. IInv /\ RefusedInv /\ [Next]_vars => RefusedInv'
  BY RefusedStep
<1>3. IInv /\ RefusedInv /\ [Next]_vars => [ConnMap!Next]_ConnMap!vars
  <2> SUFFICES ASSUME IInv, RefusedInv, [Next]_vars
               PROVE  [ConnMap!Next]_ConnMap!vars
    OBVIOUS
  <2>1. CASE pc' = pc /\ calls' = calls /\ ret' = ret /\ dead' = dead
    BY <2>1 DEF ConnMap!vars
  <2>2. CASE pc' = pc /\ calls' = calls /\ ret' = ret /\ ~dead /\ dead'
    BY <2>2 DEF ConnMap!Next, ConnMap!Die
  <2>3. CASE \E c \in Caller : Call(c)
    BY <2>3, CallSimulates
  <2>4. dead \in BOOLEAN
    BY DEF IInv, TypeOK
  <2>5. CASE ReadLoop
    BY <2>1, <2>2, <2>4, <2>5 DEF ReadLoop, ReadFrame, ReadMalformed, ReadError, ReadMatch,
       ReadFail, ReadClose, ReadDrain, callVars, connVars
  <2>6. CASE Engine
    BY <2>1, <2>2, <2>4, <2>6 DEF Engine, EngineClose, EngineFail, EngineFailClose,
       callVars, connVars
  <2>7. CASE ServerReply \/ PeerClose \/ Finished \/ UNCHANGED vars
    BY <2>1, <2>7 DEF ServerReply, PeerClose, Finished, vars, callVars, connVars
  <2> QED BY <2>3, <2>5, <2>6, <2>7 DEF Next
<1> QED BY <1>1, <1>2, <1>3, InvariantHolds, PTL DEF Spec, ConnMap!Spec
=============================================================================
