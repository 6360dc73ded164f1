-------------------------- MODULE PipeEngineProofs --------------------------
(***************************************************************************)
(* The safety of routing and fallback in rostamPipeEngine, for any number  *)
(* of workers, nodes, connections per node, dials and moves of the leader. *)
(* The inductive invariant says where in a call it may have been executed, *)
(* and what a worker knows of e.conns at each point of route().            *)
(***************************************************************************)
EXTENDS PipeEngine, SequenceTheorems, TLAPS

Opened == [node : Node, live : BOOLEAN]

\* The types the steps need and TypeOK leaves out.
MoreTypes ==
    /\ opened \in Seq(Opened)
    /\ conns \in [Node -> Seq(Nat)]
    /\ addr \in [Worker -> Node \cup {NoAddr}]
    /\ dialled \in [Worker -> Seq(Nat)]
    /\ status \in [Worker -> {"none", "OK", "NotLeader", "Error"}]
    /\ execs \in [Worker -> Nat]
    /\ ret \in [Worker -> {"none", "nil", "err"}]
    /\ fetched \in Node \cup {NoAddr, NoOne} /\ moves \in Nat

\* What route() knows: the address it decided on, that connections to it are
\* stored once it picks among them, and the connection a call goes over.
RouteInv ==
    \A w \in Worker :
        /\ pc[w] \notin {"idle", "base"} => addr[w] \in Node
        /\ pc[w] \in {"pick", "redial", "store"} => conns[addr[w]] # <<>>
        /\ pc[w] \in {"store", "pcall", "answer"} => conn[w] \in Ids

\* A fill holds e.mu, is of a node that has no connections yet, and has not
\* dialled as many as it stores.
FillInv ==
    \A w \in Worker :
        /\ (mu = w) <=> pc[w] = "dial"
        /\ pc[w] = "dial" => conns[addr[w]] = <<>> /\ Len(dialled[w]) < PerNode
        /\ pc[w] = "dial" => \A i \in 1..Len(dialled[w]) : dialled[w][i] \in Ids

\* Where a call is before it is served.
Routing == {"lock", "dial", "pick", "redial", "store", "pcall"}

\* Where a call is tells how often it may have been executed.
ExecInv ==
    \A w \in Worker :
        /\ pc[w] \in Routing => execs[w] = 0
        /\ pc[w] = "answer" => execs[w] <= 1 /\ (status[w] = "OK" => execs[w] = 1)
        /\ pc[w] = "base" => execs[w] <= 1
        /\ pc[w] = "idle" => execs[w] <= 2
        /\ pc[w] # "idle" => ret[w] = "none"
        /\ ret[w] = "nil" => execs[w] >= 1

IInv == TypeOK /\ MoreTypes /\ RouteInv /\ FillInv /\ ExecInv

-----------------------------------------------------------------------------
(* e.conns and the connections dialled *)

\* What a successful dial adds.
LEMMA DialFacts ==
    ASSUME IInv, NEW n \in Node, Dialled(n)
    PROVE  /\ opened' \in Seq(Opened) /\ Len(opened) \in Nat
           /\ Len(opened') = Len(opened) + 1
           /\ \A k \in 1..Len(opened') : opened'[k] \in Opened
<1>1. opened' = Append(opened, [node |-> n, live |-> TRUE]) /\ [node |-> n, live |-> TRUE] \in Opened
  BY DEF Dialled, Opened
<1>2. opened' \in Seq(Opened) /\ Len(opened) \in Nat /\ Len(opened') = Len(opened) + 1
  BY <1>1, AppendProperties, LenProperties DEF IInv, MoreTypes
<1> QED BY <1>2, ElementOfSeq

\* Every list of e.conns is empty or full, and full ones are functions on 1..PerNode.
LEMMA FullIsFunction ==
    ASSUME NEW q \in [1..PerNode -> Nat]
    PROVE  q # <<>> /\ q \in Seq(Nat) /\ Len(q) = PerNode
<1>1. q \in Seq(Nat)
  BY SeqDef, PerNodeAssumption
<1>2. Len(q) = PerNode
  BY <1>1, LenProperties, PerNodeAssumption
<1> QED BY <1>1, <1>2, EmptySeq, PerNodeAssumption

\* What newRostamPipe leaves satisfies the invariant.
LEMMA InitIInv == Init => IInv
<1> SUFFICES ASSUME Init PROVE IInv
  OBVIOUS
<1> USE PerNodeAssumption, NameAssumption DEF Init
<1>1. opened = <<>> /\ Len(opened) = 0 /\ opened \in Seq(Opened) /\ <<>> \in Seq(Nat)
  BY EmptySeq
<1>2. TypeOK
  BY <1>1 DEF TypeOK, Ids
<1>3. MoreTypes
  BY <1>1 DEF MoreTypes
<1>4. RouteInv /\ FillInv
  BY DEF RouteInv, FillInv
<1>5. ExecInv
  BY DEF ExecInv, Routing
<1> QED BY <1>2, <1>3, <1>4, <1>5 DEF IInv

\* Inside route() a call has not been executed, wherever it goes next.
LEMMA RouteExec ==
    ASSUME IInv, NEW w \in Worker, NEW l \in Routing \cup {"base"},
           pc[w] \in Routing, pc' = [pc EXCEPT ![w] = l], UNCHANGED <<execs, ret>>,
           \A v \in Worker \ {w} : status'[v] = status[v]
    PROVE  ExecInv'
<1>1. pc'[w] = l /\ \A v \in Worker \ {w} : pc'[v] = pc[v]
  BY DEF IInv, TypeOK
<1>2. execs[w] = 0 /\ ret[w] = "none"
  BY DEF IInv, ExecInv, Routing
<1> SUFFICES ASSUME NEW v \in Worker
             PROVE  /\ pc'[v] \in Routing => execs'[v] = 0
                    /\ pc'[v] = "answer" => execs'[v] <= 1 /\ (status'[v] = "OK" => execs'[v] = 1)
                    /\ pc'[v] = "base" => execs'[v] <= 1
                    /\ pc'[v] = "idle" => execs'[v] <= 2
                    /\ pc'[v] # "idle" => ret'[v] = "none"
                    /\ ret'[v] = "nil" => execs'[v] >= 1
  BY DEF ExecInv
<1>3. CASE v = w
  BY <1>1, <1>2, <1>3 DEF Routing
<1>4. CASE v # w
  BY <1>1, <1>4 DEF IInv, ExecInv
<1> QED BY <1>3, <1>4

\* What a call leaves behind when it is through with the pipelined connection.
LEMMA LeaveFacts ==
    ASSUME IInv, NEW w \in Worker, NEW l, Leave(w, l)
    PROVE  /\ pc' = [pc EXCEPT ![w] = l]
           /\ addr' \in [Worker -> Node \cup {NoAddr}] /\ dialled' \in [Worker -> Seq(Nat)]
           /\ idx' \in [Worker -> 1..PerNode] /\ conn' \in [Worker -> 0..Len(opened)]
           /\ status' \in [Worker -> {"none", "OK", "NotLeader", "Error"}]
           /\ \A v \in Worker \ {w} : /\ pc'[v] = pc[v] /\ addr'[v] = addr[v]
                                      /\ dialled'[v] = dialled[v] /\ conn'[v] = conn[v]
                                      /\ status'[v] = status[v]
<1> USE DEF IInv, TypeOK, MoreTypes, Leave, Goto
<1>1. <<>> \in Seq(Nat) /\ 1 \in 1..PerNode /\ 0 \in 0..Len(opened)
  BY EmptySeq, LenProperties, PerNodeAssumption
<1>2. addr' \in [Worker -> Node \cup {NoAddr}]
  OBVIOUS
<1>3. dialled' \in [Worker -> Seq(Nat)]
  BY <1>1
<1>4. idx' \in [Worker -> 1..PerNode] /\ conn' \in [Worker -> 0..Len(opened)]
  BY <1>1
<1>5. status' \in [Worker -> {"none", "OK", "NotLeader", "Error"}]
  OBVIOUS
<1> QED BY <1>2, <1>3, <1>4, <1>5

\* A call that leaves disturbs no other and holds nothing any more.
LEMMA LeaveKeeps ==
    ASSUME IInv, NEW w \in Worker, NEW l \in {"base", "idle"}, Leave(w, l),
           UNCHANGED <<leader, topo, fetched, moves, conns, rr, opened>>,
           \/ mu' = mu /\ pc[w] # "dial"
           \/ mu' = NoOne /\ pc[w] = "dial"
    PROVE  /\ TypeOK' /\ RouteInv' /\ FillInv'
           /\ execs' \in [Worker -> Nat] /\ ret' \in [Worker -> {"none", "nil", "err"}] => MoreTypes'
<1> USE DEF IInv
<1>1. /\ pc' = [pc EXCEPT ![w] = l]
      /\ addr' \in [Worker -> Node \cup {NoAddr}] /\ dialled' \in [Worker -> Seq(Nat)]
      /\ idx' \in [Worker -> 1..PerNode] /\ conn' \in [Worker -> 0..Len(opened)]
      /\ status' \in [Worker -> {"none", "OK", "NotLeader", "Error"}]
      /\ \A v \in Worker \ {w} : /\ pc'[v] = pc[v] /\ addr'[v] = addr[v]
                                 /\ dialled'[v] = dialled[v] /\ conn'[v] = conn[v]
                                 /\ status'[v] = status[v]
  BY LeaveFacts
<1>2. Ids' = Ids /\ pc'[w] = l
  BY <1>1 DEF Ids, TypeOK
<1>3. TypeOK'
  <2>1. pc' \in [Worker -> {"idle", "lock", "dial", "pick", "redial", "store", "pcall",
                           "answer", "base"}]
    BY <1>1 DEF TypeOK
  <2>2. mu' \in Worker \cup {NoOne}
    BY DEF TypeOK
  <2> QED BY <1>1, <1>2, <2>1, <2>2 DEF TypeOK
<1>4. RouteInv'
  BY <1>1, <1>2 DEF RouteInv
<1>5. FillInv'
  <2>1. CASE mu' = mu /\ pc[w] # "dial"
    <3>1. mu # w /\ pc'[w] # "dial"
      BY <1>2, <2>1 DEF FillInv
    <3> SUFFICES ASSUME NEW v \in Worker
                 PROVE  /\ (mu' = v) <=> pc'[v] = "dial"
                        /\ pc'[v] = "dial" => conns'[addr'[v]] = <<>> /\ Len(dialled'[v]) < PerNode
                        /\ pc'[v] = "dial" => \A i \in 1..Len(dialled'[v]) : dialled'[v][i] \in Ids'
      BY DEF FillInv
    <3>2. CASE v = w
      BY <2>1, <3>1, <3>2
    <3>3. CASE v # w
      <4>1. pc'[v] = pc[v] /\ addr'[v] = addr[v] /\ dialled'[v] = dialled[v] /\ conns' = conns
        BY <1>1, <3>3
      <4> QED BY <1>2, <2>1, <4>1 DEF FillInv
    <3> QED BY <3>2, <3>3
  <2>2. CASE mu' = NoOne /\ pc[w] = "dial"
    <3>1. \A v \in Worker : v # NoOne /\ pc'[v] # "dial"
      BY <1>1, <1>2, <2>2, NameAssumption DEF FillInv
    <3> QED BY <2>2, <3>1 DEF FillInv
  <2> QED BY <2>1, <2>2
<1>6. execs' \in [Worker -> Nat] /\ ret' \in [Worker -> {"none", "nil", "err"}] => MoreTypes'
  BY <1>1 DEF MoreTypes
<1> QED BY <1>3, <1>4, <1>5, <1>6

-----------------------------------------------------------------------------
(* One lemma per action. *)

\* A call begins with the topology of the moment.
LEMMA CallStartStep ==
    ASSUME IInv, NEW w \in Worker, CallStart(w)
    PROVE  IInv'
<1> USE DEF IInv, CallStart, Goto
<1>1. TypeOK'
  BY DEF TypeOK, Ids
<1>2. MoreTypes'
  <2>1. addr' \in [Worker -> Node \cup {NoAddr}]
    BY DEF MoreTypes, TypeOK
  <2>2. execs' \in [Worker -> Nat]
    BY DEF MoreTypes
  <2>3. ret' \in [Worker -> {"none", "nil", "err"}]
    BY DEF MoreTypes
  <2> QED BY <2>1, <2>2, <2>3 DEF MoreTypes
<1>3. RouteInv'
  BY DEF RouteInv, TypeOK, MoreTypes, Ids
<1>4. FillInv'
  <2>1. pc[w] # "dial" /\ pc'[w] # "dial"
    BY DEF TypeOK
  <2>2. \A v \in Worker \ {w} : pc'[v] = pc[v] /\ addr'[v] = addr[v]
    BY DEF TypeOK, MoreTypes
  <2>3. UNCHANGED <<mu, conns, dialled, Ids>>
    BY DEF Ids
  <2> QED BY <2>1, <2>2, <2>3 DEF FillInv
<1>5. ExecInv'
  BY DEF ExecInv, Routing, TypeOK, MoreTypes
<1> QED BY <1>1, <1>2, <1>3, <1>4, <1>5

\* The look-up under e.mu.
LEMMA RouteLockStep ==
    ASSUME IInv, NEW w \in Worker, RouteLock(w)
    PROVE  IInv'
<1> USE DEF IInv, RouteLock, Goto
<1>1. TypeOK'
  BY DEF TypeOK, Ids
<1>2. MoreTypes'
  <2>1. <<>> \in Seq(Nat)
    BY EmptySeq
  <2>2. dialled' \in [Worker -> Seq(Nat)]
    BY <2>1 DEF MoreTypes
  <2> QED BY <2>2 DEF MoreTypes
<1>3. RouteInv'
  BY DEF RouteInv, TypeOK, MoreTypes, Ids
<1>4. FillInv'
  <2>1. Len(<<>>) = 0 /\ 0 < PerNode
    BY PerNodeAssumption
  <2>2. \A v \in Worker : pc[v] # "dial" /\ v # NoOne
    BY NameAssumption DEF FillInv
  <2>3. UNCHANGED <<conns, addr, Ids>> /\ \A v \in Worker \ {w} : pc'[v] = pc[v]
    BY DEF Ids, TypeOK
  <2>4. CASE pc'[w] = "pick" /\ UNCHANGED <<mu, dialled>>
    BY <2>2, <2>3, <2>4 DEF FillInv
  <2>5. CASE pc'[w] = "dial" /\ mu' = w /\ conns[addr[w]] = <<>> /\ dialled'[w] = <<>>
    BY <2>1, <2>2, <2>3, <2>5 DEF FillInv
  <2> QED BY <2>4, <2>5 DEF TypeOK, MoreTypes
<1>5. ExecInv'
  BY RouteExec DEF Routing
<1> QED BY <1>1, <1>2, <1>3, <1>4, <1>5

\* One turn of the fill; the last one stores a full list and unlocks.
LEMMA RouteDialStep ==
    ASSUME IInv, NEW w \in Worker, RouteDial(w)
    PROVE  IInv'
<1> USE DEF IInv
<1> DEFINE pcs == Append(dialled[w], Len(opened) + 1)
           last == Len(pcs) = PerNode
<1>1. pc[w] = "dial" /\ addr[w] \in Node /\ Dialled(addr[w])
  BY DEF RouteDial, RouteInv
<1>2. /\ opened' \in Seq(Opened) /\ Len(opened) \in Nat
      /\ Len(opened') = Len(opened) + 1
      /\ \A k \in 1..Len(opened') : opened'[k] \in Opened
  BY <1>1, DialFacts
<1>3. /\ pcs \in Seq(Nat) /\ Len(dialled[w]) \in Nat /\ Len(pcs) = Len(dialled[w]) + 1
      /\ Len(pcs) <= PerNode
      /\ \A i \in 1..Len(pcs) : pcs[i] \in 1..Len(opened) + 1
  <2>1. dialled[w] \in Seq(Nat) /\ Len(opened) + 1 \in Nat
    BY <1>2 DEF MoreTypes
  <2>2. /\ pcs \in Seq(Nat) /\ Len(dialled[w]) \in Nat /\ Len(pcs) = Len(dialled[w]) + 1
        /\ \A i \in 1..Len(dialled[w]) : pcs[i] = dialled[w][i]
        /\ pcs[Len(dialled[w]) + 1] = Len(opened) + 1
    BY <2>1, AppendProperties, LenProperties
  <2>3. \A i \in 1..Len(dialled[w]) : dialled[w][i] \in 1..Len(opened)
    BY <1>1 DEF FillInv, Ids
  <2>4. Len(dialled[w]) < PerNode
    BY <1>1 DEF FillInv
  <2> HIDE DEF pcs
  <2>5. Len(pcs) <= PerNode
    BY <2>2, <2>4, PerNodeAssumption
  <2>6. ASSUME NEW i \in 1..Len(pcs) PROVE pcs[i] \in 1..Len(opened) + 1
    <3>1. CASE i \in 1..Len(dialled[w])
      <4>1. pcs[i] \in 1..Len(opened)
        BY <2>2, <2>3, <3>1
      <4> HIDE DEF IInv
      <4> QED BY <1>2, <4>1
    <3>2. CASE i = Len(dialled[w]) + 1
      <4>1. pcs[i] = Len(opened) + 1
        BY <2>2, <3>2
      <4> HIDE DEF IInv
      <4> QED BY <1>2, <4>1
    <3> QED BY <2>2, <3>1, <3>2
  <2> QED BY <2>2, <2>5, <2>6
<1>4. /\ dialled' = [dialled EXCEPT ![w] = pcs]
      /\ conns' = IF last THEN [conns EXCEPT ![addr[w]] = pcs] ELSE conns
      /\ mu' = IF last THEN NoOne ELSE mu
      /\ pc' = [pc EXCEPT ![w] = IF last THEN "pick" ELSE "dial"]
      /\ UNCHANGED <<leader, moves, topo, fetched, rr, addr, idx, conn, status, execs, ret, kpc>>
  BY DEF RouteDial, Goto
<1> HIDE DEF pcs
<1>5. last => pcs \in [1..PerNode -> 1..Len(opened')] /\ pcs # <<>>
  <2>1. DOMAIN pcs = 1..Len(pcs) /\ pcs = [i \in DOMAIN pcs |-> pcs[i]]
    BY <1>3, LenProperties
  <2> QED BY <1>2, <1>3, <2>1, EmptySeq, PerNodeAssumption
<1>6. \A q : q \in [1..PerNode -> 1..Len(opened)] => q \in [1..PerNode -> 1..Len(opened')]
  BY <1>2
<1>7. TypeOK'
  <2>1. \A n \in Node : conns'[n] = <<>> \/ conns'[n] \in [1..PerNode -> Ids']
    BY <1>1, <1>4, <1>5, <1>6 DEF TypeOK, MoreTypes, Ids
  <2>2. conn' \in [Worker -> 0..Len(opened')]
    BY <1>2, <1>4 DEF TypeOK
  <2>3. \A k \in Ids' : opened'[k] \in [node : Node, live : BOOLEAN]
    BY <1>2 DEF Ids, Opened
  <2>4. pc' \in [Worker -> {"idle", "lock", "dial", "pick", "redial", "store", "pcall",
                           "answer", "base"}]
    BY <1>4 DEF TypeOK
  <2> QED BY <1>4, <2>1, <2>2, <2>3, <2>4 DEF TypeOK
<1>8. MoreTypes'
  BY <1>1, <1>2, <1>3, <1>4 DEF MoreTypes, TypeOK
<1>9. \A k \in Ids : k \in Ids'
  BY <1>2 DEF Ids
<1>10. RouteInv'
  BY <1>1, <1>4, <1>5, <1>9 DEF RouteInv, TypeOK, MoreTypes
<1>11. FillInv'
  <2>1. mu = w /\ \A v \in Worker : pc[v] = "dial" => v = w
    BY <1>1 DEF FillInv
  <2>2. ~last => conns'[addr[w]] = <<>> /\ Len(pcs) < PerNode /\ \A i \in 1..Len(pcs) : pcs[i] \in Ids'
    BY <1>1, <1>2, <1>3, <1>4, PerNodeAssumption DEF FillInv, Ids
  <2> QED BY <1>4, <2>1, <2>2, NameAssumption DEF FillInv, TypeOK, MoreTypes
<1>12. ExecInv'
  BY <1>1, <1>4, RouteExec DEF Routing
<1> QED BY <1>7, <1>8, <1>10, <1>11, <1>12

\* A dial of the fill fails.
LEMMA RouteDialErrStep ==
    ASSUME IInv, NEW w \in Worker, RouteDialErr(w)
    PROVE  IInv'
<1>1. TypeOK' /\ RouteInv' /\ FillInv' /\ MoreTypes'
  <2>1. execs' \in [Worker -> Nat] /\ ret' \in [Worker -> {"none", "nil", "err"}]
    BY DEF RouteDialErr, IInv, MoreTypes
  <2> QED BY <2>1, LeaveKeeps DEF RouteDialErr
<1>2. ExecInv'
  <2>1. pc' = [pc EXCEPT ![w] = "base"] /\ \A v \in Worker \ {w} : status'[v] = status[v]
    BY LeaveFacts DEF RouteDialErr
  <2> QED BY <2>1, RouteExec DEF RouteDialErr, Routing
<1> QED BY <1>1, <1>2 DEF IInv

\* A stored connection is selected.
LEMMA RoutePickStep ==
    ASSUME IInv, NEW w \in Worker, RoutePick(w)
    PROVE  IInv'
<1> USE DEF IInv
<1> DEFINE k == conns[addr[w]][rr' + 1]
<1>1. rr' \in 0..PerNode - 1 /\ rr' + 1 \in 1..PerNode
  BY PerNodeAssumption DEF RoutePick, TypeOK
<1>2. pc[w] = "pick" /\ addr[w] \in Node /\ conns[addr[w]] \in [1..PerNode -> Ids] /\ k \in Ids
  <2>1. pc[w] = "pick" /\ addr[w] \in Node /\ conns[addr[w]] # <<>>
    BY DEF RoutePick, RouteInv
  <2>2. conns[addr[w]] \in [1..PerNode -> Ids]
    BY <2>1 DEF TypeOK
  <2> QED BY <1>1, <2>1, <2>2
<1>3. /\ idx' = [idx EXCEPT ![w] = rr' + 1]
      /\ \/ conn' = [conn EXCEPT ![w] = k] /\ pc' = [pc EXCEPT ![w] = "pcall"]
         \/ conn' = conn /\ pc' = [pc EXCEPT ![w] = "redial"]
      /\ UNCHANGED <<leader, moves, topo, fetched, mu, conns, opened, addr, dialled, status,
                     execs, ret, kpc>>
  BY DEF RoutePick, Goto
<1>4. k \in 0..Len(opened)
  BY <1>2, LenProperties DEF Ids, MoreTypes
<1> HIDE DEF k
<1>5. TypeOK'
  BY <1>1, <1>3, <1>4 DEF TypeOK, Ids
<1>6. MoreTypes'
  BY <1>3 DEF MoreTypes
<1>7. RouteInv'
  BY <1>2, <1>3 DEF RouteInv, TypeOK, Ids
<1>8. FillInv'
  BY <1>2, <1>3 DEF FillInv, TypeOK, Ids
<1>9. ExecInv'
  BY <1>2, <1>3, RouteExec DEF Routing
<1> QED BY <1>5, <1>6, <1>7, <1>8, <1>9

\* The successor of a dead connection is dialled.
LEMMA RouteRedialStep ==
    ASSUME IInv, NEW w \in Worker, RouteRedial(w)
    PROVE  IInv'
<1> USE DEF IInv
<1>1. pc[w] = "redial" /\ addr[w] \in Node /\ Dialled(addr[w])
  BY DEF RouteRedial, RouteInv
<1>2. /\ opened' \in Seq(Opened) /\ Len(opened) \in Nat
      /\ Len(opened') = Len(opened) + 1
      /\ \A i \in 1..Len(opened') : opened'[i] \in Opened
  BY <1>1, DialFacts
<1>3. /\ conn' = [conn EXCEPT ![w] = Len(opened) + 1]
      /\ pc' = [pc EXCEPT ![w] = "store"]
      /\ UNCHANGED <<leader, moves, topo, fetched, mu, conns, rr, addr, dialled, idx, status,
                     execs, ret, kpc>>
  BY DEF RouteRedial, Goto
<1>4. Ids' = 1..Len(opened) + 1 /\ \A i \in Ids : i \in Ids'
  BY <1>2 DEF Ids
<1>5. TypeOK'
  <2>1. \A n \in Node : conns'[n] = <<>> \/ conns'[n] \in [1..PerNode -> Ids']
    BY <1>3, <1>4 DEF TypeOK
  <2>2. conn' \in [Worker -> 0..Len(opened')]
    BY <1>2, <1>3 DEF TypeOK
  <2>3. \A i \in Ids' : opened'[i] \in [node : Node, live : BOOLEAN]
    BY <1>2, <1>4 DEF Opened
  <2> QED BY <1>3, <2>1, <2>2, <2>3 DEF TypeOK
<1>6. MoreTypes'
  BY <1>2, <1>3 DEF MoreTypes
<1>7. RouteInv'
  BY <1>1, <1>2, <1>3, <1>4 DEF RouteInv, TypeOK
<1>8. FillInv'
  BY <1>1, <1>3, <1>4 DEF FillInv, TypeOK
<1>9. ExecInv'
  BY <1>1, <1>3, RouteExec DEF Routing
<1> QED BY <1>5, <1>6, <1>7, <1>8, <1>9

\* It cannot be dialled.
LEMMA RouteRedialErrStep ==
    ASSUME IInv, NEW w \in Worker, RouteRedialErr(w)
    PROVE  IInv'
<1>1. TypeOK' /\ RouteInv' /\ FillInv' /\ MoreTypes'
  <2>1. execs' \in [Worker -> Nat] /\ ret' \in [Worker -> {"none", "nil", "err"}]
    BY DEF RouteRedialErr, IInv, MoreTypes
  <2> QED BY <2>1, LeaveKeeps DEF RouteRedialErr
<1>2. ExecInv'
  <2>1. pc' = [pc EXCEPT ![w] = "base"] /\ \A v \in Worker \ {w} : status'[v] = status[v]
    BY LeaveFacts DEF RouteRedialErr
  <2> QED BY <2>1, RouteExec DEF RouteRedialErr, Routing
<1> QED BY <1>1, <1>2 DEF IInv

\* The successor is stored at the place of the dead one.
LEMMA RouteStoreStep ==
    ASSUME IInv, NEW w \in Worker, RouteStore(w)
    PROVE  IInv'
<1> USE DEF IInv
<1> DEFINE q == [conns[addr[w]] EXCEPT ![idx[w]] = conn[w]]
<1>1. /\ pc[w] = "store" /\ mu = NoOne /\ addr[w] \in Node /\ conn[w] \in Ids
      /\ idx[w] \in 1..PerNode /\ conns[addr[w]] \in [1..PerNode -> Ids]
  BY DEF RouteStore, RouteInv, TypeOK
<1>2. /\ conns' = [conns EXCEPT ![addr[w]] = q]
      /\ pc' = [pc EXCEPT ![w] = "pcall"]
      /\ UNCHANGED <<leader, moves, topo, fetched, mu, rr, opened, addr, dialled, idx, conn,
                     status, execs, ret, kpc>>
  BY DEF RouteStore, Goto
<1>3. q \in [1..PerNode -> Ids]
  BY <1>1
<1>4. q \in Seq(Nat) /\ q # <<>>
  <2>1. Ids \subseteq Nat
    BY DEF Ids
  <2> QED BY <1>3, <2>1, FullIsFunction
<1> HIDE DEF q
<1>5. \A v \in Worker : pc[v] # "dial"
  BY <1>1, NameAssumption DEF FillInv
<1>6. Ids' = Ids
  BY <1>2 DEF Ids
<1>7. TypeOK'
  <2>1. \A n \in Node : conns'[n] = <<>> \/ conns'[n] \in [1..PerNode -> Ids']
    BY <1>1, <1>2, <1>3, <1>6 DEF TypeOK, MoreTypes
  <2> QED BY <1>2, <1>6, <2>1 DEF TypeOK
<1>8. MoreTypes'
  BY <1>1, <1>2, <1>4 DEF MoreTypes
<1>9. RouteInv'
  BY <1>1, <1>2, <1>4, <1>6 DEF RouteInv, TypeOK, MoreTypes
<1>10. FillInv'
  BY <1>1, <1>2, <1>5, NameAssumption DEF FillInv, TypeOK
<1>11. ExecInv'
  BY <1>1, <1>2, RouteExec DEF Routing
<1> QED BY <1>7, <1>8, <1>9, <1>10, <1>11

\* A node answers, and has executed the call if it leads.
LEMMA PCallServedStep ==
    ASSUME IInv, NEW w \in Worker, PCallServed(w)
    PROVE  IInv'
<1> USE DEF IInv
<1>1. PICK t \in {"OK", "NotLeader", "Error"}, n \in {0, 1} :
      /\ pc[w] = "pcall" /\ pc' = [pc EXCEPT ![w] = "answer"]
      /\ t = "OK" => n = 1
      /\ status' = [status EXCEPT ![w] = t] /\ execs' = [execs EXCEPT ![w] = @ + n]
      /\ UNCHANGED <<leader, moves, topo, fetched, mu, conns, rr, opened, addr, dialled, idx,
                     conn, ret, kpc>>
  BY DEF PCallServed, Goto
<1>2. TypeOK'
  BY <1>1 DEF TypeOK, Ids
<1>3. MoreTypes'
  <2>1. execs' \in [Worker -> Nat]
    <3>1. execs \in [Worker -> Nat] /\ execs[w] + n \in Nat
      BY DEF MoreTypes
    <3> QED BY <1>1, <3>1
  <2>2. status' \in [Worker -> {"none", "OK", "NotLeader", "Error"}]
    BY <1>1 DEF MoreTypes
  <2> QED BY <1>1, <2>1, <2>2 DEF MoreTypes
<1>4. RouteInv'
  BY <1>1 DEF RouteInv, TypeOK, Ids
<1>5. FillInv'
  BY <1>1 DEF FillInv, TypeOK, Ids
<1>6. ExecInv'
  <2>1. \A v \in Worker \ {w} : pc'[v] = pc[v] /\ execs'[v] = execs[v] /\ status'[v] = status[v]
    BY <1>1 DEF TypeOK, MoreTypes
  <2>2. pc'[w] = "answer" /\ execs[w] = 0 /\ ret[w] = "none"
    BY <1>1 DEF TypeOK, ExecInv, Routing
  <2>3. execs'[w] = n /\ status'[w] = t
    BY <1>1, <2>2 DEF MoreTypes
  <2> QED BY <1>1, <2>1, <2>2, <2>3 DEF ExecInv, Routing
<1> QED BY <1>2, <1>3, <1>4, <1>5, <1>6

\* The answer arrives, or the connection is found dead.
LEMMA PCallEndStep ==
    ASSUME IInv, NEW w \in Worker, PCallAnswered(w) \/ PCallDead(w)
    PROVE  IInv'
<1> USE DEF IInv
<1>1. PICK l \in {"base", "idle"} :
      /\ pc[w] \in {"pcall", "answer"} /\ Leave(w, l)
      /\ l = "idle" => pc[w] = "answer" /\ status[w] = "OK" /\ ret' = [ret EXCEPT ![w] = "nil"]
      /\ l = "base" => ret' = ret
      /\ UNCHANGED <<leader, moves, topo, fetched, mu, conns, rr, opened, execs, kpc>>
  BY DEF PCallAnswered, PCallDead, Return
<1>2. TypeOK' /\ RouteInv' /\ FillInv' /\ MoreTypes'
  <2>1. execs' \in [Worker -> Nat] /\ ret' \in [Worker -> {"none", "nil", "err"}]
    BY <1>1 DEF MoreTypes
  <2> QED BY <1>1, <2>1, LeaveKeeps
<1>3. ExecInv'
  <2>1. \A v \in Worker \ {w} : pc'[v] = pc[v] /\ status'[v] = status[v]
    BY <1>1, LeaveFacts
  <2>2. pc'[w] = l /\ \A v \in Worker \ {w} : ret'[v] = ret[v]
    BY <1>1, LeaveFacts DEF TypeOK, MoreTypes
  <2>3. CASE l = "idle"
    <3>1. execs[w] = 1
      BY <1>1, <2>3 DEF ExecInv
    <3> QED BY <1>1, <2>1, <2>2, <2>3, <3>1 DEF ExecInv, Routing
  <2>4. CASE l = "base"
    <3>1. execs[w] <= 1 /\ ret[w] = "none"
      BY <1>1 DEF ExecInv, Routing
    <3> QED BY <1>1, <2>1, <2>2, <2>4, <3>1 DEF ExecInv, Routing
  <2> QED BY <2>3, <2>4
<1> QED BY <1>2, <1>3

\* The classic client ends the call.
LEMMA BaseCallStep ==
    ASSUME IInv, NEW w \in Worker, BaseCall(w)
    PROVE  IInv'
<1> USE DEF IInv
<1>1. PICK n \in {0, 1} :
      /\ pc[w] = "base" /\ Leave(w, "idle")
      /\ execs' = [execs EXCEPT ![w] = @ + n]
      /\ \/ n = 1 /\ ret' = [ret EXCEPT ![w] = "nil"]
         \/ ret' = [ret EXCEPT ![w] = "err"]
      /\ UNCHANGED <<leader, moves, topo, fetched, mu, conns, rr, opened, kpc>>
  BY DEF BaseCall, Return
<1>2. execs' \in [Worker -> Nat]
  BY <1>1 DEF MoreTypes
<1>3. ret' \in [Worker -> {"none", "nil", "err"}]
  BY <1>1 DEF MoreTypes
<1>4. TypeOK' /\ RouteInv' /\ FillInv' /\ MoreTypes'
  BY <1>1, <1>2, <1>3, LeaveKeeps
<1>5. ExecInv'
  <2>1. \A v \in Worker \ {w} : pc'[v] = pc[v] /\ execs'[v] = execs[v] /\ ret'[v] = ret[v]
                                /\ status'[v] = status[v]
    BY <1>1, LeaveFacts DEF MoreTypes
  <2>2. /\ pc'[w] = "idle" /\ execs'[w] = execs[w] + n /\ execs[w] \in Nat /\ execs[w] <= 1
        /\ ret'[w] = "nil" => n = 1
    BY <1>1, LeaveFacts DEF TypeOK, MoreTypes, ExecInv
  <2>3. execs'[w] <= 2 /\ (ret'[w] = "nil" => execs'[w] >= 1)
    BY <2>2
  <2> QED BY <1>1, <2>1, <2>2, <2>3 DEF ExecInv, Routing
<1> QED BY <1>4, <1>5

\* The refresher, the leader's moves, and steps that change nothing leave the calls
\* and the connections alone.
LEMMA OutsideStep ==
    ASSUME IInv, RefreshFetch \/ RefreshStore \/ LeaderMoves \/ UNCHANGED vars
    PROVE  IInv'
<1> USE DEF IInv, RefreshFetch, RefreshStore, LeaderMoves, vars, callVars
<1>1. /\ leader' \in Node /\ topo' \in Node \cup {NoAddr} /\ moves' \in Nat
      /\ fetched' \in Node \cup {NoAddr, NoOne}
      /\ UNCHANGED <<mu, conns, rr, opened, pc, addr, dialled, idx, conn, status,
                     execs, ret, kpc>>
  BY DEF TypeOK, MoreTypes
<1>2. TypeOK'
  BY <1>1 DEF TypeOK, Ids
<1>3. MoreTypes'
  BY <1>1 DEF MoreTypes
<1>4. RouteInv' /\ FillInv' /\ ExecInv'
  BY <1>1 DEF RouteInv, FillInv, ExecInv, Ids
<1> QED BY <1>2, <1>3, <1>4

\* Connections die, on their own or by close(): as many are known as before.
LEMMA DieStep ==
    ASSUME IInv, ConnDies \/ Close
    PROVE  IInv'
<1> USE DEF IInv
<1>1. Len(opened) \in Nat /\ DOMAIN opened = 1..Len(opened) /\ \A k \in Ids : opened[k] \in Opened
  BY LenProperties DEF MoreTypes, TypeOK, Opened
<1>2. DOMAIN opened' = 1..Len(opened) /\ opened' \in [1..Len(opened) -> Opened]
  <2>1. CASE ConnDies
    <3>1. PICK k \in Ids : opened' = [opened EXCEPT ![k].live = FALSE]
      BY <2>1 DEF ConnDies
    <3>2. opened[k] \in Opened /\ [opened[k] EXCEPT !.live = FALSE] \in Opened
      BY <1>1 DEF Opened
    <3>3. opened \in [1..Len(opened) -> Opened]
      BY <1>1, LenProperties DEF MoreTypes, Ids
    <3> QED BY <3>1, <3>2, <3>3
  <2>2. CASE Close
    <3>1. \A k \in Ids : [opened[k] EXCEPT !.live = FALSE] \in Opened
      BY <1>1 DEF Opened
    <3> QED BY <1>1, <2>2, <3>1 DEF Close, Ids
  <2> QED BY <2>1, <2>2
<1>3. opened' \in Seq(Opened)
  BY <1>1, <1>2, SeqDef
<1>4. Len(opened') = Len(opened)
  BY <1>1, <1>2, <1>3, LenProperties
<1>5. UNCHANGED <<leader, moves, topo, fetched, mu, conns, rr, pc, addr, dialled, idx, conn,
                  status, execs, ret>>
  BY DEF ConnDies, Close, callVars
<1>6. TypeOK'
  BY <1>2, <1>4, <1>5 DEF TypeOK, Ids, Opened
<1>7. MoreTypes'
  BY <1>3, <1>5 DEF MoreTypes
<1>8. RouteInv' /\ FillInv' /\ ExecInv'
  BY <1>4, <1>5 DEF RouteInv, FillInv, ExecInv, Ids
<1> QED BY <1>6, <1>7, <1>8

-----------------------------------------------------------------------------
(* The theorems. *)

\* IInv is an invariant of all the workers' calls, the refresher and close().
THEOREM InvariantHolds == Spec => []IInv
<1>1. IInv /\ [Next]_vars => IInv'
  <2> SUFFICES ASSUME IInv, [Next]_vars PROVE IInv'
    OBVIOUS
  <2>1. ASSUME NEW w \in Worker, Call(w) PROVE IInv'
    BY <2>1, CallStartStep, RouteLockStep, RouteDialStep, RouteDialErrStep, RoutePickStep,
       RouteRedialStep, RouteRedialErrStep, RouteStoreStep, PCallServedStep, PCallEndStep,
       BaseCallStep DEF Call
  <2>2. CASE RefreshFetch \/ RefreshStore \/ LeaderMoves \/ Finished \/ UNCHANGED vars
    BY <2>2, OutsideStep DEF Finished
  <2>3. CASE ConnDies \/ Close
    BY <2>3, DieStep
  <2> QED BY <2>1, <2>2, <2>3 DEF Next
<1> QED BY <1>1, InitIInv, PTL DEF Spec

\* Type correctness: in particular a list in e.conns is empty or has PerNode
\* connections that were dialled, so the index route() computes is in range
\* (pipeline.go:211-212).
THEOREM TypeCorrect == Spec => []TypeOK
<1>1. IInv => TypeOK
  BY DEF IInv
<1> QED BY <1>1, InvariantHolds, PTL

\* A call that returns nil was executed by a leader, however stale its topology
\* (pipeline.go:226-245).
THEOREM NilExecuted == Spec => []NilMeansExecuted
<1>1. IInv => NilMeansExecuted
  BY DEF IInv, ExecInv, NilMeansExecuted
<1> QED BY <1>1, InvariantHolds, PTL

\* No call is executed more than twice, whatever dies (pipeline.go:236).
THEOREM ExecutedAtMostTwice == Spec => []AtMostTwice
<1>1. IInv => AtMostTwice
  <2> SUFFICES ASSUME IInv, NEW w \in Worker PROVE execs[w] <= 2
    BY DEF AtMostTwice
  <2>1. pc[w] \in {"idle", "lock", "dial", "pick", "redial", "store", "pcall", "answer", "base"}
        /\ execs[w] \in Nat
    BY DEF IInv, TypeOK, MoreTypes
  <2> QED BY <2>1 DEF IInv, ExecInv, Routing
<1> QED BY <1>1, InvariantHolds, PTL
=============================================================================
