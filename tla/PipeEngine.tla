----------------------------- MODULE PipeEngine -----------------------------
(***************************************************************************)
(* rostamPipeEngine of the netkv load generator (netkv/pipeline.go): how a *)
(* call is routed to a pipelined connection of the leader it believes in,  *)
(* how connections are dialled, replaced and closed, and how a call falls  *)
(* back to the classic client.                                             *)
(*                                                                         *)
(* A connection is taken at what PConn establishes of it: it answers a     *)
(* call with the answer to that call or says that it is dead.  Calls are   *)
(* about one shard; its true leader may move (external).  The classic      *)
(* client (external) follows redirects and executes a call once.           *)
(***************************************************************************)
EXTENDS Naturals, Sequences, FiniteSets

CONSTANTS Worker,
          Node,        \* server addresses
          PerNode,     \* -pipeconns
          MaxDials,    \* bound: connections dialled
          MaxMoves,    \* bound: changes of the leader
          NoOne, NoAddr

ASSUME PerNodeAssumption == PerNode \in Nat \ {0}
ASSUME BoundAssumption == MaxDials \in Nat /\ MaxMoves \in Nat
ASSUME NameAssumption == NoOne \notin Worker /\ NoAddr \notin Node

VARIABLES
    leader,   \* the shard's leader (external)
    moves,    \* how often it moved
    topo,     \* e.topo: the leader the engine believes in, NoAddr if unknown
    fetched,  \* what a refresh got and has not stored yet, NoOne if nothing
    mu,       \* e.mu
    conns,    \* e.conns: node -> connections, <<>> if none were stored
    rr,       \* e.rr modulo PerNode
    opened,   \* every connection dialled so far, with its node and state
    pc,
    addr,     \* the address route() decided on
    dialled,  \* connections route() has dialled and not stored yet
    idx,      \* the index route() selected
    conn,     \* the connection a call goes over
    status,   \* the answer's status: OK (or NotFound), NotLeader or Error
    execs,    \* history: executions of the current call by a leader
    ret,      \* what the last call returned
    kpc       \* the engine's close()

vars == <<leader, moves, topo, fetched, mu, conns, rr, opened, pc, addr, dialled,
          idx, conn, status, execs, ret, kpc>>

Ids == 1..Len(opened)

\* newRostamPipe: the initial refresh has succeeded; the leader may be unknown.
Init ==
    /\ leader \in Node
    /\ moves = 0
    /\ topo \in {leader, NoAddr}
    /\ fetched = NoOne
    /\ mu = NoOne
    /\ conns = [n \in Node |-> <<>>]
    /\ rr = 0
    /\ opened = <<>>
    /\ pc = [w \in Worker |-> "idle"]
    /\ addr = [w \in Worker |-> NoAddr]
    /\ dialled = [w \in Worker |-> <<>>]
    /\ idx = [w \in Worker |-> 1]
    /\ conn = [w \in Worker |-> 0]
    /\ status = [w \in Worker |-> "none"]
    /\ execs = [w \in Worker |-> 0]
    /\ ret = [w \in Worker |-> "none"]
    /\ kpc = "open"

-----------------------------------------------------------------------------
(* route *)

Goto(w, l) == pc' = [pc EXCEPT ![w] = l]

\* On to l, where what route() and the pipelined call had of their own is gone.
Leave(w, l) ==
    /\ Goto(w, l)
    /\ addr' = [addr EXCEPT ![w] = NoAddr] /\ dialled' = [dialled EXCEPT ![w] = <<>>]
    /\ idx' = [idx EXCEPT ![w] = 1] /\ conn' = [conn EXCEPT ![w] = 0]
    /\ status' = [status EXCEPT ![w] = "none"]

\* call(): route loads the topology; no leader address: the fallback client.
CallStart(w) ==
    /\ pc[w] = "idle" /\ kpc = "open"
    /\ execs' = [execs EXCEPT ![w] = 0]
    /\ ret' = [ret EXCEPT ![w] = "none"]
    /\ addr' = [addr EXCEPT ![w] = topo]
    /\ Goto(w, IF topo = NoAddr THEN "base" ELSE "lock")
    /\ UNCHANGED <<leader, moves, topo, fetched, mu, conns, rr, opened, dialled, idx, conn, status, kpc>>

\* e.mu.Lock() and the look-up of the node's connections.
RouteLock(w) ==
    /\ pc[w] = "lock" /\ mu = NoOne
    /\ \/ conns[addr[w]] # <<>> /\ Goto(w, "pick") /\ UNCHANGED <<mu, dialled>>
       \/ /\ conns[addr[w]] = <<>> /\ Goto(w, "dial") /\ mu' = w
          /\ dialled' = [dialled EXCEPT ![w] = <<>>]
    /\ UNCHANGED <<leader, moves, topo, fetched, conns, rr, opened, addr, idx, conn,
                   status, execs, ret, kpc>>

\* dialPConn succeeds: a new live connection to n.
Dialled(n) == /\ Len(opened) < MaxDials
              /\ opened' = Append(opened, [node |-> n, live |-> TRUE])

\* One turn of the loop that fills the node's connections, holding e.mu; the
\* last one stores them and unlocks.
RouteDial(w) ==
    /\ pc[w] = "dial"
    /\ Dialled(addr[w])
    /\ LET pcs == Append(dialled[w], Len(opened) + 1)
           last == Len(pcs) = PerNode
       IN /\ dialled' = [dialled EXCEPT ![w] = pcs]
          /\ conns' = IF last THEN [conns EXCEPT ![addr[w]] = pcs] ELSE conns
          /\ mu' = IF last THEN NoOne ELSE mu
          /\ Goto(w, IF last THEN "pick" ELSE "dial")
    /\ UNCHANGED <<leader, moves, topo, fetched, rr, addr, idx, conn, status, execs, ret, kpc>>

\* Mutant: the early return keeps e.mu locked.
RouteDialErrNoUnlock(w) ==
    /\ pc[w] = "dial"
    /\ Leave(w, "base")
    /\ UNCHANGED <<leader, moves, topo, fetched, mu, conns, rr, opened, execs, ret, kpc>>

\* A dial of that loop fails: unlock and fall back.  What was dialled before
\* it is neither stored nor closed.
RouteDialErr(w) ==
    /\ pc[w] = "dial"
    /\ mu' = NoOne
    /\ Leave(w, "base")
    /\ UNCHANGED <<leader, moves, topo, fetched, conns, rr, opened, execs, ret, kpc>>

\* e.rr.Add(1), and the selected connection if it is alive.
RoutePick(w) ==
    /\ pc[w] = "pick"
    /\ rr' = (rr + 1) % PerNode
    /\ LET i == rr' + 1
           k == conns[addr[w]][i]
       IN /\ idx' = [idx EXCEPT ![w] = i]
          /\ \/ opened[k].live /\ conn' = [conn EXCEPT ![w] = k] /\ Goto(w, "pcall")
             \/ ~opened[k].live /\ conn' = conn /\ Goto(w, "redial")
    /\ UNCHANGED <<leader, moves, topo, fetched, mu, conns, opened, addr, dialled, status,
                   execs, ret, kpc>>

\* The selected connection is dead: dial its successor, without e.mu.
RouteRedial(w) ==
    /\ pc[w] = "redial"
    /\ Dialled(addr[w])
    /\ conn' = [conn EXCEPT ![w] = Len(opened) + 1]
    /\ Goto(w, "store")
    /\ UNCHANGED <<leader, moves, topo, fetched, mu, conns, rr, addr, dialled, idx, status,
                   execs, ret, kpc>>

RouteRedialErr(w) ==
    /\ pc[w] = "redial"
    /\ Leave(w, "base")
    /\ UNCHANGED <<leader, moves, topo, fetched, mu, conns, rr, opened, execs, ret, kpc>>

\* Mutant: the new connection joins the dead one instead of replacing it.
RouteStoreAppends(w) ==
    /\ pc[w] = "store" /\ mu = NoOne
    /\ conns' = [conns EXCEPT ![addr[w]] = Append(@, conn[w])]
    /\ Goto(w, "pcall")
    /\ UNCHANGED <<leader, moves, topo, fetched, mu, rr, opened, addr, dialled, idx, conn,
                   status, execs, ret, kpc>>

\* e.conns[addr][i] = pc, under e.mu, whatever is there by now.
RouteStore(w) ==
    /\ pc[w] = "store" /\ mu = NoOne
    /\ conns' = [conns EXCEPT ![addr[w]][idx[w]] = conn[w]]
    /\ Goto(w, "pcall")
    /\ UNCHANGED <<leader, moves, topo, fetched, mu, rr, opened, addr, dialled, idx, conn,
                   status, execs, ret, kpc>>

-----------------------------------------------------------------------------
(* call, over the pipelined connection or the classic client *)

\* The node executes the request if it leads the shard, else says NotLeader.  A
\* leader may also answer with an error, whether or not it has executed the request.
PCallServed(w) ==
    /\ pc[w] = "pcall" /\ opened[conn[w]].live
    /\ \E s \in IF opened[conn[w]].node = leader THEN {"OK", "Error"} ELSE {"NotLeader"} :
       \E n \in IF s = "OK" THEN {1} ELSE IF s = "Error" THEN {0, 1} ELSE {0} :
          /\ status' = [status EXCEPT ![w] = s]
          /\ execs' = [execs EXCEPT ![w] = @ + n]
    /\ Goto(w, "answer")
    /\ UNCHANGED <<leader, moves, topo, fetched, mu, conns, rr, opened, addr, dialled, idx,
                   conn, ret, kpc>>

\* The call returns.
Return(w, v) == Leave(w, "idle") /\ ret' = [ret EXCEPT ![w] = v]

\* Mutant: any answer without an error counts as success.
PCallAnsweredUnchecked(w) ==
    /\ pc[w] = "answer"
    /\ Return(w, "nil")
    /\ UNCHANGED <<leader, moves, topo, fetched, mu, conns, rr, opened, execs, kpc>>

\* The answer arrives: OK is the end, NotLeader and errors go to the classic client.
PCallAnswered(w) ==
    /\ pc[w] = "answer"
    /\ \/ status[w] = "OK" /\ Return(w, "nil")
       \/ status[w] # "OK" /\ Leave(w, "base") /\ ret' = ret
    /\ UNCHANGED <<leader, moves, topo, fetched, mu, conns, rr, opened, execs, kpc>>

\* Mutant: a dead connection sends the call round again.
PCallDeadReroutes(w) ==
    /\ pc[w] \in {"pcall", "answer"} /\ ~opened[conn[w]].live
    /\ Goto(w, "pick")
    /\ UNCHANGED <<leader, moves, topo, fetched, mu, conns, rr, opened, addr, dialled, idx,
                   conn, status, execs, ret, kpc>>

\* The connection is or goes dead, before or after the server executed it.
PCallDead(w) ==
    /\ pc[w] \in {"pcall", "answer"} /\ ~opened[conn[w]].live
    /\ Leave(w, "base")
    /\ UNCHANGED <<leader, moves, topo, fetched, mu, conns, rr, opened, execs, ret, kpc>>

\* e.base.Call finds the leader; it fails before or after the execution.
BaseCall(w) ==
    /\ pc[w] = "base"
    /\ \/ Return(w, "nil") /\ execs' = [execs EXCEPT ![w] = @ + 1]
       \/ Return(w, "err") /\ \E n \in {0, 1} : execs' = [execs EXCEPT ![w] = @ + n]
    /\ UNCHANGED <<leader, moves, topo, fetched, mu, conns, rr, opened, kpc>>

-----------------------------------------------------------------------------
(* The refresher, close(), and what happens outside *)

callVars == <<pc, addr, dialled, idx, conn, status, execs, ret>>

\* refreshTopology on a tick: base.Call is answered with the leader of the moment,
\* or with none, as during an election.  One that fails changes nothing.
RefreshFetch ==
    /\ kpc = "open" /\ fetched = NoOne
    /\ fetched' \in {leader, NoAddr}
    /\ UNCHANGED <<leader, moves, topo, mu, conns, rr, opened, callVars, kpc>>

\* Mutant: a refresh only fills in a topology that is missing.
RefreshStoreOnce ==
    /\ fetched # NoOne
    /\ topo' = IF topo = NoAddr THEN fetched ELSE topo
    /\ fetched' = NoOne
    /\ UNCHANGED <<leader, moves, mu, conns, rr, opened, callVars, kpc>>

\* e.topo.Store: the leader may have moved since, and close() may have run.
RefreshStore ==
    /\ fetched # NoOne
    /\ topo' = fetched
    /\ fetched' = NoOne
    /\ UNCHANGED <<leader, moves, mu, conns, rr, opened, callVars, kpc>>

\* The shard's leader moves (external).
LeaderMoves ==
    /\ moves < MaxMoves
    /\ moves' = moves + 1
    /\ leader' \in Node \ {leader}
    /\ UNCHANGED <<topo, fetched, mu, conns, rr, opened, callVars, kpc>>

\* A connection dies; its read loop or a writer marks it dead.
ConnDies ==
    /\ \E k \in Ids : opened[k].live /\ opened' = [opened EXCEPT ![k].live = FALSE]
    /\ UNCHANGED <<leader, moves, topo, fetched, mu, conns, rr, callVars, kpc>>

\* close(), once run() has waited for its workers: it stops the refresher and
\* fails every connection in e.conns.
Close ==
    /\ kpc = "open" /\ \A w \in Worker : pc[w] = "idle"
    /\ kpc' = "closed"
    /\ opened' = [k \in Ids |->
                    IF \E n \in Node : \E i \in 1..Len(conns[n]) : conns[n][i] = k
                    THEN [opened[k] EXCEPT !.live = FALSE] ELSE opened[k]]
    /\ UNCHANGED <<leader, moves, topo, fetched, mu, conns, rr, callVars>>

Call(w) == CallStart(w) \/ RouteLock(w) \/ RouteDial(w) \/ RouteDialErr(w)
           \/ RoutePick(w) \/ RouteRedial(w) \/ RouteRedialErr(w) \/ RouteStore(w)
           \/ PCallServed(w) \/ PCallAnswered(w) \/ PCallDead(w) \/ BaseCall(w)

Finished == kpc = "closed" /\ UNCHANGED vars

Next == \/ \E w \in Worker : Call(w)
        \/ RefreshFetch \/ RefreshStore \/ LeaderMoves \/ ConnDies \/ Close \/ Finished

Spec == Init /\ [][Next]_vars

\* Workers run, and nobody is passed over for ever at e.mu (a Go mutex hands over to
\* who waits long); a dial ends (it has a timeout), a server answers or its
\* connection dies, and refreshes get an answer again and again.
FairSpec ==
    /\ Spec
    /\ \A w \in Worker : WF_vars(Call(w)) /\ SF_vars(RouteLock(w) \/ RouteStore(w))
    /\ WF_vars(RefreshFetch) /\ WF_vars(RefreshStore)

-----------------------------------------------------------------------------
(* Properties *)

\* The type invariant of the engine's state.
TypeOK ==
    /\ leader \in Node /\ topo \in Node \cup {NoAddr}
    /\ mu \in Worker \cup {NoOne}
    /\ \A n \in Node : conns[n] = <<>> \/ conns[n] \in [1..PerNode -> Ids]
    /\ rr \in 0..PerNode - 1
    /\ \A k \in Ids : opened[k] \in [node : Node, live : BOOLEAN]
    /\ pc \in [Worker -> {"idle", "lock", "dial", "pick", "redial", "store", "pcall",
                          "answer", "base"}]
    /\ conn \in [Worker -> 0..Len(opened)]
    /\ idx \in [Worker -> 1..PerNode]

\* A call that returned nil was executed by a leader, however stale the
\* topology it was routed by.
NilMeansExecuted == \A w \in Worker : ret[w] = "nil" => execs[w] >= 1

\* A call is executed at most twice: once over a connection that died before
\* its answer, once by the classic client (pipeline.go:236).  Puts are
\* idempotent, so this is harmless; it must not become a loop.
AtMostTwice == \A w \in Worker : execs[w] <= 2

\* Every call returns; nobody waits for ever for e.mu.
EveryCallReturns == \A w \in Worker : pc[w] # "idle" ~> pc[w] = "idle"

\* A node that no longer leads is not asked for ever: once the leader stays, calls
\* stop being answered NotLeader, although a refresh may store an answer that was
\* stale when it came, a worker may be anywhere in route() with the old address,
\* and connections to the old leader stay in e.conns (pipeline.go:172-221).
StaleRoutesEnd == <>[](\A w \in Worker : pc[w] = "answer" => status[w] # "NotLeader")

\* "pipelined conns per node" (main.go:85): when no call is under way, at most
\* PerNode connections to a node are alive, those that close() will find.
ConnsPerNode ==
    (\A w \in Worker : pc[w] = "idle") => \A n \in Node :
        Cardinality({k \in Ids : opened[k].live /\ opened[k].node = n}) <= PerNode
=============================================================================
