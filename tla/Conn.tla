-------------------------------- MODULE Conn --------------------------------
(***************************************************************************)
(* What a pipelined connection promises the engine that calls it           *)
(* (netkv/pipeline.go): a call ends with the answer to its own request or  *)
(* with errPConnDead, the latter only on a connection that is dead, dead   *)
(* is for ever, and every call ends.  PConn implements this specification, *)
(* and PipeEngine takes a connection at it.                                *)
(***************************************************************************)
EXTENDS Naturals

CONSTANTS Caller, MaxCalls, Empty, Dead

VARIABLES calls,  \* number of calls each caller has begun
          open,   \* the callers whose call has not ended
          ret,    \* what a caller's last call returned, Empty while it runs
          dead    \* the connection is dead

vars == <<calls, open, ret, dead>>

Init ==
    /\ calls = [c \in Caller |-> 0]
    /\ open = {}
    /\ ret = [c \in Caller |-> Empty]
    /\ dead = FALSE

Begin(c) ==
    /\ c \notin open /\ calls[c] < MaxCalls /\ ~dead
    /\ calls' = [calls EXCEPT ![c] = @ + 1]
    /\ open' = open \cup {c}
    /\ ret' = [ret EXCEPT ![c] = Empty]
    /\ dead' = dead

\* A call on a dead connection ends at once.
Reject(c) ==
    /\ c \notin open /\ calls[c] < MaxCalls /\ dead
    /\ calls' = [calls EXCEPT ![c] = @ + 1]
    /\ ret' = [ret EXCEPT ![c] = Dead]
    /\ UNCHANGED <<open, dead>>

Answer(c) ==
    /\ c \in open
    /\ open' = open \ {c}
    /\ ret' = [ret EXCEPT ![c] = <<c, calls[c]>>]
    /\ UNCHANGED <<calls, dead>>

Refuse(c) ==
    /\ c \in open /\ dead
    /\ open' = open \ {c}
    /\ ret' = [ret EXCEPT ![c] = Dead]
    /\ UNCHANGED <<calls, dead>>

Die == ~dead /\ dead' = TRUE /\ UNCHANGED <<calls, open, ret>>

Next == \/ \E c \in Caller : Begin(c) \/ Reject(c) \/ Answer(c) \/ Refuse(c)
        \/ Die

\* The safety part, and with it that every call ends.
Spec == Init /\ [][Next]_vars
FairSpec == Spec /\ \A c \in Caller : WF_vars(Answer(c) \/ Refuse(c))
=============================================================================
