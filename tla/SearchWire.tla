----------------------------- MODULE SearchWire -----------------------------
(***************************************************************************)
(* The binary protocol of sift1m/rostam_py_client.py: encode_search,       *)
(* _recvn over a stream that arrives in pieces, and the reading of a       *)
(* response.  A frame is made of fields, and lengths count fields: one of  *)
(* which some bytes are missing is one that has not arrived.               *)
(***************************************************************************)
EXTENDS Integers, SequencesExt

CONSTANT None

VARIABLES phase,  \* what is received: "none", "len", "body", then "read" or "closed"
          reply,  \* the frame the server sent: the length of the body, and the body
          got,    \* fields received of the present piece
          closed  \* the server has closed the connection

wireVars == <<phase, reply, got, closed>>

WireInit == phase = "none" /\ reply = <<>> /\ got = 0 /\ closed = FALSE

\* [len][op][argsLen][flags][col][k][dim][query], the query of one coordinate.
encode_search(query, k) ==
    LET args == <<0, "sift", k, 1, query>>
        body == <<"vector_search", Len(args)>> \o args
    IN  <<Len(body)>> \o body

\* The server's reading of it (external): the lengths must agree.
DecodeSearch(f) == IF f[1] = Len(f) - 1 /\ f[3] = Len(f) - 3 /\ f[7] = Len(f) - 7 THEN f[8] ELSE None

\* [len], then [status][payloadLen][count] and count times [id][distance]; nothing
\* reads a distance.
Response(status, ids) ==
    [f \in 0..3 + 2 * Len(ids) |->
        CASE f = 0 -> 3 + 2 * Len(ids)
          [] f = 1 -> status
          [] f = 2 -> 1 + 2 * Len(ids)
          [] f = 3 -> Len(ids)
          [] f > 3 /\ f % 2 = 0 -> ids[f \div 2 - 1]
          [] OTHER -> None]

\* sendall, and the server's answer.
Send(status, ids) ==
    /\ phase' = "len" /\ got' = 0
    /\ reply' = Response(status, ids)
    /\ closed' = closed

\* What _recvn waits for: the length, then as many fields as it says.
Wanted == IF phase = "len" THEN 1 ELSE reply[0]
Receiving == phase \in {"len", "body"}

\* Bound: of the fields that are missing, all of them arrive at once or half of them.
Pieces(missing) == {missing, (missing + 1) \div 2} \ {0}

\* recv_into gives some of them.
RecvSome ==
    /\ Receiving /\ ~closed
    /\ \E r \in Pieces(Wanted - got) : got' = got + r
    /\ UNCHANGED <<phase, reply, closed>>

\* The server goes away (external); what it had sent has been received before.
ServerCloses ==
    /\ Receiving /\ ~closed
    /\ closed' = TRUE
    /\ UNCHANGED <<phase, reply, got>>

\* Mutant: zero bytes are taken for a piece like any other.
RecvClosedSpins == Receiving /\ closed /\ got < Wanted /\ got' = got + 0 /\ UNCHANGED <<phase, reply, closed>>

\* "server closed"
RecvClosed ==
    /\ Receiving /\ closed /\ got < Wanted
    /\ phase' = "closed"
    /\ UNCHANGED <<reply, got, closed>>

\* Mutant: one recv_into is taken for all of it.
RecvDoneShort ==
    /\ Receiving /\ got > 0
    /\ phase' = IF phase = "len" THEN "body" ELSE "read"
    /\ got' = IF phase = "len" THEN 0 ELSE got
    /\ UNCHANGED <<reply, closed>>

\* _recvn returns; the buffer of the body stays as it was filled.
RecvDone ==
    /\ Receiving /\ got = Wanted
    /\ phase' = IF phase = "len" THEN "body" ELSE "read"
    /\ got' = IF phase = "len" THEN 0 ELSE got
    /\ UNCHANGED <<reply, closed>>

WireStep == RecvSome \/ RecvClosed \/ RecvDone

\* The buffer, bytearray(n): zero where nothing was received.
Buffer == [f \in 1..reply[0] |-> IF f <= got THEN reply[f] ELSE 0]

ReadStatus == Buffer[1]

\* The ids of a response, every other field from the fourth on.
ReadIds == {Buffer[2 + 2 * j] : j \in 1..Buffer[3]}
=============================================================================
