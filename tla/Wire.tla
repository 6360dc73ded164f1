-------------------------------- MODULE Wire --------------------------------
(***************************************************************************)
(* The request bodies of vectordbbench/rostam/rostam.py, and how a server  *)
(* reads them back: the binary bulk wire (RVB1), the binary query wire     *)
(* (RVQ1) and the JSON bodies they replace.                                *)
(*                                                                         *)
(* A binary body is a sequence of cells, one per field of the layout in    *)
(* the comments of the code.  A float of the harness is a number, and a    *)
(* float32 an even one: F32 rounds.  What is optional is a sequence that   *)
(* may be empty.                                                           *)
(***************************************************************************)
EXTENDS Naturals, Sequences

F32(x) == x - (x % 2)
_as_f32(embeddings) == [i \in DOMAIN embeddings |-> F32(embeddings[i])]

\* The id doubles as the filterable scalar of the point.
Payload(id) == <<id>>
PayloadIf(payloads, id) == IF payloads THEN Payload(id) ELSE <<>>

-----------------------------------------------------------------------------
(* What the client sends *)

Bit(b, flag) == IF b THEN flag ELSE 0

\* Mutant: the payloads follow the flag for the upsert.
BinaryBodyPayloadIfUpsert(ids, rows, upsert, payloads) ==
    <<"RVB1", Bit(upsert, 1) + Bit(upsert, 2), Len(ids), 1>>
        \o [i \in DOMAIN ids |-> [id |-> ids[i], vec |-> rows[i]]]
        \o IF upsert THEN [i \in DOMAIN ids |-> Payload(ids[i])] ELSE <<>>

\* Header, one record per row, then the payloads.  The vectors are one cell, so
\* that dim is 1.
_binary_body(ids, rows, upsert, payloads) ==
    <<"RVB1", Bit(payloads, 1) + Bit(upsert, 2), Len(ids), 1>>
        \o [i \in DOMAIN ids |-> [id |-> ids[i], vec |-> rows[i]]]
        \o IF payloads THEN [i \in DOMAIN ids |-> Payload(ids[i])] ELSE <<>>

\* upsert, a field of the inline route only, is set independently of the payloads.
_json_body(ids, rows, payloads, upsert) ==
    [points |-> [i \in DOMAIN ids |-> [id |-> ids[i], vector |-> rows[i],
                                       metadata |-> PayloadIf(payloads, ids[i])]],
     upsert |-> upsert]

\* rc, opa, the reserved word and the staleness are zero.
_query_body(query, k, blob) ==
    <<"RVQ1", Bit(blob # <<>>, 1), k, 1, 0, 0, 0, 0, F32(query)>>
        \o IF blob # <<>> THEN <<Len(blob), blob>> ELSE <<>>

JsonQuery(query, k, filter) == [query |-> query, k |-> k, filter |-> filter]

-----------------------------------------------------------------------------
(* What the server reads *)

HasBit(flags, flag) == (flags \div flag) % 2 = 1

\* The body is as long as its header says.
WellFormedBulk(body) ==
    body[1] = "RVB1" /\ Len(body) = 4 + body[3] * (1 + Bit(HasBit(body[2], 1), 1))

DecodeBulk(body) ==
    [points |-> [i \in 1..body[3] |->
                    [id |-> body[4 + i].id, vec |-> body[4 + i].vec,
                     metadata |-> IF HasBit(body[2], 1) THEN body[4 + body[3] + i] ELSE <<>>]],
     upsert |-> HasBit(body[2], 2)]

DecodeJson(body) ==
    [points |-> [i \in DOMAIN body.points |->
                    [id |-> body.points[i].id, vec |-> F32(body.points[i].vector),
                     metadata |-> body.points[i].metadata]],
     upsert |-> body.upsert]

DecodeQuery(body) ==
    [query |-> body[9], k |-> body[3],
     filter |-> IF HasBit(body[2], 1) THEN body[11] ELSE <<>>]

DecodeJsonQuery(body) == [body EXCEPT !.query = F32(@)]
=============================================================================
