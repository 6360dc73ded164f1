--------------------------- MODULE VdbClientProofs --------------------------
(***************************************************************************)
(* The safety of the VectorDBBench client, for any number of rows, any     *)
(* batch size, any case and any sequence of calls: what the two wires say  *)
(* is the same, and what the client reports is what the server did.        *)
(***************************************************************************)
EXTENDS VdbClient, SequenceTheorems, TLAPS

-----------------------------------------------------------------------------
(* The wires: what the server reads is what the client meant. *)

\* A function on 1..n is a sequence.
LEMMA FunctionIsSeq ==
    ASSUME NEW n \in Nat, NEW S, NEW f \in [1..n -> S]
    PROVE  f \in Seq(S) /\ Len(f) = n
<1>1. f \in Seq(S)
  BY SeqDef
<1>2. Len(f) \in Nat /\ DOMAIN f = 1..Len(f) /\ DOMAIN f = 1..n
  BY <1>1, LenProperties
<1> QED BY <1>1, <1>2

\* The flags of a header can be read back.
LEMMA FlagBits ==
    ASSUME NEW a \in BOOLEAN, NEW b \in BOOLEAN
    PROVE  /\ HasBit(Bit(a, 1) + Bit(b, 2), 1) <=> a
           /\ HasBit(Bit(a, 1) + Bit(b, 2), 2) <=> b
<1>1. /\ (3 \div 1) % 2 = 1 /\ (3 \div 2) % 2 = 1 /\ (1 \div 1) % 2 = 1 /\ (1 \div 2) % 2 = 0
      /\ (2 \div 1) % 2 = 0 /\ (2 \div 2) % 2 = 1 /\ (0 \div 1) % 2 = 0 /\ (0 \div 2) % 2 = 0
  OBVIOUS
<1>2. /\ a /\ b => Bit(a, 1) + Bit(b, 2) = 3
      /\ a /\ ~b => Bit(a, 1) + Bit(b, 2) = 1
      /\ ~a /\ b => Bit(a, 1) + Bit(b, 2) = 2
      /\ ~a /\ ~b => Bit(a, 1) + Bit(b, 2) = 0
  BY DEF Bit
<1>3. CASE a /\ b
  BY <1>1, <1>2, <1>3 DEF HasBit
<1>4. CASE a /\ ~b
  <2>1. HasBit(1, 1) /\ ~HasBit(1, 2)
    BY <1>1 DEF HasBit
  <2> QED BY <1>2, <1>4, <2>1
<1>5. CASE ~a /\ b
  <2>1. ~HasBit(2, 1) /\ HasBit(2, 2)
    BY <1>1 DEF HasBit
  <2> QED BY <1>2, <1>5, <2>1
<1>6. CASE ~a /\ ~b
  BY <1>1, <1>2, <1>6 DEF HasBit
<1> QED BY <1>3, <1>4, <1>5, <1>6

\* q has the cells of t behind those of s.
Joined(q, s, t) ==
    /\ Len(q) = Len(s) + Len(t) /\ Len(s) \in Nat /\ Len(t) \in Nat
    /\ \A i \in 1..Len(s) : q[i] = s[i]
    /\ \A i \in 1..Len(t) : q[Len(s) + i] = t[i]

\* Where the cells of two parts of a body are.
LEMMA Cells ==
    ASSUME NEW S, NEW s \in Seq(S), NEW t \in Seq(S)
    PROVE  Joined(s \o t, s, t)
<1>1. /\ s \o t \in Seq(S) /\ Len(s \o t) = Len(s) + Len(t)
      /\ \A i \in 1..Len(s) + Len(t) : (s \o t)[i] = IF i <= Len(s) THEN s[i] ELSE t[i - Len(s)]
  BY ConcatProperties
<1>2. Len(s) \in Nat /\ Len(t) \in Nat
  BY LenProperties
<1>3. ASSUME NEW i \in 1..Len(t) PROVE (s \o t)[Len(s) + i] = t[i]
  <2>1. Len(s) + i \in 1..Len(s) + Len(t) /\ ~(Len(s) + i <= Len(s)) /\ (Len(s) + i) - Len(s) = i
    BY <1>2
  <2>2. (s \o t)[Len(s) + i] = t[(Len(s) + i) - Len(s)]
    BY <1>1, <2>1
  <2> QED BY <2>1, <2>2
<1>4. ASSUME NEW i \in 1..Len(s) PROVE (s \o t)[i] = s[i]
  BY <1>1, <1>2
<1> QED BY <1>1, <1>2, <1>3, <1>4 DEF Joined

\* Rounding a float32 changes nothing.
LEMMA RoundTwice == \A x \in Nat : F32(x) \in Nat /\ F32(F32(x)) = F32(x)
BY DEF F32

\* What a request for the rows says.
Meant(ids_, rows, payloads, upsert) ==
    [points |-> [i \in DOMAIN ids_ |-> [id |-> ids_[i], vec |-> rows[i],
                                        metadata |-> PayloadIf(payloads, ids_[i])]],
     upsert |-> upsert]

\* The binary bulk body is as long as its header says and reads as it was meant.
LEMMA BulkRoundTrip ==
    ASSUME NEW n \in Nat, NEW ids_, NEW rows, DOMAIN ids_ = 1..n, Len(ids_) = n,
           NEW upsert \in BOOLEAN, NEW payloads \in BOOLEAN
    PROVE  /\ WellFormedBulk(_binary_body(ids_, rows, upsert, payloads))
           /\ DecodeBulk(_binary_body(ids_, rows, upsert, payloads)) = Meant(ids_, rows, payloads, upsert)
<1> DEFINE flags == Bit(payloads, 1) + Bit(upsert, 2)
           head == <<"RVB1", flags, n, 1>>
           recs == [i \in 1..n |-> [id |-> ids_[i], vec |-> rows[i]]]
           pays == IF payloads THEN [i \in 1..n |-> Payload(ids_[i])] ELSE <<>>
           S == {"RVB1", flags, n, 1} \cup {recs[i] : i \in 1..n} \cup {Payload(ids_[i]) : i \in 1..n}
           body == _binary_body(ids_, rows, upsert, payloads)
           m == Len(pays)
<1>1. body = (head \o recs) \o pays
  BY DEF _binary_body
<1>2. head \in Seq(S) /\ Len(head) = 4
  OBVIOUS
<1>3. recs \in Seq(S) /\ Len(recs) = n
  <2>1. recs \in [1..n -> S]
    OBVIOUS
  <2> HIDE DEF recs, S
  <2> QED BY <2>1, FunctionIsSeq
<1>4. pays \in Seq(S) /\ m = IF payloads THEN n ELSE 0
  <2>1. CASE payloads
    <3> DEFINE q == [i \in 1..n |-> Payload(ids_[i])]
    <3>1. q \in [1..n -> S]
      OBVIOUS
    <3> HIDE DEF q, S
    <3>2. q \in Seq(S) /\ Len(q) = n
      BY <3>1, FunctionIsSeq
    <3> QED BY <2>1, <3>2 DEF q
  <2>2. CASE ~payloads
    BY <2>2, EmptySeq
  <2> QED BY <2>1, <2>2
<1>5. \A i \in 1..n : recs[i] = [id |-> ids_[i], vec |-> rows[i]]
  OBVIOUS
<1>6. payloads => \A i \in 1..n : pays[i] = Payload(ids_[i])
  OBVIOUS
<1>7. head[1] = "RVB1" /\ head[2] = flags /\ head[3] = n
  OBVIOUS
<1> DEFINE hr == head \o recs
<1> HIDE DEF head, recs, pays, S, body, m, flags
<1>8. /\ hr \in Seq(S) /\ Len(hr) = 4 + n
      /\ \A i \in 1..4 : hr[i] = head[i]
      /\ \A i \in 1..n : hr[4 + i] = recs[i]
  <2>1. Joined(hr, head, recs)
    BY <1>2, <1>3, Cells DEF hr
  <2>2. hr \in Seq(S)
    BY <1>2, <1>3, ConcatProperties DEF hr
  <2> HIDE DEF hr
  <2> QED BY <1>2, <1>3, <2>1, <2>2 DEF Joined
<1> HIDE DEF hr
<1>9. /\ Len(body) = 4 + n + m /\ m \in Nat
      /\ \A i \in 1..4 + n : body[i] = hr[i]
      /\ \A i \in 1..m : body[4 + n + i] = pays[i]
  <2>1. Joined(body, hr, pays)
    <3>1. body = hr \o pays
      BY <1>1 DEF hr
    <3> QED BY <1>4, <1>8, <3>1, Cells
  <2> QED BY <1>8, <2>1 DEF m, Joined
<1>11. /\ body[1] = "RVB1" /\ body[2] = flags /\ body[3] = n
  <2>1. \A i \in 1..3 : i \in 1..4 + n /\ i \in 1..4
    OBVIOUS
  <2>2. \A i \in 1..3 : body[i] = head[i]
    BY <1>8, <1>9, <2>1
  <2> QED BY <1>7, <2>2
<1>12. ASSUME NEW i \in 1..n PROVE body[4 + i] = [id |-> ids_[i], vec |-> rows[i]]
  <2>1. body[4 + i] = hr[4 + i]
    BY <1>9
  <2> QED BY <1>5, <1>8, <2>1
<1>13. ASSUME payloads, NEW i \in 1..n PROVE body[4 + n + i] = Payload(ids_[i])
  BY <1>4, <1>6, <1>9, <1>13
<1>14. (HasBit(flags, 1) <=> payloads) /\ (HasBit(flags, 2) <=> upsert)
  BY FlagBits DEF flags
<1>15. WellFormedBulk(body)
  <2>1. Bit(HasBit(body[2], 1), 1) = IF payloads THEN 1 ELSE 0
    BY <1>11, <1>14 DEF Bit
  <2>2. n * (1 + Bit(HasBit(body[2], 1), 1)) = n + m
    BY <1>4, <2>1
  <2> QED BY <1>9, <1>11, <2>2 DEF WellFormedBulk
<1>16. DecodeBulk(body) = Meant(ids_, rows, payloads, upsert)
  <2>1. ASSUME NEW i \in 1..n
        PROVE  [id |-> body[4 + i].id, vec |-> body[4 + i].vec,
                metadata |-> IF HasBit(body[2], 1) THEN body[4 + body[3] + i] ELSE <<>>]
               = [id |-> ids_[i], vec |-> rows[i], metadata |-> PayloadIf(payloads, ids_[i])]
    <3>1. body[4 + i].id = ids_[i] /\ body[4 + i].vec = rows[i]
      <4>1. body[4 + i] = [id |-> ids_[i], vec |-> rows[i]]
        BY <1>12
      <4> QED BY <4>1
    <3>2. (IF HasBit(body[2], 1) THEN body[4 + body[3] + i] ELSE <<>>) = PayloadIf(payloads, ids_[i])
      BY <1>11, <1>13, <1>14 DEF PayloadIf
    <3> QED BY <3>1, <3>2
  <2>2. HasBit(body[2], 2) = upsert
    BY <1>11, <1>14 DEF HasBit
  <2> QED BY <1>11, <2>1, <2>2 DEF DecodeBulk, Meant
<1> QED BY <1>15, <1>16 DEF body

\* The JSON body reads as it was meant, if the rows are float32 already.
LEMMA JsonRoundTrip ==
    ASSUME NEW ids_, NEW rows, NEW upsert \in BOOLEAN, NEW payloads \in BOOLEAN,
           \A i \in DOMAIN ids_ : F32(rows[i]) = rows[i]
    PROVE  DecodeJson(_json_body(ids_, rows, payloads, upsert)) = Meant(ids_, rows, payloads, upsert)
BY DEF DecodeJson, _json_body, Meant

\* Both query bodies read as the query rounded to float32, the k and the filter.
LEMMA QueryRoundTrip ==
    ASSUME NEW q \in Nat, NEW k, NEW blob_
    PROVE  /\ DecodeQuery(_query_body(q, k, blob_)) = [query |-> F32(q), k |-> k, filter |-> blob_]
           /\ DecodeJsonQuery(JsonQuery(q, k, blob_)) = [query |-> F32(q), k |-> k, filter |-> blob_]
<1> DEFINE has == blob_ # <<>>
           a == <<"RVQ1", Bit(has, 1), k, 1, 0, 0, 0, 0, F32(q)>>
           b == <<Len(blob_), blob_>>
           S == {"RVQ1", Bit(has, 1), k, 1, 0, F32(q), Len(blob_), blob_}
           body == _query_body(q, k, blob_)
<1>1. a \in Seq(S) /\ Len(a) = 9 /\ b \in Seq(S) /\ Len(b) = 2
  OBVIOUS
<1>2. a[2] = Bit(has, 1) /\ a[3] = k /\ a[9] = F32(q) /\ b[2] = blob_
  OBVIOUS
<1>3. HasBit(Bit(has, 1), 1) <=> has
  BY DEF HasBit, Bit
<1>4. body = a \o (IF has THEN b ELSE <<>>)
  BY DEF _query_body
<1> HIDE DEF a, b, S, body, has
<1>5. CASE has
  <2>1. /\ \A i \in 1..9 : (a \o b)[i] = a[i]
        /\ \A i \in 1..2 : (a \o b)[9 + i] = b[i]
    <3>1. Joined(a \o b, a, b)
      BY <1>1, Cells
    <3> QED BY <1>1, <3>1 DEF Joined
  <2>2. body[2] = a[2] /\ body[3] = a[3] /\ body[9] = a[9] /\ body[9 + 2] = b[2]
    <3>1. body = a \o b
      BY <1>4, <1>5
    <3>2. 2 \in 1..9 /\ 3 \in 1..9 /\ 9 \in 1..9 /\ 2 \in 1..2
      OBVIOUS
    <3> HIDE <1>4, <1>5
    <3> QED BY <2>1, <3>1, <3>2
  <2>3. body[11] = blob_
    BY <1>2, <2>2
  <2> QED BY <1>2, <1>3, <1>5, <2>2, <2>3 DEF DecodeQuery, body, DecodeJsonQuery, JsonQuery
<1>6. CASE ~has
  <2>1. body = a /\ blob_ = <<>>
    BY <1>1, <1>4, <1>6, ConcatEmptySeq DEF has
  <2> QED BY <1>2, <1>3, <1>6, <2>1 DEF DecodeQuery, body, DecodeJsonQuery, JsonQuery
<1> QED BY <1>5, <1>6
-----------------------------------------------------------------------------
(* The inductive invariant. *)

\* What the steps need and TypeOK leaves out: the options are those
\* of a case, and the constructor refuses a load path it does not know.
MoreTypes ==
    /\ applied \in [Row -> Nat] /\ DOMAIN stored = Row
    /\ \E c \in CaseConfigs : asked = index_param(c)
    /\ pc # "raised" => loadPath \in LoadPaths

Inserting == pc \in {"chunk", "json"}

\* Within a call, exactly the rows before start were applied; the wire of a chunk
\* that is sent as JSON is off.
ChunkInv ==
    /\ Inserting => start < N /\ \A i \in Row : applied[i] = IF i <= start THEN 1 ELSE 0
    /\ pc = "json" => ~binary

\* Between two calls, what the last insert reported is true, whatever was searched.
ReportInv ==
    ~Inserting =>
        /\ \A i \in Row : applied[i] <= 1 /\ (i <= count => applied[i] = 1)
        /\ start >= N => count = N /\ ~err

\* Both encodings are of the case's filter, while the object is of use.
FilterInv ==
    pc # "raised" =>
        /\ filter = FilterTree(case) /\ blob = FilterTree(case)
        /\ case # Other /\ (case # NoFilter => loadPath # "bulk")

IInv == /\ TypeOK /\ MoreTypes /\ ChunkInv /\ ReportInv /\ FilterInv
        /\ WiresAgree /\ SearchIsTheCase /\ DropMeansNew /\ ProvenWireIsKept

-----------------------------------------------------------------------------
(* The chunk under way. *)

\* The rows of the chunk, as sequences of their own.
LEMMA ChunkRows ==
    ASSUME IInv, Inserting
    PROVE  /\ start \in Nat /\ end \in Nat /\ start < end /\ end <= N
           /\ end = N \/ end = start + INSERT_BATCH
           /\ DOMAIN ids = 1..end - start /\ Len(ids) = end - start
           /\ \A p \in 1..end - start :
                /\ start + p \in Row
                /\ ids[p] = metadata[start + p]
                /\ chunk[p] = F32(embeddings[start + p]) /\ F32(chunk[p]) = chunk[p]
<1>1. start \in Nat /\ start < N /\ N \in Nat /\ INSERT_BATCH \in Nat \ {0}
  BY BatchAssumption DEF IInv, TypeOK, ChunkInv
<1>2. end \in Nat /\ start < end /\ end <= N /\ (end = N \/ end = start + INSERT_BATCH)
  BY <1>1 DEF end
<1>3. \A i \in start + 1..end : i \in Row /\ metadata[i] \in Nat /\ embeddings[i] \in Nat
  BY <1>1, <1>2 DEF Row, metadata, embeddings
<1>4. \A i \in start + 1..end : _as_f32(embeddings)[i] = F32(embeddings[i]) /\ F32(embeddings[i]) \in Nat
  BY <1>3, RoundTwice DEF _as_f32, embeddings
<1> HIDE DEF end
<1>5. start + 1 \in Int /\ end \in Int /\ start + 1 <= end /\ end - (start + 1) + 1 = end - start
  BY <1>1, <1>2
<1>6. /\ ids \in Seq(Nat) /\ Len(ids) = end - (start + 1) + 1
      /\ \A p \in 1..end - (start + 1) + 1 : ids[p] = metadata[(start + 1) + p - 1]
  <2> DEFINE a == start + 1
             s == metadata
  <2>1. a \in Int /\ end \in Int /\ (\A i \in a..end : s[i] \in Nat) /\ a <= end
    BY <1>3, <1>5
  <2>2. ids = SubSeq(s, a, end)
    BY DEF ids
  <2> HIDE DEF a, s
  <2>3. /\ SubSeq(s, a, end) \in Seq(Nat)
        /\ Len(SubSeq(s, a, end)) = IF a <= end THEN end - a + 1 ELSE 0
        /\ \A p \in 1..end - a + 1 : SubSeq(s, a, end)[p] = s[a + p - 1]
    BY <2>1, SubSeqProperties
  <2> QED BY <2>1, <2>2, <2>3 DEF a, s
<1>7. \A p \in 1..end - (start + 1) + 1 : chunk[p] = _as_f32(embeddings)[(start + 1) + p - 1]
  <2> DEFINE a == start + 1
             s == _as_f32(embeddings)
  <2>1. a \in Int /\ end \in Int /\ (\A i \in a..end : s[i] \in Nat)
    BY <1>4, <1>5
  <2>2. chunk = SubSeq(s, a, end)
    BY DEF chunk
  <2> HIDE DEF a, s
  <2>3. \A p \in 1..end - a + 1 : SubSeq(s, a, end)[p] = s[a + p - 1]
    BY <2>1, SubSeqProperties
  <2> QED BY <2>2, <2>3 DEF a, s
<1>8. DOMAIN ids = 1..end - start /\ Len(ids) = end - start
  BY <1>5, <1>6, LenProperties
<1>9. ASSUME NEW p \in 1..end - start
      PROVE  /\ start + p \in Row
             /\ ids[p] = metadata[start + p]
             /\ chunk[p] = F32(embeddings[start + p]) /\ F32(chunk[p]) = chunk[p]
  <2>1. (start + 1) + p - 1 = start + p /\ start + p \in start + 1..end /\ p \in 1..end - (start + 1) + 1
    BY <1>1, <1>2, <1>5
  <2>2. ids[p] = metadata[start + p] /\ chunk[p] = _as_f32(embeddings)[start + p]
    BY <1>6, <1>7, <2>1
  <2>3. chunk[p] = F32(embeddings[start + p]) /\ embeddings[start + p] \in Nat /\ start + p \in Row
    BY <1>3, <1>4, <2>1, <2>2
  <2>4. F32(F32(embeddings[start + p])) = F32(embeddings[start + p])
    BY <2>3, RoundTwice
  <2> QED BY <2>2, <2>3, <2>4
<1> QED BY <1>1, <1>2, <1>8, <1>9

\* The row as the server is to have it.
StoredRow(i) == <<F32(embeddings[i]),
                  IF loadPath = "bulk" THEN <<>> ELSE Payload(metadata[i]), loadPath = "batch">>

\* The request of a chunk, on whichever wire, applies the chunk's rows, once each
\* and as they are, and no other row.
LEMMA ChunkApplied ==
    ASSUME IInv, Inserting, ApplyBinary \/ ApplyJson, loadPath \in LoadPaths
    PROVE  /\ applied' = [i \in Row |-> applied[i] + IF start < i /\ i <= end THEN 1 ELSE 0]
           /\ DOMAIN stored' = Row
           /\ \A i \in Row : stored'[i] = IF start < i /\ i <= end THEN StoredRow(i) ELSE stored[i]
<1> DEFINE n == end - start
           req == Meant(ids, chunk, payload_path, inline)
<1>1. /\ start \in Nat /\ end \in Nat /\ start < end /\ end <= N
      /\ DOMAIN ids = 1..n /\ Len(ids) = n /\ n \in Nat
      /\ \A p \in 1..n : /\ start + p \in Row
                         /\ ids[p] = metadata[start + p]
                         /\ chunk[p] = F32(embeddings[start + p]) /\ F32(chunk[p]) = chunk[p]
  BY ChunkRows
<1>2. payload_path \in BOOLEAN /\ inline \in BOOLEAN
  BY DEF payload_path, inline
<1>3. Apply(req)
  <2>1. CASE ApplyBinary
    <3>1. DecodeBulk(_binary_body(ids, chunk, inline, payload_path)) = req
      BY <1>1, <1>2, BulkRoundTrip
    <3> QED BY <2>1, <3>1 DEF ApplyBinary
  <2>2. CASE ApplyJson
    <3>1. DecodeJson(_json_body(ids, chunk, payload_path, inline)) = req
      BY <1>1, <1>2, JsonRoundTrip
    <3> QED BY <2>2, <3>1 DEF ApplyJson
  <2> QED BY <2>1, <2>2
<1>4. /\ DOMAIN req.points = 1..n /\ req.upsert = inline
      /\ \A p \in 1..n : /\ req.points[p].id = metadata[start + p]
                         /\ req.points[p].vec = F32(embeddings[start + p])
                         /\ req.points[p].metadata = PayloadIf(payload_path, metadata[start + p])
  BY <1>1 DEF Meant
<1> HIDE DEF n, req
<1>5. ASSUME NEW i \in Row, NEW p \in 1..n PROVE req.points[p].id = metadata[i] <=> p = i - start
  <2>1. metadata[i] = 100 + i /\ metadata[start + p] = 100 + (start + p)
    BY <1>1 DEF metadata
  <2>2. i \in Nat /\ p \in Nat /\ start \in Nat
    BY <1>1 DEF Row
  <2>3. req.points[p].id = metadata[start + p]
    BY <1>4
  <2>4. metadata[start + p] = metadata[i] <=> p = i - start
    BY <2>1, <2>2
  <2> QED BY <2>3, <2>4
<1>6. ASSUME NEW i \in Row
      PROVE  (\E p \in DOMAIN req.points : req.points[p].id = metadata[i]) <=> start < i /\ i <= end
  <2>1. start < i /\ i <= end <=> i - start \in 1..n
    BY <1>1 DEF Row, n
  <2> QED BY <1>4, <1>5, <2>1
<1>7. ASSUME NEW i \in Row, start < i, i <= end
      PROVE  LET p == CHOOSE q \in DOMAIN req.points : req.points[q].id = metadata[i]
             IN  <<req.points[p].vec, req.points[p].metadata, req.upsert>> = StoredRow(i)
  <2> DEFINE p == CHOOSE q \in DOMAIN req.points : req.points[q].id = metadata[i]
  <2>1. p \in DOMAIN req.points /\ req.points[p].id = metadata[i]
    BY <1>6, <1>7
  <2>2. p \in 1..n /\ p = i - start
    BY <1>4, <1>5, <2>1
  <2>3. start + p = i
    <3> HIDE DEF p
    <3> QED BY <1>1, <2>2 DEF Row
  <2>4. /\ req.points[p].vec = F32(embeddings[i]) /\ req.upsert = inline
        /\ req.points[p].metadata = PayloadIf(payload_path, metadata[i])
    BY <1>4, <2>2, <2>3
  <2>5. PayloadIf(payload_path, metadata[i]) = IF loadPath = "bulk" THEN <<>> ELSE Payload(metadata[i])
    BY DEF PayloadIf, payload_path, LoadPaths
  <2> HIDE DEF p
  <2>6. <<req.points[p].vec, req.points[p].metadata, req.upsert>> = StoredRow(i)
    BY <2>4, <2>5 DEF StoredRow, inline
  <2> QED BY <2>6 DEF p
<1>8. applied' = [i \in Row |-> applied[i] + IF start < i /\ i <= end THEN 1 ELSE 0]
  <2>1. applied' = [i \in Row |-> applied[i]
                      + IF \E p \in DOMAIN req.points : req.points[p].id = metadata[i] THEN 1 ELSE 0]
    BY <1>3 DEF Apply
  <2> QED BY <1>6, <2>1
<1>9. /\ DOMAIN stored' = Row
      /\ \A i \in Row : stored'[i] =
            IF \E p \in DOMAIN req.points : req.points[p].id = metadata[i]
            THEN LET p == CHOOSE q \in DOMAIN req.points : req.points[q].id = metadata[i]
                 IN  <<req.points[p].vec, req.points[p].metadata, req.upsert>>
            ELSE stored[i]
  BY <1>3 DEF Apply
<1>10. ASSUME NEW i \in Row
       PROVE  stored'[i] = IF start < i /\ i <= end THEN StoredRow(i) ELSE stored[i]
  BY <1>6, <1>7, <1>9
<1> QED BY <1>8, <1>9, <1>10
-----------------------------------------------------------------------------
(* What a step leaves alone stays as it is. *)

\* Outside an insert, nothing happens to what the last one did and reported.
LEMMA InsertUntouched ==
    ASSUME IInv, UNCHANGED <<config, insertVars>>,
           (~Inserting /\ ~Inserting') \/ pc' = pc, pc = "raised" => pc' = "raised"
    PROVE  MoreTypes' /\ ChunkInv' /\ ReportInv' /\ WiresAgree' /\ ProvenWireIsKept'
<1> USE DEF IInv, config, insertVars
<1>1. MoreTypes'
  BY DEF MoreTypes
<1>2. ChunkInv' /\ ReportInv'
  BY DEF ChunkInv, ReportInv, Inserting
<1>3. WiresAgree'
  BY DEF WiresAgree
<1>4. ProvenWireIsKept'
  BY DEF ProvenWireIsKept
<1> QED BY <1>1, <1>2, <1>3, <1>4

\* Nothing happens to the filter and to the search answered last.
LEMMA SearchUntouched ==
    ASSUME IInv, UNCHANGED <<loadPath, filter, blob, case, sent>>, pc = "raised" => pc' = "raised"
    PROVE  FilterInv' /\ SearchIsTheCase'
BY DEF IInv, FilterInv, SearchIsTheCase

\* Nothing happens to the collection.
LEMMA CollectionUntouched ==
    ASSUME IInv, UNCHANGED <<coll, asked, dropOld>>,
           \/ pc \notin {"drop", "create", "raised"}
           \/ pc' \in {"drop", "create", "raised"}
    PROVE  DropMeansNew'
BY DEF IInv, DropMeansNew

\* What the constructor's caller hands over.
LEMMA InitIInv == Init => IInv
<1> SUFFICES ASSUME Init PROVE IInv
  OBVIOUS
<1>1. PICK o \in RostamHNSW \cup Configured :
        /\ loadPath = load_path(o[1])
        /\ binary = o[1].binary_wire /\ binaryQuery = o[1].binary_query
        /\ asked = index_param(o[2])
  BY DEF Init
<1>2. o[1] \in to_dict /\ o[2] \in CaseConfigs
  <2>1. Defaults \in to_dict
    BY DEF Defaults, to_dict, LoadPaths
  <2>2. CASE o \in RostamHNSW
    BY <2>1, <2>2 DEF RostamHNSW
  <2>3. CASE o \in Configured
    BY <2>3 DEF Configured
  <2> QED BY <1>1, <2>2, <2>3
<1>3. binary \in BOOLEAN /\ binaryQuery \in BOOLEAN
  BY <1>1, <1>2 DEF to_dict
<1>4. pc \in {"drop", "create", "raised"} /\ (pc # "raised" => loadPath \in LoadPaths)
  BY DEF Init
<1>5. /\ start = 0 /\ count = 0 /\ err = FALSE /\ calls = 0 /\ case = NoFilter /\ sent = None
      /\ proven = FALSE /\ queryProven = FALSE /\ filter = <<>> /\ blob = <<>>
      /\ applied = [i \in Row |-> 0] /\ DOMAIN stored = Row
      /\ coll # None => coll.made \in BOOLEAN
  BY DEF Init
<1>6. N \in Nat \ {0} /\ INSERT_BATCH \in Nat \ {0} /\ MaxCalls \in Nat
  BY BatchAssumption
<1>7. FilterTree(NoFilter) = <<>>
  BY DEF FilterTree
<1>8. TypeOK
  <2>1. {filter, blob} \subseteq {FilterTree(f) : f \in Filters \cup {NoFilter}}
    BY <1>5, <1>7
  <2>2. start \in 0..N + INSERT_BATCH - 1 /\ count \in 0..N /\ calls \in 0..MaxCalls
    BY <1>5, <1>6
  <2> QED BY <1>3, <1>4, <1>5, <2>1, <2>2 DEF TypeOK
<1>9. MoreTypes
  BY <1>1, <1>2, <1>4, <1>5 DEF MoreTypes
<1>10. ChunkInv /\ ReportInv
  BY <1>4, <1>5, <1>6 DEF ChunkInv, ReportInv, Inserting, Row
<1>11. FilterInv /\ SearchIsTheCase /\ DropMeansNew /\ ProvenWireIsKept
  BY <1>4, <1>5, <1>7, FilterAssumption DEF FilterInv, SearchIsTheCase, DropMeansNew, ProvenWireIsKept
<1>12. WiresAgree
  BY <1>5 DEF WiresAgree
<1> QED BY <1>8, <1>9, <1>10, <1>11, <1>12 DEF IInv

-----------------------------------------------------------------------------
(* The steps. *)

\* The collection made of the options of the case has these options.
LEMMA CreatedAsAsked ==
    ASSUME IInv
    PROVE  Collection(CreateConfig(asked)) = [config |-> asked, made |-> TRUE]
<1>1. PICK c \in CaseConfigs : asked = index_param(c)
  BY DEF IInv, MoreTypes
<1>2. asked = [metric |-> asked.metric, m |-> asked.m, ef_construction |-> asked.ef_construction,
               ef_search |-> asked.ef_search, quant |-> asked.quant]
  BY <1>1 DEF index_param
<1>3. (IF CreateConfig(asked).quant = <<>> THEN "empty" ELSE CreateConfig(asked).quant[1]) = asked.quant
  <2>1. CASE asked.quant = "empty"
    BY <2>1 DEF CreateConfig
  <2>2. CASE asked.quant # "empty"
    <3>1. CreateConfig(asked).quant = <<asked.quant>> /\ <<asked.quant>> # <<>> /\ <<asked.quant>>[1] = asked.quant
      BY <2>2 DEF CreateConfig
    <3> QED BY <3>1
  <2> QED BY <2>1, <2>2
<1>4. /\ CreateConfig(asked).metric = asked.metric /\ CreateConfig(asked).m = asked.m
      /\ CreateConfig(asked).ef_construction = asked.ef_construction
      /\ CreateConfig(asked).ef_search = asked.ef_search
  BY DEF CreateConfig
<1> QED BY <1>2, <1>3, <1>4 DEF Collection

\* The constructor.
LEMMA ConstructorStep ==
    ASSUME IInv, Drop \/ Created \/ AlreadyExists \/ CreateFails
    PROVE  IInv'
<1>1. /\ UNCHANGED <<config, calls, insertVars, queryVars>>
      /\ pc \in {"drop", "create"} /\ pc' \in {"create", "ready", "raised"}
      /\ pc' = "ready" => \/ coll' = Collection(CreateConfig(asked))
                          \/ ~dropOld /\ coll' = coll
      /\ coll' \in {coll, None, Collection(CreateConfig(asked))}
  BY DEF Drop, Created, AlreadyExists, CreateFails
<1>2. Collection(CreateConfig(asked)) = [config |-> asked, made |-> TRUE]
  BY CreatedAsAsked
<1>3. coll' # None => coll'.made \in BOOLEAN
  <2>1. coll # None => coll.made \in BOOLEAN
    BY DEF IInv, TypeOK
  <2>2. Collection(CreateConfig(asked)).made = TRUE
    BY <1>2
  <2> HIDE DEF Collection
  <2>3. CASE coll' = coll
    BY <2>1, <2>3
  <2>4. CASE coll' = Collection(CreateConfig(asked))
    BY <2>2, <2>4
  <2> QED BY <1>1, <2>3, <2>4
<1>4. TypeOK'
  BY <1>1, <1>3 DEF IInv, TypeOK, insertVars, queryVars
<1>5. DropMeansNew'
  BY <1>1, <1>2 DEF DropMeansNew, config
<1>6. MoreTypes' /\ ChunkInv' /\ ReportInv' /\ WiresAgree' /\ ProvenWireIsKept'
  BY <1>1, InsertUntouched DEF Inserting
<1>7. FilterInv' /\ SearchIsTheCase'
  BY <1>1, SearchUntouched DEF config, queryVars
<1> QED BY <1>4, <1>5, <1>6, <1>7 DEF IInv

\* An insert begins.
LEMMA InsertStartStep ==
    ASSUME IInv, InsertStart
    PROVE  IInv'
<1>1. /\ pc = "ready" /\ pc' = "chunk" /\ calls < MaxCalls /\ calls' = calls + 1 /\ start' = 0
      /\ applied' = [i \in Row |-> 0] /\ DOMAIN stored' = Row
      /\ UNCHANGED <<config, coll, binary, proven, count, err, queryVars>>
  BY DEF InsertStart
<1>2. N \in Nat \ {0} /\ INSERT_BATCH \in Nat \ {0} /\ MaxCalls \in Nat
  BY BatchAssumption
<1>3. TypeOK'
  <2>1. calls \in 0..MaxCalls
    BY DEF IInv, TypeOK
  <2>2. start' \in 0..N + INSERT_BATCH - 1
    BY <1>1, <1>2
  <2>3. calls' \in 0..MaxCalls
    BY <1>1, <1>2, <2>1
  <2> QED BY <1>1, <2>2, <2>3 DEF IInv, TypeOK, queryVars
<1>4. MoreTypes'
  BY <1>1 DEF IInv, MoreTypes, config
<1>5. ChunkInv' /\ ReportInv'
  BY <1>1, <1>2 DEF ChunkInv, ReportInv, Inserting, Row
<1>6. WiresAgree' /\ ProvenWireIsKept'
  BY <1>1 DEF IInv, WiresAgree, ProvenWireIsKept
<1>7. FilterInv' /\ SearchIsTheCase'
  BY <1>1, SearchUntouched DEF config, queryVars
<1>8. DropMeansNew'
  BY <1>1, CollectionUntouched DEF config
<1> QED BY <1>3, <1>4, <1>5, <1>6, <1>7, <1>8 DEF IInv

\* A chunk was applied: what that does to the rows, and to the types.
LEMMA RowsApplied ==
    ASSUME IInv, Inserting, ApplyBinary \/ ApplyJson, UNCHANGED <<loadPath>>
    PROVE  /\ applied' \in [Row -> Nat] /\ DOMAIN stored' = Row /\ WiresAgree'
           /\ \A i \in Row : applied'[i] = IF i <= end THEN 1 ELSE 0
           /\ start \in Nat /\ end \in Nat /\ start < end /\ end <= N
           /\ end = N \/ end = start + INSERT_BATCH
<1>1. loadPath \in LoadPaths
  BY DEF IInv, MoreTypes, Inserting
<1>2. /\ applied' = [i \in Row |-> applied[i] + IF start < i /\ i <= end THEN 1 ELSE 0]
      /\ DOMAIN stored' = Row
      /\ \A i \in Row : stored'[i] = IF start < i /\ i <= end THEN StoredRow(i) ELSE stored[i]
  BY <1>1, ChunkApplied
<1>3. /\ start \in Nat /\ end \in Nat /\ start < end /\ end <= N
      /\ end = N \/ end = start + INSERT_BATCH
  BY ChunkRows
<1>4. \A i \in Row : applied[i] = IF i <= start THEN 1 ELSE 0
  BY DEF IInv, ChunkInv
<1>5. Row \subseteq Nat
  BY DEF Row
<1>6. \A i \in Row : applied'[i] = IF i <= end THEN 1 ELSE 0
  BY <1>2, <1>3, <1>4, <1>5
<1>7. applied' \in [Row -> Nat]
  BY <1>2, <1>6
<1>8. WiresAgree'
  <2> SUFFICES ASSUME NEW i \in Row, applied'[i] > 0 PROVE stored'[i] = StoredRow(i)
    BY DEF WiresAgree, StoredRow
  <2>1. i <= end
    BY <1>6
  <2>2. CASE start < i
    BY <1>2, <2>1, <2>2
  <2>3. CASE ~(start < i)
    <3>1. applied[i] > 0
      BY <1>3, <1>4, <1>5, <2>3
    <3>2. stored[i] = StoredRow(i)
      BY <3>1 DEF IInv, WiresAgree, StoredRow
    <3> QED BY <1>2, <2>3, <3>2
  <2> QED BY <2>2, <2>3
<1> QED BY <1>2, <1>3, <1>6, <1>7, <1>8

\* A chunk is answered 2xx, on either wire.
LEMMA ChunkOkStep ==
    ASSUME IInv, BinaryOk \/ JsonOk
    PROVE  IInv'
<1>1. /\ Inserting /\ (ApplyBinary \/ ApplyJson) /\ NextChunk
      /\ UNCHANGED <<config, coll, calls, binary, queryVars>>
      /\ proven' = proven \/ (proven' = TRUE /\ binary)
  BY DEF BinaryOk, JsonOk, Inserting, JsonTurn
<1>2. /\ applied' \in [Row -> Nat] /\ DOMAIN stored' = Row /\ WiresAgree'
      /\ \A i \in Row : applied'[i] = IF i <= end THEN 1 ELSE 0
      /\ start \in Nat /\ end \in Nat /\ start < end /\ end <= N
      /\ end = N \/ end = start + INSERT_BATCH
  BY <1>1, RowsApplied DEF config
<1>3. N \in Nat \ {0} /\ INSERT_BATCH \in Nat \ {0} /\ (end = IF start + INSERT_BATCH < N THEN start + INSERT_BATCH ELSE N)
  BY BatchAssumption DEF end
<1>4. /\ start' = start + INSERT_BATCH
      /\ \/ start' < N /\ end = start' /\ pc' = "chunk" /\ UNCHANGED <<count, err>>
         \/ ~(start' < N) /\ end = N /\ pc' = "ready" /\ count' = N /\ err' = FALSE
  BY <1>1, <1>3 DEF NextChunk, Return
<1> HIDE DEF end
<1>5. start < N /\ start' \in 0..N + INSERT_BATCH - 1
  BY <1>2, <1>3, <1>4
<1>6. proven' \in BOOLEAN
  BY <1>1 DEF IInv, TypeOK
<1>7. count' \in 0..N /\ err' \in BOOLEAN
  <2>1. count \in 0..N /\ err \in BOOLEAN /\ N \in 0..N
    BY <1>3 DEF IInv, TypeOK
  <2> QED BY <1>4, <2>1
<1>8. TypeOK'
  BY <1>1, <1>4, <1>5, <1>6, <1>7 DEF IInv, TypeOK, queryVars
<1>9. MoreTypes'
  BY <1>1, <1>2 DEF IInv, MoreTypes, config, Inserting
<1>10. ChunkInv' /\ ReportInv'
  <2>1. CASE start' < N
    BY <1>2, <1>4, <2>1 DEF ChunkInv, ReportInv, Inserting
  <2>2. CASE ~(start' < N)
    <3>1. \A i \in Row : applied'[i] = 1
      BY <1>2, <1>3, <1>4, <2>2 DEF Row
    <3> QED BY <1>4, <2>2, <3>1 DEF ChunkInv, ReportInv, Inserting
  <2> QED BY <2>1, <2>2
<1>11. ProvenWireIsKept'
  BY <1>1 DEF IInv, ProvenWireIsKept
<1>12. FilterInv' /\ SearchIsTheCase'
  BY <1>1, SearchUntouched DEF config, queryVars, Inserting
<1>13. DropMeansNew'
  BY <1>1, CollectionUntouched DEF config, Inserting
<1> QED BY <1>2, <1>8, <1>9, <1>10, <1>11, <1>12, <1>13 DEF IInv

\* The binary wire is rejected: as JSON, or an error.
LEMMA RejectedStep ==
    ASSUME IInv, BinaryRejected
    PROVE  IInv'
<1>1. /\ pc = "chunk" /\ binary
      /\ \/ ~proven /\ binary' = FALSE /\ pc' = "json" /\ UNCHANGED <<count, err>>
         \/ proven /\ binary' = binary /\ pc' = "ready" /\ count' = start /\ err' = TRUE
      /\ UNCHANGED <<config, coll, calls, proven, start, applied, stored, queryVars>>
  BY DEF BinaryRejected, Return
<1>2. start \in Nat /\ start < N /\ N \in Nat
  BY <1>1, BatchAssumption DEF IInv, TypeOK, ChunkInv, Inserting
<1>3. count' \in 0..N /\ err' \in BOOLEAN /\ binary' \in BOOLEAN
  <2>1. count \in 0..N /\ err \in BOOLEAN /\ binary \in BOOLEAN
    BY DEF IInv, TypeOK
  <2>2. start \in 0..N
    BY <1>2
  <2> QED BY <1>1, <2>1, <2>2
<1>4. TypeOK'
  BY <1>1, <1>3 DEF IInv, TypeOK, queryVars
<1>5. MoreTypes'
  BY <1>1 DEF IInv, MoreTypes, config
<1>6. ChunkInv'
  BY <1>1 DEF IInv, ChunkInv, Inserting
<1>7. ReportInv'
  <2>1. CASE pc' = "json"
    BY <1>1, <2>1 DEF IInv, ChunkInv, ReportInv, Inserting
  <2>2. CASE pc' = "ready" /\ count' = start /\ err' = TRUE
    <3>1. \A i \in Row : applied[i] = IF i <= start THEN 1 ELSE 0
      BY <1>1 DEF IInv, ChunkInv, Inserting
    <3>2. \A i \in Row : applied'[i] <= 1 /\ (i <= count' => applied'[i] = 1)
      BY <1>1, <2>2, <3>1
    <3>3. ~(start' >= N)
      BY <1>1, <1>2
    <3> QED BY <2>2, <3>2, <3>3 DEF ReportInv
  <2> QED BY <1>1, <2>1, <2>2
<1>8. WiresAgree' /\ ProvenWireIsKept'
  BY <1>1 DEF IInv, WiresAgree, ProvenWireIsKept, config
<1>9. FilterInv' /\ SearchIsTheCase'
  BY <1>1, SearchUntouched DEF config, queryVars
<1>10. DropMeansNew'
  BY <1>1, CollectionUntouched DEF config
<1> QED BY <1>4, <1>5, <1>6, <1>7, <1>8, <1>9, <1>10 DEF IInv

\* An insert ends with an error or an exception, its last chunk applied or not.
LEMMA InsertFailsStep ==
    ASSUME IInv, InsertError \/ InsertException
    PROVE  IInv'
<1>1. /\ Inserting /\ pc' = "ready" /\ count' \in {0, start} /\ err' = TRUE
      /\ ApplyBinary \/ ApplyJson \/ UNCHANGED <<applied, stored>>
      /\ UNCHANGED <<config, coll, calls, binary, proven, start, queryVars>>
  BY DEF InsertError, InsertException, Return, Inserting
<1>2. start \in Nat /\ start < N /\ N \in Nat
  BY <1>1, BatchAssumption DEF IInv, TypeOK, ChunkInv
<1>3. /\ applied' \in [Row -> Nat] /\ DOMAIN stored' = Row /\ WiresAgree'
      /\ \A i \in Row : applied'[i] <= 1 /\ (i <= start => applied'[i] = 1)
  <2>1. CASE ApplyBinary \/ ApplyJson
    <3>1. /\ applied' \in [Row -> Nat] /\ DOMAIN stored' = Row /\ WiresAgree'
          /\ \A i \in Row : applied'[i] = IF i <= end THEN 1 ELSE 0
          /\ end \in Nat /\ start < end
      BY <1>1, <2>1, RowsApplied DEF config
    <3> HIDE DEF end
    <3> QED BY <1>2, <3>1 DEF Row
  <2>2. CASE UNCHANGED <<applied, stored>>
    <3>1. WiresAgree'
      BY <1>1, <2>2 DEF IInv, WiresAgree, config
    <3> QED BY <1>1, <2>2, <3>1 DEF IInv, MoreTypes, ChunkInv
  <2> QED BY <1>1, <2>1, <2>2
<1>4. count' \in 0..N
  BY <1>1, <1>2
<1>5. TypeOK'
  BY <1>1, <1>4 DEF IInv, TypeOK, queryVars
<1>6. MoreTypes'
  BY <1>1, <1>3 DEF IInv, MoreTypes, config, Inserting
<1>7. ChunkInv' /\ ReportInv'
  <2>1. \A i \in Row : i <= count' => i <= start
    BY <1>1, <1>2 DEF Row
  <2> QED BY <1>1, <1>2, <1>3, <2>1 DEF ChunkInv, ReportInv, Inserting
<1>8. ProvenWireIsKept'
  BY <1>1 DEF IInv, ProvenWireIsKept
<1>9. FilterInv' /\ SearchIsTheCase'
  BY <1>1, SearchUntouched DEF config, queryVars, Inserting
<1>10. DropMeansNew'
  BY <1>1, CollectionUntouched DEF config, Inserting
<1> QED BY <1>3, <1>5, <1>6, <1>7, <1>8, <1>9, <1>10 DEF IInv

\* prepare_filter.
LEMMA PrepareStep ==
    ASSUME IInv, NEW f \in Filters \cup {NoFilter, Other}, PrepareFilter(f)
    PROVE  IInv'
<1>1. /\ pc = "ready" /\ case' = f /\ sent' = None
      /\ \/ /\ f # Other /\ (f # NoFilter => loadPath # "bulk")
            /\ filter' = FilterTree(f) /\ blob' = FilterTree(f) /\ pc' = "ready"
         \/ pc' = "raised" /\ UNCHANGED <<filter, blob>>
      /\ UNCHANGED <<config, coll, calls, insertVars, binaryQuery, queryProven>>
  BY DEF PrepareFilter, Refused
<1>2. {filter', blob'} \subseteq {FilterTree(g) : g \in Filters \cup {NoFilter}}
  BY <1>1 DEF IInv, TypeOK
<1>3. TypeOK'
  BY <1>1, <1>2 DEF IInv, TypeOK, insertVars
<1>4. FilterInv' /\ SearchIsTheCase'
  BY <1>1 DEF FilterInv, SearchIsTheCase, config
<1>5. MoreTypes' /\ ChunkInv' /\ ReportInv' /\ WiresAgree' /\ ProvenWireIsKept'
  BY <1>1, InsertUntouched DEF Inserting
<1>6. DropMeansNew'
  BY <1>1, CollectionUntouched DEF config
<1> QED BY <1>3, <1>4, <1>5, <1>6 DEF IInv

\* A search is answered, on either wire.
LEMMA SearchOkStep ==
    ASSUME IInv, QueryOk \/ JsonQueryOk
    PROVE  IInv'
<1>1. /\ pc \in {"query", "jsonQuery"} /\ pc' = "ready"
      /\ \/ sent' = DecodeQuery(_query_body(query, K, blob)) /\ queryProven' = TRUE
         \/ sent' = DecodeJsonQuery(JsonQuery(query, K, filter)) /\ queryProven' = queryProven
      /\ UNCHANGED <<config, coll, calls, insertVars, binaryQuery, filter, blob, case>>
  BY DEF QueryOk, JsonQueryOk
<1>2. query \in Nat
  BY BatchAssumption DEF query
<1>3. /\ filter = FilterTree(case) /\ blob = FilterTree(case)
      /\ case # Other /\ (case # NoFilter => loadPath # "bulk")
  BY <1>1 DEF IInv, FilterInv
<1> HIDE DEF query
<1>4. sent' = [query |-> F32(query), k |-> K, filter |-> FilterTree(case)]
  BY <1>1, <1>2, <1>3, QueryRoundTrip
<1>5. queryProven' \in BOOLEAN
  BY <1>1 DEF IInv, TypeOK
<1>6. TypeOK'
  BY <1>1, <1>5 DEF IInv, TypeOK, insertVars
<1>7. FilterInv' /\ SearchIsTheCase'
  BY <1>1, <1>3, <1>4 DEF FilterInv, SearchIsTheCase, config
<1>8. MoreTypes' /\ ChunkInv' /\ ReportInv' /\ WiresAgree' /\ ProvenWireIsKept'
  BY <1>1, InsertUntouched DEF Inserting
<1>9. DropMeansNew'
  BY <1>1, CollectionUntouched DEF config
<1> QED BY <1>6, <1>7, <1>8, <1>9 DEF IInv

\* The rest of a search, a build that fails, and steps that change nothing.
LEMMA OtherStep ==
    ASSUME IInv, OptimizeFails \/ SearchStart \/ QueryRejected \/ SearchFails \/ UNCHANGED vars
    PROVE  IInv'
<1>1. /\ UNCHANGED <<config, coll, insertVars, filter, blob, case, sent>>
      /\ binaryQuery' \in {binaryQuery, FALSE} /\ queryProven' \in {queryProven, TRUE}
      /\ calls' = calls \/ (calls < MaxCalls /\ calls' = calls + 1)
      /\ \/ pc' = pc
         \/ pc \in {"ready", "query", "jsonQuery"} /\ pc' \in {"ready", "query", "jsonQuery", "raised"}
  BY DEF OptimizeFails, SearchStart, QueryRejected, SearchFails, vars, config, insertVars, queryVars
<1>2. calls' \in 0..MaxCalls
  BY <1>1, BatchAssumption DEF IInv, TypeOK
<1>3. binaryQuery' \in BOOLEAN /\ queryProven' \in BOOLEAN
  BY <1>1 DEF IInv, TypeOK
<1>4. TypeOK'
  BY <1>1, <1>2, <1>3 DEF IInv, TypeOK, insertVars
<1>5. MoreTypes' /\ ChunkInv' /\ ReportInv' /\ WiresAgree' /\ ProvenWireIsKept'
  BY <1>1, InsertUntouched DEF Inserting
<1>6. FilterInv' /\ SearchIsTheCase'
  BY <1>1, SearchUntouched DEF config
<1>7. DropMeansNew'
  BY <1>1, CollectionUntouched DEF config
<1> QED BY <1>4, <1>5, <1>6, <1>7 DEF IInv

-----------------------------------------------------------------------------
(* The theorems. *)

\* IInv is an invariant of the client object, whatever it is asked to do.
THEOREM InvariantHolds == Spec => []IInv
<1>1. IInv /\ [Next]_vars => IInv'
  BY ConstructorStep, InsertStartStep, ChunkOkStep, RejectedStep, InsertFailsStep, PrepareStep,
     SearchOkStep, OtherStep DEF Next, Insert, Search, Finished
<1> QED BY <1>1, InitIInv, PTL DEF Spec

\* Type correctness: in particular start and count stay in range for every N and
\* INSERT_BATCH, those that do not divide each other included.
THEOREM TypeCorrect == Spec => []TypeOK
<1>1. IInv => TypeOK
  BY DEF IInv
<1> QED BY <1>1, InvariantHolds, PTL

\* What insert_embeddings returns is true of the server (rostam.py:306-371).
THEOREM ReportTrue == Spec => []ReportIsTrue
<1>1. IInv => ReportIsTrue
  <2> SUFFICES ASSUME IInv PROVE ReportIsTrue
    OBVIOUS
  <2>1. CASE Inserting
    BY <2>1 DEF IInv, ChunkInv, ReportIsTrue, Inserting
  <2>2. CASE ~Inserting
    BY <2>2 DEF IInv, ReportInv, ReportIsTrue
  <2> QED BY <2>1, <2>2
<1> QED BY <1>1, InvariantHolds, PTL

\* Whichever wire a row went over, the server has the same row (rostam.py:150-240).
THEOREM WiresAlwaysAgree == Spec => []WiresAgree
<1>1. IInv => WiresAgree
  BY DEF IInv
<1> QED BY <1>1, InvariantHolds, PTL

\* An answered search was the query, the k and the filter of its case.
THEOREM SearchesTheCase == Spec => []SearchIsTheCase
<1>1. IInv => SearchIsTheCase
  BY DEF IInv
<1> QED BY <1>1, InvariantHolds, PTL

\* drop_old means a collection of this client's own, as the case asked for it.
THEOREM DroppedMeansNew == Spec => []DropMeansNew
<1>1. IInv => DropMeansNew
  BY DEF IInv
<1> QED BY <1>1, InvariantHolds, PTL

\* A wire that worked once is never silently left.
THEOREM WireIsKept == Spec => []ProvenWireIsKept
<1>1. IInv => ProvenWireIsKept
  BY DEF IInv
<1> QED BY <1>1, InvariantHolds, PTL
=============================================================================
