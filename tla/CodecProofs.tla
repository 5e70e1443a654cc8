---------------------------- MODULE CodecProofs ----------------------------
(***************************************************************************)
(* What the codecs keep of an envelope, for any contents of its fields and *)
(* any limit.                                                              *)
(***************************************************************************)
EXTENDS Codec, TLAPS, SequenceTheorems

\* A leaf that names no backend is tried with the SMT solver, then with Zenon,
\* each given more time than it takes on an idle machine.
USE SMTT(30), ZenonT(20)

Value == Text \cup MessageType \cup Encoding \cup {"other", ""}
Cell == [field : Field \cup {"}"}, value : Value, last : BOOLEAN]

\* A sequence of cells has something of field f.
Has(q, f) == \E k \in 1..Len(q) : q[k].field = f

\* The cells of q are whole fields, and say of each what e says.
Tells(q, e) ==
  /\ q \in Seq(Cell)
  /\ \A k \in 1..Len(q) : q[k].field \in Field /\ q[k].value = e[q[k].field]
  /\ q # <<>> => q[Len(q)].last

\* The codec has done what it does.
Inv ==
  /\ codec \in {"json", "protobuf"} /\ limit \in Nat /\ env \in Envelope
  /\ pc \in {"encode", "decode", "done"}
  /\ pc # "encode" => wire = IF codec = "json" THEN JsonEncode(env) ELSE ProtobufEncode(env)
  /\ pc = "done" =>
       out = IF codec = "json" THEN JsonDecode(wire, limit) ELSE ProtobufDecode(wire, limit)

---------------------------------------------------------------------------
(* Cells.                                                                  *)

\* The fields of an envelope.
LEMMA Fields == Field = {"type", "encoding", "mid", "from", "data"}
BY DEF Field, Empty

\* An envelope has a value in each field.
LEMMA FieldValue == ASSUME NEW e \in Envelope, NEW f \in Field PROVE e[f] \in Value
BY Fields, Zenon DEF Envelope, Value

\* The cells of one field.
LEMMA CellsTell ==
  ASSUME NEW e, NEW f \in Field, e[f] \in Value
  PROVE  Tells(Cells(f, e[f]), e) /\ Has(Cells(f, e[f]), f)
<1> DEFINE n == IF f = "data" THEN 2 ELSE 1
           v == e[f]
           q == [k \in 1..n |-> [field |-> f, value |-> v, last |-> k = n]]
<1>1. n \in Nat /\ n >= 1 /\ v = e[f] /\ v \in Value
  OBVIOUS
<1>2. Cells(f, v) = q
  BY DEF Cells
<1> HIDE DEF n, v
<1>3. \A k \in 1..n : q[k] \in Cell /\ q[k].field = f /\ q[k].value = v /\ q[k].last = (k = n)
  BY <1>1, Zenon DEF Cell
<1>4. q \in Seq(Cell) /\ Len(q) = n
  BY <1>1, <1>3, LenProperties
<1> HIDE DEF q
<1>5. 1 \in 1..n /\ n \in 1..n
  BY <1>1
<1>6. Has(q, f)
  BY <1>3, <1>4, <1>5 DEF Has
<1>7. Tells(q, e)
  BY <1>1, <1>3, <1>4, <1>5, Zenon DEF Tells
<1> QED
  BY <1>2, <1>6, <1>7 DEF v

\* Nothing tells nothing.
LEMMA NothingTells == ASSUME NEW e PROVE Tells(<<>>, e) /\ \A f \in Field : ~Has(<<>>, f)
<1>1. <<>> \in Seq(Cell) /\ Len(<<>>) = 0 /\ \A k \in 1..0 : FALSE
  OBVIOUS
<1> QED
  BY <1>1 DEF Tells, Has

\* What is joined tells what its parts tell.
LEMMA JoinTells ==
  ASSUME NEW e, NEW p, NEW q, Tells(p, e), Tells(q, e)
  PROVE  /\ Tells(p \o q, e)
         /\ \A f \in Field : Has(p, f) \/ Has(q, f) => Has(p \o q, f)
<1> DEFINE r == p \o q
           m == Len(p)
           n == Len(q)
<1>1. p \in Seq(Cell) /\ q \in Seq(Cell) /\ m \in Nat /\ n \in Nat
  BY LenProperties DEF Tells
<1>2. /\ r \in Seq(Cell) /\ Len(r) = m + n
      /\ \A i \in 1..(m + n) : r[i] = IF i <= m THEN p[i] ELSE q[i - m]
  BY <1>1, ConcatProperties
<1> HIDE DEF r
<1>3. \A i \in 1..m : i \in 1..(m + n) /\ r[i] = p[i]
  BY <1>1, <1>2
<1>4. ASSUME NEW i \in 1..n PROVE i + m \in 1..(m + n) /\ r[i + m] = q[i]
  <2>1. i + m \in 1..(m + n) /\ ~(i + m <= m) /\ (i + m) - m = i
    BY <1>1
  <2> QED
    BY <1>2, <2>1
<1>5. ASSUME NEW k \in 1..(m + n)
      PROVE  k \in 1..m \/ \E i \in 1..n : k = i + m
  <2>1. CASE k <= m
    BY <1>1, <2>1
  <2>2. CASE k > m
    <3>1. k - m \in 1..n /\ k = (k - m) + m
      BY <1>1, <2>2
    <3> QED
      BY <3>1, Zenon
  <2> QED
    BY <1>1, <2>1, <2>2
<1>6. /\ \A k \in 1..m : p[k].field \in Field /\ p[k].value = e[p[k].field]
      /\ \A k \in 1..n : q[k].field \in Field /\ q[k].value = e[q[k].field]
      /\ p # <<>> => p[m].last
      /\ q # <<>> => q[n].last
  BY DEF Tells
<1>7. \A k \in 1..(m + n) : r[k].field \in Field /\ r[k].value = e[r[k].field]
  <2> TAKE k \in 1..(m + n)
  <2>1. CASE k \in 1..m
    BY <1>3, <1>6, <2>1
  <2>2. CASE \E i \in 1..n : k = i + m
    <3>1. PICK i \in 1..n : k = i + m
      BY <2>2
    <3>2. r[k] = q[i]
      BY <1>4, <3>1
    <3> QED
      BY <1>6, <3>2
  <2> QED
    BY <1>5, <2>1, <2>2
<1>8. ASSUME r # <<>> PROVE r[m + n].last
  <2>1. CASE q # <<>>
    <3>1. n \in 1..n /\ n + m = m + n
      BY <1>1, <2>1, EmptySeq
    <3> QED
      BY <1>4, <1>6, <2>1, <3>1
  <2>2. CASE q = <<>>
    <3>1. n = 0 /\ m + n = m
      BY <1>1, <2>2
    <3>2. m # 0
      BY <1>2, <1>8, <3>1, EmptySeq
    <3>3. m \in 1..m /\ p # <<>>
      BY <1>1, <3>2
    <3> QED
      BY <1>3, <1>6, <3>1, <3>3
  <2> QED
    BY <2>1, <2>2
<1>9. ASSUME NEW f \in Field, Has(p, f) \/ Has(q, f) PROVE Has(r, f)
  <2>1. CASE Has(p, f)
    BY <1>2, <1>3, <2>1 DEF Has
  <2>2. CASE Has(q, f)
    <3>1. PICK i \in 1..n : q[i].field = f
      BY <2>2 DEF Has
    <3>2. i + m \in 1..(m + n) /\ r[i + m].field = f
      BY <1>4, <3>1
    <3> QED
      BY <1>2, <3>2 DEF Has
  <2> QED
    BY <1>9, <2>1, <2>2
<1>10. Tells(r, e)
  BY <1>2, <1>7, <1>8 DEF Tells
<1> QED
  BY <1>9, <1>10 DEF r

\* What is told is what is filled in: the fields that are there, and no others.
LEMMA FilledFrom ==
  ASSUME NEW e, NEW q \in Seq(Cell), NEW f \in Field,
         \A k \in 1..Len(q) : q[k].field = f => q[k].value = e[f],
         Has(q, f) \/ e[f] = ""
  PROVE  Filled(q)[f] = e[f]
<1> DEFINE S == {c \in Range(q) : c.field = f}
<1>1. Range(q) = {q[k] : k \in 1..Len(q)}
  BY LenProperties, Zenon DEF Range
<1>2. \A c \in S : c.value = e[f]
  BY <1>1, Zenon
<1>3. Filled(q)[f] = IF S = {} THEN "" ELSE (CHOOSE c \in S : TRUE).value
  BY Zenon DEF Filled
<1>4. CASE Has(q, f)
  <2>1. \E c \in S : TRUE
    BY <1>1, <1>4, Zenon DEF Has
  <2> HIDE DEF S
  <2>2. (CHOOSE c \in S : TRUE) \in S
    BY <2>1, Zenon
  <2> QED
    BY <1>2, <1>3, <2>1, <2>2, Zenon
<1>5. CASE ~Has(q, f)
  <2>1. S = {}
    BY <1>1, <1>5, Zenon DEF Has
  <2> HIDE DEF S
  <2> QED
    BY <1>3, <1>5, <2>1, Zenon
<1> QED
  BY <1>4, <1>5, Zenon

\* An envelope is what its fields are.
LEMMA ByFields == ASSUME NEW e \in Envelope PROVE e = [f \in Field |-> e[f]]
BY Fields, Zenon DEF Envelope

\* Filled makes an envelope of its cells.
LEMMA FilledIs ==
  ASSUME NEW e \in Envelope, NEW q \in Seq(Cell),
         \A f \in Field : \A k \in 1..Len(q) : q[k].field = f => q[k].value = e[f],
         \A f \in Field : Has(q, f) \/ e[f] = ""
  PROVE  Filled(q) = e
<1>1. \A f \in Field : Filled(q)[f] = e[f]
  BY FilledFrom, Zenon
<1> DEFINE G(f) == LET S == {c \in Range(q) : c.field = f} IN
                   IF S = {} THEN "" ELSE (CHOOSE c \in S : TRUE).value
<1>2. Filled(q) = [f \in Field |-> G(f)]
  BY Zenon DEF Filled
<1> HIDE DEF G
<1>3. \A f \in Field : G(f) = e[f]
  BY <1>1, <1>2, Zenon
<1> QED
  BY <1>2, <1>3, ByFields, Zenon

---------------------------------------------------------------------------
(* JSONCodec.                                                              *)

JsonFields(e) ==
  Cells("type", e.type) \o Cells("encoding", e.encoding) \o Cells("from", e.from)
    \o Cells("mid", e.mid) \o (IF e.data = "" THEN <<>> ELSE Cells("data", e.data))

\* Before the closing brace is all of the envelope.
LEMMA JsonTells ==
  ASSUME NEW e \in Envelope
  PROVE  Tells(JsonFields(e), e) /\ \A f \in Field : Has(JsonFields(e), f) \/ e[f] = ""
<1> DEFINE a == Cells("type", e["type"])
           b == Cells("encoding", e["encoding"])
           c == Cells("from", e["from"])
           d == Cells("mid", e["mid"])
           g == IF e["data"] = "" THEN <<>> ELSE Cells("data", e["data"])
<1>1. Tells(a, e) /\ Has(a, "type") /\ "type" \in Field
  BY CellsTell, FieldValue, Fields
<1>2. Tells(b, e) /\ Has(b, "encoding") /\ "encoding" \in Field
  BY CellsTell, FieldValue, Fields
<1>3. Tells(c, e) /\ Has(c, "from") /\ "from" \in Field
  BY CellsTell, FieldValue, Fields
<1>4. Tells(d, e) /\ Has(d, "mid") /\ "mid" \in Field
  BY CellsTell, FieldValue, Fields
<1>5. Tells(g, e) /\ (Has(g, "data") \/ e["data"] = "") /\ "data" \in Field
  BY CellsTell, NothingTells, FieldValue, Fields, Zenon
<1>6. JsonFields(e) = (((a \o b) \o c) \o d) \o g
  BY Zenon DEF JsonFields
<1> HIDE DEF a, b, c, d, g
<1>7. Tells(a \o b, e) /\ \A f \in {"type", "encoding"} : Has(a \o b, f)
  BY <1>1, <1>2, JoinTells, Zenon
<1>8. /\ Tells((a \o b) \o c, e)
      /\ \A f \in {"type", "encoding", "from"} : Has((a \o b) \o c, f)
  BY <1>1, <1>2, <1>3, <1>7, JoinTells
<1>9. /\ Tells(((a \o b) \o c) \o d, e)
      /\ \A f \in {"type", "encoding", "from", "mid"} : Has(((a \o b) \o c) \o d, f)
  BY <1>1, <1>2, <1>3, <1>4, <1>8, JoinTells, Zenon
<1>10. /\ Tells((((a \o b) \o c) \o d) \o g, e)
       /\ \A f \in {"type", "encoding", "from", "mid"} : Has((((a \o b) \o c) \o d) \o g, f)
       /\ Has((((a \o b) \o c) \o d) \o g, "data") \/ e["data"] = ""
  BY <1>1, <1>2, <1>3, <1>4, <1>5, <1>9, JoinTells, Zenon
<1> QED
  BY <1>6, <1>10, Fields, Zenon

\* A cell by itself.
LEMMA OneCell == ASSUME NEW S, NEW x \in S PROVE <<x>> \in Seq(S) /\ Len(<<x>>) = 1 /\ <<x>>[1] = x
OBVIOUS

\* The brace is the last cell and no other.
LEMMA JsonWire ==
  ASSUME NEW e \in Envelope
  PROVE  LET w == JsonEncode(e) IN
         /\ w \in Seq(Cell) /\ w # <<>> /\ w[Len(w)] = Brace
         /\ \A k \in 1..Len(w) : k # Len(w) => w[k] # Brace
         /\ Filled(w) = e
<1> DEFINE p == JsonFields(e)
           n == Len(p)
           w == JsonEncode(e)
<1>1. /\ p \in Seq(Cell) /\ n \in Nat
      /\ \A k \in 1..n : p[k].field \in Field /\ p[k].value = e[p[k].field]
  BY JsonTells, LenProperties, Zenon DEF Tells
<1>2. Brace \in Cell /\ Brace.field = "}" /\ "}" \notin Field
  BY Fields DEF Brace, Cell, Value
<1>3. w = p \o <<Brace>>
  BY DEF JsonEncode, JsonFields
<1>10. \A f \in Field : Has(p, f) \/ e[f] = ""
  BY JsonTells, Zenon
<1> HIDE DEF p, w
<1>4. /\ w \in Seq(Cell) /\ Len(w) = n + 1 /\ w[n + 1] = Brace
      /\ \A k \in 1..n : w[k] = p[k]
  <2> DEFINE z == <<Brace>>
  <2>1. z \in Seq(Cell) /\ Len(z) = 1 /\ z[1] = Brace
    BY <1>2, OneCell, Zenon
  <2> HIDE DEF z
  <2>2. /\ p \o z \in Seq(Cell) /\ Len(p \o z) = n + Len(z)
        /\ \A i \in 1..(n + Len(z)) : (p \o z)[i] = IF i <= n THEN p[i] ELSE z[i - n]
    BY <1>1, <2>1, ConcatProperties
  <2>3. n + 1 \in 1..(n + 1) /\ ~(n + 1 <= n) /\ (n + 1) - n = 1
    BY <1>1
  <2>4. \A k \in 1..n : k \in 1..(n + 1) /\ k <= n
    BY <1>1
  <2> QED
    BY <1>3, <2>1, <2>2, <2>3, <2>4 DEF z
<1>5. w # <<>> /\ w[Len(w)] = Brace
  BY <1>1, <1>4
<1>6. ASSUME NEW k \in 1..Len(w), k # Len(w) PROVE w[k] # Brace
  <2>1. k \in 1..n
    BY <1>1, <1>4, <1>6
  <2> QED
    BY <1>1, <1>2, <1>4, <2>1, Zenon
<1>7. ASSUME NEW f \in Field, NEW k \in 1..Len(w), w[k].field = f PROVE w[k].value = e[f]
  <2>1. k # n + 1
    BY <1>2, <1>4, <1>7, Zenon
  <2>2. k \in 1..n
    BY <1>1, <1>4, <2>1
  <2> QED
    BY <1>1, <1>4, <1>7, <2>2
<1>8. ASSUME NEW f \in Field PROVE Has(w, f) \/ e[f] = ""
  <2>1. \A k \in 1..n : k \in 1..(n + 1)
    BY <1>1
  <2> QED
    BY <1>4, <1>10, <2>1, Zenon DEF Has
<1>9. Filled(w) = e
  BY <1>4, <1>7, <1>8, FilledIs, Zenon
<1> QED
  BY <1>4, <1>5, <1>6, <1>9 DEF w

\* What is within the limit is not cut.
LEMMA NotCut ==
  ASSUME NEW w \in Seq(Cell), NEW l \in Nat, Len(w) <= l
  PROVE  Limited(w, l) = w /\ Limit(w, l) = w
BY LenProperties DEF Limited, Limit

\* What is cut has lost its last cell.
LEMMA JsonCut ==
  ASSUME NEW e \in Envelope, NEW l \in Nat
  PROVE  LET w == JsonEncode(e)
             q == Limit(w, l)
         IN q = w \/ (q # <<>> /\ q[Len(q)] # Brace)
<1> DEFINE w == JsonEncode(e)
           q == Limit(w, l)
<1>1. /\ w \in Seq(Cell) /\ Len(w) \in Nat
      /\ \A k \in 1..Len(w) : k # Len(w) => w[k] # Brace
  BY JsonWire, LenProperties
<1> HIDE DEF w
<1>2. ASSUME l > 0, l < Len(w) PROVE q # <<>> /\ q[Len(q)] # Brace
  <2>1. q = SubSeq(w, 1, l)
    BY <1>2 DEF Limit, Limited
  <2>2. l \in 1..Len(w) /\ l # Len(w) /\ l \in 1..l
    BY <1>1, <1>2
  <2>3. Len(SubSeq(w, 1, l)) = l /\ SubSeq(w, 1, l)[l] = w[l] /\ SubSeq(w, 1, l) # <<>>
    BY <1>1, <1>2, <2>2
  <2> QED
    BY <1>1, <2>1, <2>2, <2>3
<1>3. ASSUME ~(l > 0 /\ l < Len(w)) PROVE q = w
  BY <1>3 DEF Limit, Limited
<1> QED
  BY <1>2, <1>3 DEF w

---------------------------------------------------------------------------
(* ProtobufCodec.                                                          *)

\* What protobuf makes of an envelope.
Carried(e) ==
  [type |-> ToPBMsgType(e.type), encoding |-> ToPBEncoding(e.encoding), mid |-> e.mid,
   from |-> "", data |-> e.data]

LEMMA CarriedType == ASSUME NEW e \in Envelope PROVE Carried(e) \in Envelope
BY Zenon DEF Carried, Envelope, ToPBMsgType, ToPBEncoding

\* A field that is set.
LEMMA SentTells ==
  ASSUME NEW e \in Envelope, NEW f \in Field
  PROVE  Tells(Sent(f, e[f]), e) /\ (Has(Sent(f, e[f]), f) \/ e[f] = "")
<1>1. CASE e[f] = ""
  BY <1>1, NothingTells, Zenon DEF Sent
<1>2. CASE e[f] # ""
  BY <1>2, CellsTell, FieldValue, Zenon DEF Sent
<1> QED
  BY <1>1, <1>2, Zenon

\* The wire holds what protobuf carries.
LEMMA ProtobufTells ==
  ASSUME NEW e \in Envelope
  PROVE  LET w == ProtobufEncode(e) IN
         Tells(w, Carried(e)) /\ Filled(w) = Carried(e)
<1> DEFINE x == Carried(e)
           a == Sent("type", x["type"])
           b == Sent("encoding", x["encoding"])
           c == Sent("mid", x["mid"])
           d == Sent("data", x["data"])
           w == ((a \o b) \o c) \o d
<1>1. /\ x \in Envelope /\ x["from"] = ""
      /\ "type" \in Field /\ "encoding" \in Field /\ "mid" \in Field /\ "data" \in Field
  BY CarriedType, Fields, Zenon DEF Carried
<1>2. ProtobufEncode(e) = w
  BY DEF ProtobufEncode, Carried
<1> HIDE DEF x
<1>3. Tells(a, x) /\ (Has(a, "type") \/ x["type"] = "")
  BY <1>1, SentTells, Zenon
<1>4. Tells(b, x) /\ (Has(b, "encoding") \/ x["encoding"] = "")
  BY <1>1, SentTells, Zenon
<1>5. Tells(c, x) /\ (Has(c, "mid") \/ x["mid"] = "")
  BY <1>1, SentTells, Zenon
<1>6. Tells(d, x) /\ (Has(d, "data") \/ x["data"] = "")
  BY <1>1, SentTells, Zenon
<1> HIDE DEF a, b, c, d
<1>7. Tells(a \o b, x) /\ \A f \in {"type", "encoding"} : Has(a \o b, f) \/ x[f] = ""
  BY <1>1, <1>3, <1>4, JoinTells, Zenon
<1>8. /\ Tells((a \o b) \o c, x)
      /\ \A f \in {"type", "encoding", "mid"} : Has((a \o b) \o c, f) \/ x[f] = ""
  BY <1>1, <1>5, <1>7, JoinTells, Zenon
<1>9. Tells(w, x) /\ \A f \in {"type", "encoding", "mid", "data"} : Has(w, f) \/ x[f] = ""
  BY <1>1, <1>6, <1>8, JoinTells, Zenon
<1> HIDE DEF w
<1>10. \A f \in Field : Has(w, f) \/ x[f] = ""
  BY <1>1, <1>9, Fields, Zenon
<1>11. w \in Seq(Cell) /\ \A k \in 1..Len(w) : w[k].value = x[w[k].field]
  BY <1>9, Zenon DEF Tells
<1>12. Filled(w) = x
  BY <1>1, <1>10, <1>11, FilledIs, Zenon
<1> QED
  BY <1>2, <1>9, <1>12, Zenon DEF x

---------------------------------------------------------------------------
(* The theorems.                                                           *)

\* An envelope is encoded once and decoded once.
THEOREM Invariance == Spec => []Inv
<1>1. Init => Inv
  <2> SUFFICES ASSUME Init PROVE Inv
    OBVIOUS
  <2>1. codec \in {"json", "protobuf"}
    BY DEF Init, NewProtocolManager
  <2>2. limit \in Nat
    BY DEF Init
  <2> QED
    BY <2>1, <2>2 DEF Init, Inv
<1>2. Inv /\ [Next]_vars => Inv'
  <2> SUFFICES ASSUME Inv, [Next]_vars PROVE Inv'
    OBVIOUS
  <2>1. CASE EncodeMessage
    BY <2>1 DEF EncodeMessage, Inv
  <2>2. CASE DecodeMessage
    BY <2>2 DEF DecodeMessage, Inv
  <2>3. CASE UNCHANGED vars
    BY <2>3 DEF vars, Inv
  <2> QED
    BY <2>1, <2>2, <2>3 DEF Next
<1> QED
  BY <1>1, <1>2, PTL DEF Spec

\* What JSONCodec decodes without an error is the envelope that was encoded,
\* wherever the limit cuts.
THEOREM JsonRoundTrip == Spec => []JsonFaithful
<1>1. ASSUME Inv, Decoded("json") PROVE out.env = env
  <2>1. /\ env \in Envelope /\ limit \in Nat /\ wire = JsonEncode(env)
        /\ out = JsonDecode(wire, limit) /\ ~out.err
    BY <1>1 DEF Inv, Decoded
  <2> DEFINE q == Limit(wire, limit)
  <2>2. ~(q = <<>> \/ q[Len(q)] # Brace) /\ out.env = Filled(q)
    BY <2>1, Zenon DEF JsonDecode, Failed
  <2>3. q = wire
    BY <2>1, <2>2, JsonCut, Zenon
  <2> QED
    BY <2>1, <2>2, <2>3, JsonWire
<1>2. Inv => JsonFaithful
  BY <1>1 DEF JsonFaithful
<1> QED
  BY <1>2, Invariance, PTL

\* ProtobufCodec keeps type, encoding, mid and data of an envelope whose type
\* it knows.
THEOREM ProtobufRoundTrip == Spec => []ProtobufKeeps
<1>1. ASSUME Inv, Decoded("protobuf"), Len(wire) <= limit, ToPBMsgType(env.type) = env.type,
             NEW f \in Field \ {"from"}
      PROVE  out.env[f] = env[f]
  <2>1. /\ env \in Envelope /\ limit \in Nat /\ wire = ProtobufEncode(env)
        /\ out = ProtobufDecode(wire, limit) /\ ~out.err
    BY <1>1 DEF Inv, Decoded
  <2>2. wire \in Seq(Cell) /\ Filled(wire) = Carried(env)
    BY <2>1, ProtobufTells DEF Tells
  <2>3. Limited(wire, limit) = wire
    BY <1>1, <2>1, <2>2, NotCut
  <2>4. out.env = Carried(env)
    BY <2>1, <2>2, <2>3 DEF ProtobufDecode, Failed
  <2>5. ToPBEncoding(env["encoding"]) = env["encoding"]
    BY <2>1, Zenon DEF Envelope, ToPBEncoding
  <2>6. /\ Carried(env)["type"] = env["type"] /\ Carried(env)["encoding"] = env["encoding"]
        /\ Carried(env)["mid"] = env["mid"] /\ Carried(env)["data"] = env["data"]
    BY <1>1, <2>5 DEF Carried
  <2>7. f \in {"type", "encoding", "mid", "data"}
    BY Fields
  <2> QED
    BY <2>4, <2>6, <2>7, Zenon
<1>2. Inv => ProtobufKeeps
  BY <1>1, Zenon DEF ProtobufKeeps
<1> QED
  BY <1>2, Invariance, PTL

\* What the message factory creates passes both codecs with its type.
THEOREM CreatedPasses == Spec => []CreatedArrives
<1>1. ASSUME Inv, pc = "done", env \in Created, limit >= Len(wire)
      PROVE  ~out.err /\ out.env.type = env.type
  <2>1. env \in Envelope /\ limit \in Nat
    BY <1>1 DEF Inv
  <2>2. /\ env.type # "" /\ ToPBMsgType(env.type) = env.type
    BY <1>1, Zenon DEF Created, ToPBMsgType, MessageType
  <2>3. CASE codec = "json"
    <3>1. wire = JsonEncode(env) /\ out = JsonDecode(wire, limit)
      BY <1>1, <2>3 DEF Inv
    <3>2. /\ wire \in Seq(Cell) /\ wire # <<>> /\ wire[Len(wire)] = Brace
          /\ Filled(wire) = env
      BY <2>1, <3>1, JsonWire
    <3>3. Limit(wire, limit) = wire
      BY <1>1, <2>1, <3>2, LenProperties, NotCut
    <3>4. out = [err |-> FALSE, env |-> env]
      BY <2>2, <3>1, <3>2, <3>3, Zenon DEF JsonDecode
    <3> QED
      BY <3>4
  <2>4. CASE codec = "protobuf"
    <3>1. wire = ProtobufEncode(env) /\ out = ProtobufDecode(wire, limit)
      BY <1>1, <2>4 DEF Inv
    <3>2. Tells(wire, Carried(env)) /\ Filled(wire) = Carried(env)
      BY <2>1, <3>1, ProtobufTells
    <3>3. wire \in Seq(Cell) /\ (wire # <<>> => wire[Len(wire)].last)
      BY <3>2 DEF Tells
    <3>4. Limited(wire, limit) = wire
      BY <1>1, <2>1, <3>3, LenProperties, NotCut
    <3>5. out = [err |-> FALSE, env |-> Carried(env)]
      BY <3>1, <3>2, <3>3, <3>4 DEF ProtobufDecode
    <3>6. Carried(env).type = env.type
      BY <2>2, Zenon DEF Carried
    <3> QED
      BY <3>5, <3>6
  <2> QED
    BY <1>1, <2>3, <2>4 DEF Inv
<1>2. Inv => CreatedArrives
  BY <1>1 DEF CreatedArrives
<1> QED
  BY <1>2, Invariance, PTL
============================================================================
