------------------------------- MODULE Codec -------------------------------
(***************************************************************************)
(* An envelope on its way through a codec: it is encoded, at most          *)
(* MaxFrameSize of it are read, and it is decoded.  An encoding is a       *)
(* sequence of cells, the units in which it can be cut off; what the wire  *)
(* formats do inside a field is left out.                                  *)
(***************************************************************************)
EXTENDS Naturals, Sequences, Functions

CONSTANTS
  Text,      \* non-empty contents of fields
  MaxLimit   \* bound: limits are 0..MaxLimit

MessageType == {"nick", "text", "command", "file_meta", "file_chunk", "ack",
                "ping", "pong", "heartbeat"}
Encoding == {"json", "protobuf"}

\* "other" is any type the server has no constant for; mid stands for every
\* field that is copied as it is: version, mid, correlation id, time stamp.
Envelope ==
  [type : MessageType \cup {"other", ""}, encoding : Encoding \cup {""},
   mid : Text \cup {""}, from : Text \cup {""}, data : Text \cup {""}]

Empty == [type |-> "", encoding |-> "", mid |-> "", from |-> "", data |-> ""]

Field == DOMAIN Empty

\* Cell k of the n cells of a field; only data is long enough to be cut.
Cells(f, v) ==
  LET n == IF f = "data" THEN 2 ELSE 1 IN
  [k \in 1..n |-> [field |-> f, value |-> v, last |-> k = n]]

Brace == [field |-> "}", value |-> "", last |-> TRUE]

\* io.LimitReader.
Limited(wire, limit) == IF limit < Len(wire) THEN SubSeq(wire, 1, limit) ELSE wire

\* The limit of JSONCodec: none unless it is positive.
Limit(wire, limit) == IF limit > 0 THEN Limited(wire, limit) ELSE wire

\* The envelope whose fields are the ones in a sequence of cells.
Filled(cells) ==
  [f \in Field |->
     LET S == {c \in Range(cells) : c.field = f} IN
     IF S = {} THEN "" ELSE (CHOOSE c \in S : TRUE).value]

---------------------------------------------------------------------------
(* JSONCodec: every field but empty data, and a closing brace.             *)

JsonEncode(e) ==
  Cells("type", e.type) \o Cells("encoding", e.encoding) \o Cells("from", e.from)
    \o Cells("mid", e.mid)
    \o (IF e.data = "" THEN <<>> ELSE Cells("data", e.data)) \o <<Brace>>

Failed == [err |-> TRUE, env |-> Empty]

\* Nothing to peek at, an object that is not closed, or no type: an error.
JsonDecode(wire, limit) ==
  LET cells == Limit(wire, limit)
      e == Filled(cells)
  IN IF cells = <<>> \/ cells[Len(cells)] # Brace \/ e.type = ""
     THEN Failed
     ELSE [err |-> FALSE, env |-> e]

---------------------------------------------------------------------------
(* ProtobufCodec: the fields that are not empty; from is never set.        *)

\* The types for which there is an enum value; the others become the zero
\* value, which is not sent.
ToPBMsgType(t) == IF t \in MessageType \ {"nick", "heartbeat"} THEN t ELSE ""

ToPBEncoding(n) == IF n \in Encoding THEN n ELSE ""

Sent(f, v) == IF v = "" THEN <<>> ELSE Cells(f, v)

ProtobufEncode(e) ==
  Sent("type", ToPBMsgType(e.type)) \o Sent("encoding", ToPBEncoding(e.encoding))
    \o Sent("mid", e.mid) \o Sent("data", e.data)

\* One Read into a buffer of the limit's length, so a limit of 0 reads nothing.
\* Unmarshal accepts any whole number of fields, and none.
ProtobufDecode(wire, limit) ==
  LET cells == Limited(wire, limit) IN
  IF cells # <<>> /\ ~cells[Len(cells)].last
  THEN Failed
  ELSE [err |-> FALSE, env |-> Filled(cells)]

---------------------------------------------------------------------------
(* MessageFactory: what the server creates.  A nickname and a direct       *)
(* message are texts.                                                      *)

Created ==
  [type : {"text", "command", "ack", "ping", "pong"}, encoding : {"json"},
   mid : Text, from : {""}, data : Text]
  \cup
  [type : {"text", "file_meta", "file_chunk"}, encoding : {"json"},
   mid : Text, from : Text \cup {""}, data : Text]

---------------------------------------------------------------------------
(* Manager: the codec is chosen by number, and is JSON for an unknown one. *)

NewProtocolManager(number) == IF number = 1 THEN "protobuf" ELSE "json"

VARIABLES codec, limit, env, wire, out, pc

vars == <<codec, limit, env, wire, out, pc>>

Init ==
  /\ codec \in {NewProtocolManager(number) : number \in 0..2}
  /\ limit \in 0..MaxLimit
  /\ env \in Envelope
  /\ wire = <<>> /\ out = Failed
  /\ pc = "encode"

EncodeMessage ==
  /\ pc = "encode"
  /\ wire' = IF codec = "json" THEN JsonEncode(env) ELSE ProtobufEncode(env)
  /\ pc' = "decode"
  /\ UNCHANGED <<codec, limit, env, out>>

DecodeMessage ==
  /\ pc = "decode"
  /\ out' = IF codec = "json" THEN JsonDecode(wire, limit) ELSE ProtobufDecode(wire, limit)
  /\ pc' = "done"
  /\ UNCHANGED <<codec, limit, env, wire>>

Next == EncodeMessage \/ DecodeMessage

Spec == Init /\ [][Next]_vars

---------------------------------------------------------------------------
Decoded(c) == codec = c /\ pc = "done" /\ ~out.err

\* The JSON codec never returns anything but the envelope that was encoded,
\* however small the limit is: it reports an error instead.
JsonFaithful == Decoded("json") => out.env = env

\* The protobuf codec keeps type, encoding, mid and data of an envelope of a
\* type it has a value for, whenever it is within a positive limit.
ProtobufKeeps ==
  /\ Decoded("protobuf") /\ Len(wire) <= limit
  /\ env.type # "" /\ ToPBMsgType(env.type) = env.type
  => \A f \in Field \ {"from"} : out.env[f] = env[f]

\* A text message within the limit comes back from either codec with its type,
\* its id and its sender, as the codecs' round trip test expects.
TextRoundTrip ==
  pc = "done" /\ env.type = "text" /\ Len(wire) <= limit =>
    ~out.err /\ \A f \in {"type", "mid", "from"} : out.env[f] = env[f]

\* Whatever the server's message factory creates is decoded with its type by
\* both codecs, if it is within a positive limit.
CreatedArrives ==
  pc = "done" /\ env \in Created /\ limit >= Len(wire) =>
    ~out.err /\ out.env.type = env.type
============================================================================
