---------------------------- MODULE FrameStream ----------------------------
(***************************************************************************)
(* Length-prefixed frames over one direction of a TCP connection: several  *)
(* goroutines call WriteFrame, the bytes pass through a bounded buffer,    *)
(* and one goroutine reads frames: with FrameCodec, into pooled buffers,   *)
(* or as the example client does, which reads one frame.                   *)
(***************************************************************************)
EXTENDS Naturals, Sequences

CONSTANTS
  Writer,       \* goroutines that write to the connection
  Byte,         \* values of a byte
  Header,       \* bytes of the length prefix
  PutUint32(_), \* binary.BigEndian: a length as a header
  Uint32(_),    \* and the length a header stands for
  MaxSize,      \* MaxFrameSize
  PoolSize,     \* capacity of a new buffer of the pool
  Capacity,     \* bound: bytes between the two ends of the connection
  MaxFrames     \* bound: frames written

NoWriter == "none"

ASSUME FrameAssumption ==
  /\ NoWriter \notin Writer
  /\ 0 \in Byte /\ Header \in Nat \ {0}
  /\ {MaxSize, PoolSize, Capacity, MaxFrames} \subseteq Nat

\* What encoding/binary promises: headers for the lengths up to the limit, from
\* which they are read again.
ASSUME BinaryAssumption ==
  /\ \A n \in 0..MaxSize : PutUint32(n) \in [1..Header -> Byte] /\ Uint32(PutUint32(n)) = n
  /\ \A bytes \in [1..Header -> Byte] : Uint32(bytes) \in Nat

\* What is given to WriteFrame; the longest is too large.
Payload == UNION {[1..n -> Byte] : n \in 0..(MaxSize + 1)}

VARIABLES
  example,   \* the reader is the example client
  whole,     \* history: every Read of a header has returned all of it
  lock,      \* writeMu: its holder, or NoWriter
  wpc,       \* where each writer is
  payload,   \* its argument
  todo,      \* the bytes its conn.Write has still to write
  pipe,      \* bytes written and not read
  open,      \* the connection has not been closed
  rpc,       \* where the reader is
  got,       \* bytes of the header it has read
  length,    \* the length it has decoded
  filled,    \* how much of the buffer ReadFull has filled
  buf,       \* the reader's buffer, over its whole capacity
  pool,      \* the buffer in the pool: <<>> is a pool without one
  sent,      \* history: payloads in the order in which writing them began
  received   \* history: what ReadFrame returned

writers == <<lock, wpc, payload, todo, sent>>
reader == <<example, whole, rpc, got, length, filled, buf, pool, received>>
vars == <<writers, pipe, open, reader>>

TypeOK ==
  /\ example \in BOOLEAN /\ whole \in BOOLEAN
  /\ lock \in Writer \cup {NoWriter}
  /\ wpc \in [Writer -> {"idle", "lock", "header", "payload"}]
  /\ payload \in [Writer -> Seq(Byte)]
  /\ todo \in [Writer -> Seq(Byte)]
  /\ pipe \in Seq(Byte) /\ Len(pipe) <= Capacity
  /\ open \in BOOLEAN
  /\ rpc \in {"header", "get", "payload", "failed", "done"}
  /\ got \in Seq(Byte) /\ Len(got) <= Header
  /\ length \in Nat
  /\ filled \in 0..Len(buf)
  /\ buf \in Seq(Byte) /\ pool \in Seq(Byte)
  /\ sent \in Seq(Seq(Byte)) /\ received \in Seq(Seq(Byte))

Init ==
  /\ example \in BOOLEAN /\ whole = TRUE
  /\ lock = NoWriter
  /\ wpc = [w \in Writer |-> "idle"]
  /\ payload = [w \in Writer |-> <<>>]
  /\ todo = [w \in Writer |-> <<>>]
  /\ pipe = <<>> /\ open = TRUE
  /\ rpc = "header" /\ got = <<>> /\ length = 0 /\ filled = 0
  /\ buf = <<>> /\ pool = <<>>
  /\ sent = <<>> /\ received = <<>>

---------------------------------------------------------------------------
(* WriteFrame.                                                             *)

\* A payload that is too large is refused before anything is written.
WriteFrame(w, p) ==
  /\ wpc[w] = "idle" /\ Len(p) <= MaxSize
  /\ wpc' = [wpc EXCEPT ![w] = "lock"]
  /\ payload' = [payload EXCEPT ![w] = p]
  /\ UNCHANGED <<lock, todo, sent, pipe, open, reader>>

\* The lock is taken and conn.Write(header) begins.
Lock(w) ==
  /\ wpc[w] = "lock" /\ Len(sent) < MaxFrames
  /\ lock = NoWriter
  /\ lock' = w
  /\ wpc' = [wpc EXCEPT ![w] = "header"]
  /\ todo' = [todo EXCEPT ![w] = PutUint32(Len(payload[w]))]
  /\ sent' = Append(sent, payload[w])
  /\ UNCHANGED <<payload, pipe, open, reader>>

\* The connection takes bytes as long as there is room for them.
Write(w) ==
  /\ open /\ todo[w] # <<>> /\ Len(pipe) < Capacity
  /\ pipe' = Append(pipe, Head(todo[w]))
  /\ todo' = [todo EXCEPT ![w] = Tail(@)]
  /\ UNCHANGED <<lock, wpc, payload, sent, open, reader>>

HeaderWritten(w) ==
  /\ wpc[w] = "header" /\ todo[w] = <<>>
  /\ wpc' = [wpc EXCEPT ![w] = "payload"]
  /\ todo' = [todo EXCEPT ![w] = payload[w]]
  /\ UNCHANGED <<lock, payload, sent, pipe, open, reader>>

Return(w) ==
  /\ wpc' = [wpc EXCEPT ![w] = "idle"]
  /\ payload' = [payload EXCEPT ![w] = <<>>]
  /\ todo' = [todo EXCEPT ![w] = <<>>]
  /\ UNCHANGED <<sent, pipe, open, reader>>

FrameWritten(w) ==
  /\ wpc[w] = "payload" /\ todo[w] = <<>>
  /\ lock' = NoWriter
  /\ Return(w)

\* Faulty variant of WriteFails: an early return without Unlock.
WriteFailsLocked(w) ==
  /\ ~open /\ todo[w] # <<>>
  /\ UNCHANGED lock
  /\ Return(w)

\* A write fails; the deferred Unlock runs here as well.
WriteFails(w) ==
  /\ ~open /\ todo[w] # <<>>
  /\ lock' = NoWriter
  /\ Return(w)

\* The connection is closed, by either end.
Close ==
  /\ open
  /\ open' = FALSE
  /\ UNCHANGED <<writers, pipe, reader>>

---------------------------------------------------------------------------
(* ReadFrame.                                                              *)

Zeros(n) == [i \in 1..n |-> 0]

\* io.ReadFull(conn, header): reads until the header is complete.
ReadHeader ==
  /\ ~example
  /\ rpc = "header" /\ Len(got) < Header /\ pipe # <<>>
  /\ got' = Append(got, Head(pipe))
  /\ pipe' = Tail(pipe)
  /\ UNCHANGED <<writers, open, example, whole, rpc, length, filled, buf, pool, received>>

\* Faulty variant of Accepts: the limit itself is refused.
AcceptsBelow(n) == n > 0 /\ n < MaxSize

\* The check of the length.
Accepts(n) == n > 0 /\ n <= MaxSize

CheckLength ==
  /\ ~example /\ rpc = "header" /\ Len(got) = Header
  /\ length' = Uint32(got)
  /\ rpc' = IF Accepts(length') THEN "get" ELSE "failed"
  /\ UNCHANGED <<writers, pipe, open, example, whole, got, filled, buf, pool, received>>

\* A buffer of the pool, with what was read into it before, or a new one; one
\* that is too small is replaced.
GetBuffer ==
  /\ rpc = "get"
  /\ \E b \in {pool, Zeros(PoolSize)} :
       buf' = IF Len(b) < length THEN Zeros(length) ELSE b
  /\ pool' = <<>>
  /\ filled' = 0
  /\ rpc' = "payload"
  /\ UNCHANGED <<writers, pipe, open, example, whole, got, length, received>>

ReadPayload ==
  /\ rpc = "payload" /\ filled < length /\ pipe # <<>>
  /\ buf' = [buf EXCEPT ![filled + 1] = Head(pipe)]
  /\ filled' = filled + 1
  /\ pipe' = Tail(pipe)
  /\ UNCHANGED <<writers, open, example, whole, rpc, got, length, pool, received>>

\* Faulty variant of Copy: the whole buffer is returned.
CopyAll ==
  /\ ~example /\ rpc = "payload" /\ filled = length
  /\ received' = Append(received, buf)
  /\ pool' = buf
  /\ got' = <<>>
  /\ rpc' = "header"
  /\ UNCHANGED <<writers, pipe, open, example, whole, length, filled, buf>>

\* ReadFrame returns a copy, and the buffer goes back to the pool.
Copy ==
  /\ ~example /\ rpc = "payload" /\ filled = length
  /\ received' = Append(received, SubSeq(buf, 1, length))
  /\ pool' = buf
  /\ got' = <<>>
  /\ rpc' = "header"
  /\ UNCHANGED <<writers, pipe, open, example, whole, length, filled, buf>>

\* The example client's readFrame: one Read for the header, which takes what
\* is there and leaves the rest of it zero; no length is refused.
ExampleHeader(n) ==
  /\ example /\ rpc = "header"
  /\ n <= Len(pipe)
  /\ length' = Uint32(SubSeq(pipe, 1, n) \o Zeros(Header - n))
  /\ whole' = (n = Header)
  /\ pipe' = SubSeq(pipe, n + 1, Len(pipe))
  /\ buf' = Zeros(length')
  /\ rpc' = "payload"
  /\ UNCHANGED <<writers, open, example, got, filled, pool, received>>

\* The welcome has been read, and the client reads no more.
ExampleReturns ==
  /\ example /\ rpc = "payload" /\ filled = length
  /\ received' = Append(received, buf)
  /\ rpc' = "done"
  /\ UNCHANGED <<writers, pipe, open, example, whole, got, length, filled, buf, pool>>

\* A read fails: the other end closed and nothing is left, or this end closed.
\* A read deadline that expires is the second case: readLoop returns and closes
\* the connection, which is Close and then this step.
ReadFails ==
  /\ ~open
  /\ rpc \in {"header", "payload"}
  /\ rpc' = "failed"
  /\ UNCHANGED <<writers, pipe, open, example, whole, got, length, filled, buf, pool, received>>

---------------------------------------------------------------------------
WriterStep(w) == Write(w) \/ HeaderWritten(w) \/ FrameWritten(w) \/ WriteFails(w)

ReaderStep ==
  ReadHeader \/ CheckLength \/ GetBuffer \/ ReadPayload \/ Copy
    \/ ExampleReturns \/ (\E n \in 1..Header : ExampleHeader(n)) \/ ReadFails

Next ==
  \/ \E w \in Writer : WriterStep(w) \/ Lock(w) \/ \E p \in Payload : WriteFrame(w, p)
  \/ ReaderStep
  \/ Close

\* Goroutines run; a mutex is not withheld for ever from one that waits for it.
Fairness ==
  /\ \A w \in Writer : WF_vars(WriterStep(w)) /\ SF_vars(Lock(w))
  /\ WF_vars(ReaderStep)

SafetySpec == Init /\ [][Next]_vars
Spec == SafetySpec /\ Fairness

---------------------------------------------------------------------------
\* "4字节长度前缀 + 消息内容": what is read are the payloads that were written, each
\* whole and in the order of the writers' turns, however the bytes are cut up
\* on the way and whatever the buffers of the pool held before.  Of the example
\* client that is true if its one Read for a header returned all of it.
FramesIntact ==
  whole => /\ Len(received) <= Len(sent)
           /\ \A i \in 1..Len(received) : received[i] = sent[i]

\* WriteFrame and ReadFrame agree on the limit: on a connection that is open
\* ReadFrame refuses nothing but a frame without content.
RefusesOnlyEmpty ==
  rpc = "failed" /\ open => sent[Len(received) + 1] = <<>>

\* A writer always gets out of WriteFrame, as long as the other end reads or
\* the connection is closed.
WritersReturn ==
  \A w \in Writer :
    wpc[w] # "idle" ~>
      \/ wpc[w] = "idle"
      \/ rpc \in {"failed", "done"} /\ open
      \/ wpc[w] = "lock" /\ Len(sent) = MaxFrames
============================================================================
