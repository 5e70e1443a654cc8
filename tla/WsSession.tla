----------------------------- MODULE WsSession -----------------------------
(***************************************************************************)
(* The life of WebSocket sessions.  The request goroutine opens a session  *)
(* with the gateway, sets the read deadline and starts two goroutines: a   *)
(* pinger that only ends with closeChan, and the read loop, which alone    *)
(* closes the session.  The deadline is moved by pongs and by nothing      *)
(* else, and pongs are only seen by a read loop that is reading.           *)
(* The gateway's one-time registration of handlers is in TcpSession; here  *)
(* a session that gets to its read loop finds the ping handler.            *)
(***************************************************************************)
EXTENDS Integers, Sequences, FiniteSets

CONSTANTS
  Session,     \* the connections that may arrive, by session id
  Timeout,     \* the read deadline, in ping intervals
  MaxIn,       \* bound: frames sent by a peer and not yet read
  SockBuf      \* bound: frames written to a peer and not yet taken

ASSUME WsAssumption ==
  Timeout \in Nat \ {0} /\ MaxIn \in Nat \ {0} /\ SockBuf \in Nat \ {0}

Goroutine == {"request", "reader", "pinger"}

\* What a peer sends: an envelope with a ping; any other text, decoded or
\* legacy, for which the gateway has no handler; a binary message; the pong
\* control frame; the close control frame.
Frame == {"ping", "text", "binary", "pong", "close"}

VARIABLES
  ctxDone,     \* the context given to Start is cancelled
  serving,     \* http.Server accepts requests
  sm,          \* SessionManager: the registered sessions
  count,       \* SessionManager.count
  pc,          \* where each goroutine stands
  conn,        \* websocket.Conn: none, open, eof (peer gone), closed (by us)
  inq,         \* frames the peer sent and the read loop has not read
  outq,        \* frames in the socket's send buffer
  writeErr,    \* a write failed, and so does every later one
  closeChan,   \* wsSession.closeChan is closed
  ttl,         \* ping intervals until the read deadline
  due,         \* a tick waits in the pinger's channel
  prompt,      \* the peer reads and answers pings within seconds
  removed      \* history: sessions SessionManager.Remove was called for

gwVars   == <<sm, count, removed>>
connVars == <<conn, inq, outq, writeErr, closeChan, prompt>>
timeVars == <<ttl, due>>
srvVars  == <<ctxDone, serving>>
vars     == <<srvVars, gwVars, pc, connVars, timeVars>>

Label == {"none", "add", "count", "welcome", "setup", "read", "pong", "wait",
          "onclose", "shut", "remove", "uncount", "done"}

TypeOK ==
  /\ ctxDone \in BOOLEAN /\ serving \in BOOLEAN
  /\ sm \subseteq Session /\ removed \subseteq Session
  /\ count \in Int
  /\ pc \in [Session -> [Goroutine -> Label]]
  /\ conn \in [Session -> {"none", "open", "eof", "closed"}]
  /\ inq \in [Session -> Seq(Frame)]
  /\ outq \in [Session -> Seq({"data", "ping"})]
  /\ \A s \in Session : Len(outq[s]) <= SockBuf
  /\ writeErr \in [Session -> BOOLEAN]
  /\ closeChan \in [Session -> BOOLEAN]
  /\ ttl \in [Session -> 0..Timeout]
  /\ due \in [Session -> BOOLEAN]
  /\ prompt \in [Session -> BOOLEAN]

Init ==
  /\ ctxDone = FALSE /\ serving = TRUE
  /\ sm = {} /\ count = 0 /\ removed = {}
  /\ pc = [s \in Session |-> [g \in Goroutine |-> "none"]]
  /\ conn = [s \in Session |-> "none"]
  /\ inq = [s \in Session |-> <<>>]
  /\ outq = [s \in Session |-> <<>>]
  /\ writeErr = [s \in Session |-> FALSE]
  /\ closeChan = [s \in Session |-> FALSE]
  /\ ttl = [s \in Session |-> Timeout]
  /\ due = [s \in Session |-> FALSE]
  /\ prompt \in [Session -> BOOLEAN]

At(s, g, l) == pc[s][g] = l
Goto(s, g, l) == pc' = [pc EXCEPT ![s][g] = l]

---------------------------------------------------------------------------
(* The server.                                                             *)

Cancel ==
  /\ ~ctxDone
  /\ ctxDone' = TRUE
  /\ UNCHANGED <<serving, gwVars, pc, connVars, timeVars>>

\* server.Shutdown closes the listener.  Upgraded connections are hijacked:
\* it neither closes them nor waits for them.
Shutdown ==
  /\ ctxDone /\ serving
  /\ serving' = FALSE
  /\ UNCHANGED <<ctxDone, gwVars, pc, connVars, timeVars>>

\* Faulty variant of Upgrade: the read loop starts before OnSessionOpen.
UpgradeReads(s) ==
  /\ serving /\ At(s, "request", "none")
  /\ conn' = [conn EXCEPT ![s] = "open"]
  /\ pc' = [pc EXCEPT ![s]["request"] = "add", ![s]["reader"] = "read"]
  /\ UNCHANGED <<srvVars, gwVars, inq, outq, writeErr, closeChan, prompt, timeVars>>

\* A request is upgraded; one that fails to be leaves no session.
Upgrade(s) ==
  /\ serving /\ At(s, "request", "none")
  /\ conn' = [conn EXCEPT ![s] = "open"]
  /\ Goto(s, "request", "add")
  /\ UNCHANGED <<srvVars, gwVars, inq, outq, writeErr, closeChan, prompt, timeVars>>

---------------------------------------------------------------------------
(* handleConnection: OnSessionOpen, setupHeartbeat, start of the read loop.*)

AddContext(s) ==
  /\ At(s, "request", "add")
  /\ sm' = sm \cup {s}
  /\ Goto(s, "request", "count")
  /\ UNCHANGED <<srvVars, count, removed, connVars, timeVars>>

AddCount(s) ==
  /\ At(s, "request", "count")
  /\ count' = count + 1
  /\ Goto(s, "request", "welcome")
  /\ UNCHANGED <<srvVars, sm, removed, connVars, timeVars>>

\* SessionContext.Send and wsSession.SendEnvelope.  No write deadline is set:
\* the write waits while the peer leaves the socket buffer full.  The callers
\* only log an error.  (Only the goroutine that closes the session sends, so
\* SessionContext.closed never refuses one.)
Send(s) ==
  IF conn[s] # "open" \/ writeErr[s]
  THEN UNCHANGED outq
  ELSE /\ Len(outq[s]) < SockBuf
       /\ outq' = [outq EXCEPT ![s] = Append(@, "data")]

Welcome(s) ==
  /\ At(s, "request", "welcome")
  /\ Send(s)
  /\ Goto(s, "request", "setup")
  /\ UNCHANGED <<srvVars, gwVars, conn, inq, writeErr, closeChan, prompt, timeVars>>

\* setupHeartbeat sets the first deadline and starts the pinger; then the
\* read loop starts and the request is over.
Setup(s) ==
  /\ At(s, "request", "setup")
  /\ ttl' = [ttl EXCEPT ![s] = Timeout]
  /\ pc' = [pc EXCEPT ![s] =
              [request |-> "done", reader |-> "read", pinger |-> "wait"]]
  /\ UNCHANGED <<srvVars, gwVars, connVars, due>>

---------------------------------------------------------------------------
(* The pinger.                                                             *)

\* WriteControl with a deadline of its own, its error ignored.  It has no
\* effect on a connection that is gone or while a data frame that waits for
\* the peer has the connection; on a full socket buffer its write times out,
\* and that ends all writing.  A prompt peer makes room before that.
Ping(s) ==
  /\ At(s, "pinger", "wait") /\ due[s]
  /\ due' = [due EXCEPT ![s] = FALSE]
  /\ LET dead == conn[s] # "open" \/ writeErr[s]
         full == Len(outq[s]) = SockBuf
     IN \/ /\ dead \/ (full /\ ~prompt[s] /\ At(s, "reader", "pong"))
           /\ UNCHANGED <<outq, writeErr>>
        \/ /\ ~dead /\ full /\ ~prompt[s]
           /\ writeErr' = [writeErr EXCEPT ![s] = TRUE]
           /\ UNCHANGED outq
        \/ /\ ~dead /\ ~full
           /\ outq' = [outq EXCEPT ![s] = Append(@, "ping")]
           /\ UNCHANGED writeErr
  /\ UNCHANGED <<srvVars, gwVars, pc, conn, inq, closeChan, prompt, ttl>>

\* Faulty variant of PingerEnds: the pinger only waits for ticks.
PingerStays(s) == FALSE

PingerEnds(s) ==
  /\ At(s, "pinger", "wait") /\ closeChan[s]
  /\ Goto(s, "pinger", "done")
  /\ UNCHANGED <<srvVars, gwVars, connVars, timeVars>>

---------------------------------------------------------------------------
(* readLoop.                                                               *)

\* Faulty variant of Extend: no pong handler is installed.
ExtendNot(s) == UNCHANGED ttl

\* The pong handler moves the deadline.
Extend(s) == ttl' = [ttl EXCEPT ![s] = Timeout]

\* ReadMessage.  A frame that was buffered before the deadline may still be
\* read after it.  A ping envelope is dispatched to the ping handler; other
\* text has no handler, a binary message is skipped, a pong is handled inside
\* the read.
ReadMessage(s) ==
  /\ At(s, "reader", "read") /\ inq[s] # <<>>
  /\ inq' = [inq EXCEPT ![s] = Tail(@)]
  /\ LET f == Head(inq[s]) IN
       /\ Goto(s, "reader", IF f = "close" THEN "onclose"
                         ELSE IF f = "ping" THEN "pong" ELSE "read")
       /\ IF f = "pong" THEN Extend(s) ELSE UNCHANGED ttl
  /\ UNCHANGED <<srvVars, gwVars, conn, outq, writeErr, closeChan, prompt, due>>

\* Faulty variant of ReadFails: setupHeartbeat sets no deadline.
ReadFailsAtEOF(s) ==
  /\ At(s, "reader", "read") /\ conn[s] = "eof" /\ inq[s] = <<>>
  /\ Goto(s, "reader", "onclose")
  /\ UNCHANGED <<srvVars, gwVars, connVars, timeVars>>

\* The peer is gone, or the deadline has passed.
ReadFails(s) ==
  /\ At(s, "reader", "read")
  /\ (conn[s] = "eof" /\ inq[s] = <<>>) \/ ttl[s] = 0
  /\ Goto(s, "reader", "onclose")
  /\ UNCHANGED <<srvVars, gwVars, connVars, timeVars>>

\* The ping handler's answer.
Pong(s) ==
  /\ At(s, "reader", "pong")
  /\ Send(s)
  /\ Goto(s, "reader", "read")
  /\ UNCHANGED <<srvVars, gwVars, conn, inq, writeErr, closeChan, prompt, timeVars>>

\* readLoop's defer: OnSessionClose closes the connection and closeChan and
\* removes the session from the manager; the Close after it does nothing.
OnSessionClose(s) ==
  /\ At(s, "reader", "onclose")
  /\ conn' = [conn EXCEPT ![s] = "closed"]
  /\ inq' = [inq EXCEPT ![s] = <<>>]
  /\ outq' = [outq EXCEPT ![s] = <<>>]
  /\ Goto(s, "reader", "shut")
  /\ UNCHANGED <<srvVars, gwVars, writeErr, closeChan, prompt, timeVars>>

CloseChan(s) ==
  /\ At(s, "reader", "shut")
  /\ closeChan' = [closeChan EXCEPT ![s] = TRUE]
  /\ Goto(s, "reader", "remove")
  /\ UNCHANGED <<srvVars, gwVars, conn, inq, outq, writeErr, prompt, timeVars>>

Remove(s) ==
  /\ At(s, "reader", "remove")
  /\ sm' = sm \ {s}
  /\ removed' = removed \cup {s}
  /\ Goto(s, "reader", "uncount")
  /\ UNCHANGED <<srvVars, count, connVars, timeVars>>

\* Faulty variant of RemoveCount: counts only what is still in the map.
RemoveCountIfThere(s) ==
  /\ At(s, "reader", "uncount")
  /\ count' = IF s \in sm THEN count - 1 ELSE count
  /\ Goto(s, "reader", "done")
  /\ UNCHANGED <<srvVars, sm, removed, connVars, timeVars>>

RemoveCount(s) ==
  /\ At(s, "reader", "uncount")
  /\ count' = count - 1
  /\ Goto(s, "reader", "done")
  /\ UNCHANGED <<srvVars, sm, removed, connVars, timeVars>>

---------------------------------------------------------------------------
(* The environment: the peer and the clock.                                *)

\* What arrives after the deadline is never read.
PeerSend(s, f) ==
  /\ conn[s] = "open" /\ Len(inq[s]) < MaxIn /\ ttl[s] > 0
  /\ inq' = [inq EXCEPT ![s] = Append(@, f)]
  /\ UNCHANGED <<srvVars, gwVars, pc, conn, outq, writeErr, closeChan, prompt,
                 timeVars>>

\* A prompt peer answers a ping with a pong, another one may.
PeerRead(s) ==
  /\ conn[s] = "open" /\ outq[s] # <<>>
  /\ outq' = [outq EXCEPT ![s] = Tail(@)]
  /\ \/ /\ Head(outq[s]) = "data" \/ ~prompt[s]
        /\ UNCHANGED inq
     \/ /\ Head(outq[s]) = "ping" /\ Len(inq[s]) < MaxIn /\ ttl[s] > 0
        /\ inq' = [inq EXCEPT ![s] = Append(@, "pong")]
  /\ UNCHANGED <<srvVars, gwVars, pc, conn, writeErr, closeChan, prompt, timeVars>>

PeerClose(s) ==
  /\ conn[s] = "open"
  /\ conn' = [conn EXCEPT ![s] = "eof"]
  /\ inq' = inq \/ inq' = [inq EXCEPT ![s] = <<>>]
  /\ UNCHANGED <<srvVars, gwVars, pc, outq, writeErr, closeChan, prompt, timeVars>>

\* Nothing is under way between the server and the peer.
Settled(s) ==
  ~due[s] /\ outq[s] = <<>> /\ inq[s] = <<>> /\ At(s, "reader", "read")

\* One ping interval passes.  With a prompt peer everything of the interval
\* before has been dealt with.
Tick(s) ==
  /\ At(s, "pinger", "wait")
  /\ prompt[s] /\ conn[s] = "open" => Settled(s)
  /\ ttl' = [ttl EXCEPT ![s] = IF @ > 0 THEN @ - 1 ELSE 0]
  /\ due' = [due EXCEPT ![s] = TRUE]
  /\ UNCHANGED <<srvVars, gwVars, pc, connVars>>

---------------------------------------------------------------------------
RequestStep(s) == AddContext(s) \/ AddCount(s) \/ Welcome(s) \/ Setup(s)

ReaderStep(s) ==
  \/ ReadMessage(s) \/ ReadFails(s) \/ Pong(s)
  \/ OnSessionClose(s) \/ CloseChan(s) \/ Remove(s) \/ RemoveCount(s)

PingerStep(s) == Ping(s) \/ PingerEnds(s)

Environment(s) ==
  \/ Upgrade(s) \/ PeerRead(s) \/ PeerClose(s) \/ Tick(s)
  \/ \E f \in Frame : PeerSend(s, f)

Finished(s) == \A g \in Goroutine : At(s, g, "done")

Terminated ==
  /\ ctxDone /\ ~serving
  /\ \A s \in Session : Finished(s) \/ At(s, "request", "none")
  /\ UNCHANGED vars

Next ==
  \/ Cancel \/ Shutdown \/ Terminated
  \/ \E s \in Session :
       RequestStep(s) \/ ReaderStep(s) \/ PingerStep(s) \/ Environment(s)

\* Go schedules every runnable goroutine, and time passes.  Nothing is
\* assumed of the peer.
Fairness ==
  /\ WF_vars(Shutdown)
  /\ \A s \in Session :
       /\ WF_vars(RequestStep(s))
       /\ WF_vars(ReaderStep(s))
       /\ WF_vars(PingerEnds(s))
       /\ WF_vars(Ping(s))
       /\ WF_vars(Tick(s))

SafetySpec == Init /\ [][Next]_vars
Spec == SafetySpec /\ Fairness

---------------------------------------------------------------------------
(* Properties.                                                             *)

\* SessionManager.Count is exact but for the AddContext and Remove calls under
\* way: over WebSocket only the read loop reports a session closed.
CountExact ==
  count = Cardinality(sm)
          - Cardinality({s \in Session : At(s, "request", "count")})
          + Cardinality({s \in Session : At(s, "reader", "uncount")})

\* A peer that answers every ping within an interval never runs into the
\* read deadline, whatever else it sends or is sent, provided the deadline is
\* longer than the interval.
PromptStays ==
  Timeout > 1 => \A s \in Session :
    prompt[s] /\ conn[s] = "open" /\ At(s, "reader", "read") => ttl[s] > 0

\* A session whose deadline has passed without a pong is torn down, unless
\* a pong was read after all or the read loop is held in a write.
SilentReaped ==
  \A s \in Session :
    ttl[s] = 0 ~> Finished(s) \/ ttl[s] > 0 \/ At(s, "reader", "pong")

\* The pinger, which never sees an error, ends with its session.
PingerStops ==
  \A s \in Session : At(s, "reader", "done") ~> At(s, "pinger", "done")

Lifecycles == INSTANCE SessionLifecycle WITH
  live   <- sm,
  closed <- {s \in Session : conn[s] = "closed"},
  gone   <- removed

\* The WebSocket transport keeps the same promises as the TCP transport:
\* registered once, closed before it is removed, removed once closed.
ImplementsLifecycle == Lifecycles!Spec
============================================================================
