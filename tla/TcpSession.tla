---------------------------- MODULE TcpSession ----------------------------
(***************************************************************************)
(* The life of TCP sessions: TCPServer.Start accepts connections, each     *)
(* connection runs three goroutines (handleConnection with its readLoop,   *)
(* lifecycleWatcher, heartbeatWatcher), and all of them meet in the        *)
(* session's two sync.Once closers, in SimpleGateway and in its            *)
(* SessionManager.  One action is one step no other goroutine can observe  *)
(* the inside of; pc[s][g] is where goroutine g of session s stands.       *)
(***************************************************************************)
EXTENDS Integers, Sequences, FiniteSets

CONSTANTS
  Session,            \* the connections that may arrive, by session id
  HeartbeatTimeout,   \* in heartbeat intervals; 0: heartbeat checks are off
  ReadTimeout,        \* whether a read deadline is set on the connection
  MaxIn,              \* bound: frames sent by a peer and not yet read
  SockBuf             \* bound: frames written to a peer and not yet taken

ASSUME TcpAssumption ==
  /\ "idle" \notin Session /\ "done" \notin Session
  /\ HeartbeatTimeout \in Nat
  /\ ReadTimeout \in BOOLEAN
  /\ MaxIn \in Nat \ {0}
  /\ SockBuf \in Nat \ {0}

Goroutine == {"handler", "lifecycle", "heartbeat"}

\* What a received frame can turn out to be: a message for the gateway (a
\* ping, or of a type without a handler), a heartbeat, a frame the codec
\* rejects, an invalid length prefix.
Message == {"ping", "text"}
Frame == Message \cup {"heartbeat", "garbage", "badlen"}

VARIABLES
  ctxDone,     \* the context given to Start is cancelled
  serving,     \* the accept loop of Start is running
  sm,          \* SessionManager: the registered sessions
  count,       \* SessionManager.count
  initOnce,    \* SimpleGateway.initOnce
  handlers,    \* dispatcher.handlers: the registered message types
  pc,          \* where each goroutine stands
  conn,        \* net.Conn: none, open, eof (peer gone), closed (by us)
  inq,         \* frames the peer sent and the server has not read
  outq,        \* number of frames in the socket's send buffer
  msg,         \* the message readLoop last passed to the gateway
  scClosed,    \* SessionContext.closed
  scOnce,      \* SessionContext.closeOnce
  sOnce,       \* tcpSession.closeOnce
  closeChan,   \* tcpSession.closeChan
  age,         \* heartbeat intervals since lastActive was stored
  due,         \* a tick waits in the heartbeat ticker's channel
  removed      \* history: sessions SessionManager.Remove was called for

gwVars   == <<sm, count, initOnce, handlers, removed>>
connVars == <<conn, inq, outq, msg>>
onceVars == <<scClosed, scOnce, sOnce, closeChan>>
timeVars == <<age, due>>
srvVars  == <<ctxDone, serving>>
vars     == <<srvVars, gwVars, pc, connVars, onceVars, timeVars>>

Label == {"none", "add", "count", "init", "register", "welcome", "spawn",
          "read", "dispatch", "pong", "select", "wait",
          "onclose", "sclose", "shut", "remove", "uncount", "done"}

\* A sync.Once is idle, held by the caller running its function, or done.
TypeOK ==
  /\ ctxDone \in BOOLEAN /\ serving \in BOOLEAN
  /\ sm \in SUBSET Session /\ removed \in SUBSET Session
  /\ count \in Int
  /\ initOnce \in Session \cup {"idle", "done"}
  /\ handlers \in SUBSET {"ping"}
  /\ pc \in [Session -> [Goroutine -> Label]]
  /\ conn \in [Session -> {"none", "open", "eof", "closed"}]
  /\ inq \in [Session -> Seq(Frame)]
  /\ outq \in [Session -> 0..SockBuf]
  /\ msg \in [Session -> Message]
  /\ scClosed \in [Session -> BOOLEAN]
  /\ scOnce \in [Session -> Goroutine \cup {"idle", "done"}]
  /\ sOnce \in [Session -> Goroutine \cup {"idle", "done"}]
  /\ closeChan \in [Session -> {"open", "closed", "panic"}]
  /\ age \in [Session -> 0..(HeartbeatTimeout + 1)]
  /\ due \in [Session -> BOOLEAN]

Init ==
  /\ ctxDone = FALSE /\ serving = TRUE
  /\ sm = {} /\ count = 0 /\ removed = {}
  /\ initOnce = "idle" /\ handlers = {}
  /\ pc = [s \in Session |-> [g \in Goroutine |-> "none"]]
  /\ conn = [s \in Session |-> "none"]
  /\ inq = [s \in Session |-> <<>>]
  /\ outq = [s \in Session |-> 0]
  /\ msg = [s \in Session |-> "text"]
  /\ scClosed = [s \in Session |-> FALSE]
  /\ scOnce = [s \in Session |-> "idle"]
  /\ sOnce = [s \in Session |-> "idle"]
  /\ closeChan = [s \in Session |-> "open"]
  /\ age = [s \in Session |-> 0]
  /\ due = [s \in Session |-> FALSE]

At(s, g, l) == pc[s][g] = l
Goto(s, g, l) == pc' = [pc EXCEPT ![s][g] = l]

---------------------------------------------------------------------------
(* The server: accepting, and the shutdown goroutine of Start.             *)

Cancel ==
  /\ ~ctxDone
  /\ ctxDone' = TRUE
  /\ UNCHANGED <<serving, gwVars, pc, connVars, onceVars, timeVars>>

\* ln.Close() makes Accept fail, and the failed Accept sees ctx.Err().
CloseListener ==
  /\ ctxDone /\ serving
  /\ serving' = FALSE
  /\ UNCHANGED <<ctxDone, gwVars, pc, connVars, onceVars, timeVars>>

\* Faulty variant of Accept: the watchers start before OnSessionOpen has run.
AcceptWatched(s) ==
  /\ serving /\ At(s, "handler", "none")
  /\ conn' = [conn EXCEPT ![s] = "open"]
  /\ age' = [age EXCEPT ![s] = 0]
  /\ pc' = [pc EXCEPT ![s] =
              [handler |-> "add", lifecycle |-> "select", heartbeat |-> "wait"]]
  /\ UNCHANGED <<srvVars, gwVars, inq, outq, msg, onceVars, due>>

\* Accept a connection, start handleConnection, build session and context.
Accept(s) ==
  /\ serving /\ At(s, "handler", "none")
  /\ conn' = [conn EXCEPT ![s] = "open"]
  /\ age' = [age EXCEPT ![s] = 0]
  /\ Goto(s, "handler", "add")
  /\ UNCHANGED <<srvVars, gwVars, inq, outq, msg, onceVars, due>>

---------------------------------------------------------------------------
(* SimpleGateway.OnSessionOpen, in the handleConnection goroutine.         *)

AddContext(s) ==
  /\ At(s, "handler", "add")
  /\ sm' = sm \cup {s}
  /\ Goto(s, "handler", "count")
  /\ UNCHANGED <<srvVars, count, initOnce, handlers, removed, connVars,
                 onceVars, timeVars>>

AddCount(s) ==
  /\ At(s, "handler", "count")
  /\ count' = count + 1
  /\ Goto(s, "handler", "init")
  /\ UNCHANGED <<srvVars, sm, initOnce, handlers, removed, connVars,
                 onceVars, timeVars>>

\* Faulty variant of InitOnce: a plain flag, so nobody waits for the winner.
InitFlag(s) ==
  /\ At(s, "handler", "init")
  /\ IF initOnce = "idle"
     THEN initOnce' = s /\ Goto(s, "handler", "register")
     ELSE UNCHANGED initOnce /\ Goto(s, "handler", "welcome")
  /\ UNCHANGED <<srvVars, sm, count, handlers, removed, connVars, onceVars,
                 timeVars>>

\* initOnce.Do: the first caller runs the function, later ones wait for it.
InitOnce(s) ==
  /\ At(s, "handler", "init")
  /\ \/ /\ initOnce = "idle"
        /\ initOnce' = s
        /\ Goto(s, "handler", "register")
     \/ /\ initOnce = "done"
        /\ Goto(s, "handler", "welcome")
        /\ UNCHANGED initOnce
  /\ UNCHANGED <<srvVars, sm, count, handlers, removed, connVars, onceVars,
                 timeVars>>

Register(s) ==
  /\ At(s, "handler", "register")
  /\ handlers' = handlers \cup {"ping"}
  /\ initOnce' = "done"
  /\ Goto(s, "handler", "welcome")
  /\ UNCHANGED <<srvVars, sm, count, removed, connVars, onceVars, timeVars>>

\* Faulty variant of Send: the write does not wait for the peer.
SendNoWait(s) == outq' = [outq EXCEPT ![s] = @ + 1]

\* SessionContext.Send and tcpSession.SendEnvelope: refused once the context
\* is closed, an error once the connection is gone, otherwise one frame.
\* The write waits while the peer leaves the socket buffer full.  Every
\* caller only logs the error.
Send(s) ==
  IF scClosed[s] \/ conn[s] # "open"
  THEN UNCHANGED outq
  ELSE /\ outq[s] < SockBuf
       /\ outq' = [outq EXCEPT ![s] = @ + 1]

Welcome(s) ==
  /\ At(s, "handler", "welcome")
  /\ Send(s)
  /\ Goto(s, "handler", "spawn")
  /\ UNCHANGED <<srvVars, gwVars, conn, inq, msg, onceVars, timeVars>>

\* Start the two watchers and enter readLoop.
Spawn(s) ==
  /\ At(s, "handler", "spawn")
  /\ pc' = [pc EXCEPT ![s] =
              [handler   |-> "read",
               lifecycle |-> "select",
               heartbeat |-> IF HeartbeatTimeout = 0 THEN "done" ELSE "wait"]]
  /\ UNCHANGED <<srvVars, gwVars, connVars, onceVars, timeVars>>

---------------------------------------------------------------------------
(* tcpSession.readLoop and the gateway's OnEnvelope.                       *)

\* ReadFrame waits for a frame; it fails on EOF, on a connection closed
\* under it and on a length prefix out of range, and then readLoop returns.
\* A frame the codec rejects is skipped and does not count as activity; a
\* heartbeat counts and is not passed on.
ReadFrame(s) ==
  /\ At(s, "handler", "read")
  /\ \/ /\ conn[s] = "closed" \/ (conn[s] = "eof" /\ inq[s] = <<>>)
        /\ Goto(s, "handler", "onclose")
        /\ UNCHANGED <<inq, msg, age>>
     \/ /\ conn[s] # "closed" /\ inq[s] # <<>>
        /\ inq' = [inq EXCEPT ![s] = Tail(@)]
        /\ LET f == Head(inq[s]) IN
             /\ Goto(s, "handler", IF f = "badlen" THEN "onclose"
                                ELSE IF f \in Message THEN "dispatch" ELSE "read")
             /\ msg' = IF f \in Message THEN [msg EXCEPT ![s] = f] ELSE msg
             /\ age' = IF f \in Message \cup {"heartbeat"}
                       THEN [age EXCEPT ![s] = 0] ELSE age
  /\ UNCHANGED <<srvVars, gwVars, conn, outq, onceVars, due>>

\* The deadline set before the read passes.
ReadExpires(s) ==
  /\ ReadTimeout /\ At(s, "handler", "read")
  /\ Goto(s, "handler", "onclose")
  /\ UNCHANGED <<srvVars, gwVars, connVars, onceVars, timeVars>>

\* dispatcher.Dispatch: a type without a handler is only logged.
Dispatch(s) ==
  /\ At(s, "handler", "dispatch")
  /\ Goto(s, "handler", IF msg[s] \in handlers THEN "pong" ELSE "read")
  /\ UNCHANGED <<srvVars, gwVars, connVars, onceVars, timeVars>>

\* The ping handler answers with a pong.
Pong(s) ==
  /\ At(s, "handler", "pong")
  /\ Send(s)
  /\ Goto(s, "handler", "read")
  /\ UNCHANGED <<srvVars, gwVars, conn, inq, msg, onceVars, timeVars>>

---------------------------------------------------------------------------
(* Closing.  readLoop and lifecycleWatcher both end in the gateway's       *)
(* OnSessionClose; heartbeatWatcher, a cancelled context and the end of    *)
(* readLoop call the session's Close directly.                             *)

\* Faulty variants of the two select cases of lifecycleWatcher: shutdown
\* removes the session and leaves the closing to others; a case is missing.
CtxDoneRemoves(s) ==
  /\ At(s, "lifecycle", "select") /\ ctxDone
  /\ Goto(s, "lifecycle", "remove")
  /\ UNCHANGED <<srvVars, gwVars, connVars, onceVars, timeVars>>
NoCase(s) == FALSE

\* lifecycleWatcher selects over ctx.Done() and closeChan.
LifecycleCtxDone(s) ==
  /\ At(s, "lifecycle", "select") /\ ctxDone
  /\ Goto(s, "lifecycle", "sclose")
  /\ UNCHANGED <<srvVars, gwVars, connVars, onceVars, timeVars>>

LifecycleClosed(s) ==
  /\ At(s, "lifecycle", "select") /\ closeChan[s] # "open"
  /\ Goto(s, "lifecycle", "onclose")
  /\ UNCHANGED <<srvVars, gwVars, connVars, onceVars, timeVars>>

\* Faulty variant of Expired: the timeout is scaled to seconds twice.
ExpiredRescaled(s) == age[s] > HeartbeatTimeout * 1000

Expired(s) == age[s] > HeartbeatTimeout

\* heartbeatWatcher: on a tick, load lastActive and compare.
Heartbeat(s) ==
  /\ At(s, "heartbeat", "wait") /\ due[s]
  /\ due' = [due EXCEPT ![s] = FALSE]
  /\ Goto(s, "heartbeat", IF Expired(s) THEN "sclose" ELSE "wait")
  /\ UNCHANGED <<srvVars, gwVars, connVars, onceVars, age>>

\* OnSessionClose calls SessionContext.Close, whose Once makes every caller
\* but the first wait and then return without closing.
OnSessionClose(s, g) ==
  /\ At(s, g, "onclose")
  /\ \/ /\ scOnce[s] = "idle"
        /\ scOnce' = [scOnce EXCEPT ![s] = g]
        /\ scClosed' = [scClosed EXCEPT ![s] = TRUE]
        /\ Goto(s, g, "sclose")
     \/ /\ scOnce[s] = "done"
        /\ Goto(s, g, "remove")
        /\ UNCHANGED <<scOnce, scClosed>>
  /\ UNCHANGED <<srvVars, gwVars, connVars, sOnce, closeChan, timeVars>>

\* tcpSession.Close returns: into SessionContext.Close for the goroutine that
\* runs it, and to the end of the goroutine for every other caller.
CloseReturns(s, g) ==
  IF scOnce[s] = g
  THEN scOnce' = [scOnce EXCEPT ![s] = "done"] /\ Goto(s, g, "remove")
  ELSE UNCHANGED scOnce /\ Goto(s, g, "done")

\* Faulty variant of FirstClose: a flag, set only after the work is done.
FirstCloseFlag(s) == sOnce[s] # "done"

FirstClose(s) == sOnce[s] = "idle"

\* Faulty variant of CloseConn: only the channel is closed.
KeepConn(s) == UNCHANGED <<conn, inq, outq>>

\* conn.Close() drops what the socket buffers hold.
CloseConn(s) ==
  /\ conn' = [conn EXCEPT ![s] = "closed"]
  /\ inq' = [inq EXCEPT ![s] = <<>>]
  /\ outq' = [outq EXCEPT ![s] = 0]

\* tcpSession.Close: the first caller closes the connection ...
SessionClose(s, g) ==
  /\ At(s, g, "sclose")
  /\ \/ /\ FirstClose(s)
        /\ sOnce' = [sOnce EXCEPT ![s] = g]
        /\ CloseConn(s)
        /\ Goto(s, g, "shut")
        /\ UNCHANGED scOnce
     \/ /\ sOnce[s] = "done"
        /\ CloseReturns(s, g)
        /\ UNCHANGED <<sOnce, conn, inq, outq>>
  /\ UNCHANGED <<srvVars, gwVars, msg, scClosed, closeChan, timeVars>>

\* ... and then the channel; closing a closed channel panics.
CloseChan(s, g) ==
  /\ At(s, g, "shut")
  /\ closeChan' = [closeChan EXCEPT ![s] = IF @ = "open" THEN "closed" ELSE "panic"]
  /\ sOnce' = [sOnce EXCEPT ![s] = "done"]
  /\ CloseReturns(s, g)
  /\ UNCHANGED <<srvVars, gwVars, connVars, scClosed, timeVars>>

\* SessionManager.Remove, deferred by OnSessionClose: delete the entry ...
Remove(s, g) ==
  /\ At(s, g, "remove")
  /\ sm' = sm \ {s}
  /\ removed' = removed \cup {s}
  /\ Goto(s, g, "uncount")
  /\ UNCHANGED <<srvVars, count, initOnce, handlers, connVars, onceVars, timeVars>>

\* ... and decrement the count.  readLoop's defer closes the session again.
RemoveCount(s, g) ==
  /\ At(s, g, "uncount")
  /\ count' = count - 1
  /\ Goto(s, g, IF g = "handler" THEN "sclose" ELSE "done")
  /\ UNCHANGED <<srvVars, sm, initOnce, handlers, removed, connVars, onceVars,
                 timeVars>>

---------------------------------------------------------------------------
(* The environment: the peer, the network and the clock.                   *)

PeerSend(s, f) ==
  /\ conn[s] = "open" /\ Len(inq[s]) < MaxIn
  /\ inq' = [inq EXCEPT ![s] = Append(@, f)]
  /\ UNCHANGED <<srvVars, gwVars, pc, conn, outq, msg, onceVars, timeVars>>

PeerRead(s) ==
  /\ conn[s] = "open" /\ outq[s] > 0
  /\ outq' = [outq EXCEPT ![s] = @ - 1]
  /\ UNCHANGED <<srvVars, gwVars, pc, conn, inq, msg, onceVars, timeVars>>

\* The peer closes, or resets the connection and what it sent is lost.
PeerClose(s) ==
  /\ conn[s] = "open"
  /\ conn' = [conn EXCEPT ![s] = "eof"]
  /\ inq' = inq \/ inq' = [inq EXCEPT ![s] = <<>>]
  /\ UNCHANGED <<srvVars, gwVars, pc, outq, msg, onceVars, timeVars>>

\* One heartbeat interval passes for s; the ticker's channel holds one tick.
Tick(s) ==
  /\ HeartbeatTimeout # 0
  /\ conn[s] # "none" /\ ~At(s, "heartbeat", "done")
  /\ age' = [age EXCEPT ![s] = IF @ > HeartbeatTimeout THEN @ ELSE @ + 1]
  /\ due' = [due EXCEPT ![s] = TRUE]
  /\ UNCHANGED <<srvVars, gwVars, pc, connVars, onceVars>>

---------------------------------------------------------------------------
Closing(s, g) ==
  \/ OnSessionClose(s, g) \/ SessionClose(s, g) \/ CloseChan(s, g)
  \/ Remove(s, g) \/ RemoveCount(s, g)

HandlerStep(s) ==
  \/ AddContext(s) \/ AddCount(s) \/ InitOnce(s) \/ Register(s) \/ Welcome(s)
  \/ Spawn(s) \/ ReadFrame(s) \/ Dispatch(s) \/ Pong(s)
  \/ Closing(s, "handler")

LifecycleStep(s) ==
  LifecycleCtxDone(s) \/ LifecycleClosed(s) \/ Closing(s, "lifecycle")

HeartbeatStep(s) == Heartbeat(s) \/ Closing(s, "heartbeat")

Environment(s) ==
  \/ Accept(s) \/ ReadExpires(s) \/ PeerRead(s) \/ PeerClose(s) \/ Tick(s)
  \/ \E f \in Frame : PeerSend(s, f)

Finished(s) == \A g \in Goroutine : At(s, g, "done")

\* The server has stopped: nothing is left to run.
Terminated ==
  /\ ctxDone /\ ~serving
  /\ \A s \in Session : Finished(s) \/ At(s, "handler", "none")
  /\ UNCHANGED vars

Next ==
  \/ Cancel \/ CloseListener \/ Terminated
  \/ \E s \in Session :
       HandlerStep(s) \/ LifecycleStep(s) \/ HeartbeatStep(s) \/ Environment(s)

\* Go schedules every runnable goroutine, and time passes.  Nothing is
\* assumed of the peer, of the caller of cancel or of new connections.
Fairness ==
  /\ WF_vars(CloseListener)
  /\ \A s \in Session :
       /\ WF_vars(HandlerStep(s))
       /\ WF_vars(LifecycleStep(s))
       /\ WF_vars(HeartbeatStep(s))
       /\ WF_vars(Tick(s))

SafetySpec == Init /\ [][Next]_vars
Spec == SafetySpec /\ Fairness
---------------------------------------------------------------------------
(* Safety.                                                                 *)

\* However readLoop, lifecycleWatcher and heartbeatWatcher race to close a
\* session, closeChan is closed once: tcpSession.Close never panics.
NoDoubleClose == \A s \in Session : closeChan[s] # "panic"

\* The dispatcher's map has no lock.  No session dispatches a message while
\* another still registers the ping handler, and a session that dispatches
\* one finds the handler there, whichever connection came first.
DispatcherReady ==
  \A s \in Session : At(s, "handler", "dispatch") =>
    /\ "ping" \in handlers
    /\ \A t \in Session : ~At(t, "handler", "register")

\* A session that any goroutine has removed from the SessionManager is never
\* in it again: OnSessionOpen's Store cannot come after a watcher's Remove.
NoResurrection == sm \cap removed = {}

\* A registered session always has its connection goroutine, and that
\* goroutine still has its own Remove ahead of it: the manager never holds a
\* session that nobody is left to remove.
RegisteredHasOwner ==
  \A s \in sm : pc[s]["handler"] \notin {"none", "add", "uncount", "done"}

\* Once a session has left the SessionManager its connection is closed and
\* its SessionContext refuses to send: no lookup failure leaves a live socket.
RemovedIsClosed ==
  \A s \in removed : conn[s] = "closed" /\ scClosed[s] /\ closeChan[s] = "closed"

Opening == {s \in Session : At(s, "handler", "count")}
Uncounting == {s \in Session : \E g \in Goroutine : At(s, g, "uncount")}

\* SessionManager.Count is "当前会话数量", the number of current sessions,
\* whenever no AddContext and no Remove is under way.
CountExact == Opening = {} /\ Uncounting = {} => count = Cardinality(sm)

\* How far SessionManager.Count is off: it is never above the number of
\* registered sessions but for Removes under way, and below it by at most one
\* for every session that was removed, twice, by its handler and its watcher.
CountDrift ==
  /\ count <= Cardinality(sm) + Cardinality(Uncounting)
  /\ count >= Cardinality(sm) - Cardinality(Opening) - Cardinality(removed)

---------------------------------------------------------------------------
(* Liveness, under Fairness.                                               *)

\* Once closeChan is closed all three goroutines of the session end and the
\* session leaves the manager, even if its handler was blocked writing to a
\* peer that does not read.
ClosedUnwinds ==
  \A s \in Session :
    closeChan[s] = "closed" ~> (Finished(s) /\ s \notin sm)

\* A watched session from which nothing decodable arrives for longer than
\* the heartbeat timeout is closed, unless a message comes in after all;
\* frames the codec rejects do not keep it alive.
SilentReaped ==
  \A s \in Session :
    age[s] > HeartbeatTimeout /\ At(s, "heartbeat", "wait")
      ~> conn[s] = "closed" \/ age[s] = 0

\* A peer that stops reading cannot hold the handler in a write for ever:
\* no write deadline is set, so it is the heartbeat that gets it out.
WriteUnblocks ==
  \A s \in Session : At(s, "handler", "pong") ~> ~At(s, "handler", "pong")

\* Cancelling the server's context drains it: eventually no session is
\* registered, and none is ever registered again.
ShutdownDrains == ctxDone ~> [](sm = {})

---------------------------------------------------------------------------
(* The sessions of this module live as SessionLifecycle promises.          *)

Lifecycles == INSTANCE SessionLifecycle WITH
  live   <- sm,
  closed <- {s \in Session : conn[s] = "closed"},
  gone   <- removed

\* The TCP transport implements the abstract session lifecycle: registered
\* once, removed only after the connection is closed, never registered again,
\* and always removed once closed.
ImplementsLifecycle == Lifecycles!Spec
============================================================================
