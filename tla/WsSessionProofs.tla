-------------------------- MODULE WsSessionProofs --------------------------
(***************************************************************************)
(* WsSession for any number of connections and every value of its          *)
(* constants: the session count is exact, a prompt peer is never reaped,   *)
(* and the safety half of ImplementsLifecycle.                             *)
(***************************************************************************)
EXTENDS WsSession, FiniteSetTheorems, TLAPS

\* A leaf that names no backend is tried with the SMT solver, then with Zenon,
\* each given more time than it takes on an idle machine.
USE SMTT(30), ZenonT(20)

\* Where the request goroutine and the read loop can be, the one after the
\* other, and what each place says of the connection and of the manager.
PhaseOK(s) ==
  /\ pc[s]["request"] \in {"none", "add", "count", "welcome", "setup", "done"}
  /\ pc[s]["reader"] \in {"none", "read", "pong", "onclose", "shut", "remove",
                          "uncount", "done"}
  /\ pc[s]["request"] = "done" <=> pc[s]["reader"] # "none"
  /\ conn[s] = "none" <=> pc[s]["request"] = "none"
  /\ conn[s] = "closed" <=> pc[s]["reader"] \in {"shut", "remove", "uncount", "done"}
  /\ s \in sm <=> /\ pc[s]["request"] \notin {"none", "add"}
                  /\ pc[s]["reader"] \notin {"uncount", "done"}
  /\ s \in removed <=> pc[s]["reader"] \in {"uncount", "done"}

\* A queue holds a frame.
Holds(q, f) == \E k \in DOMAIN q : q[k] = f

\* A ping or its answer is under way.
Answering(s) == due[s] \/ Holds(outq[s], "ping") \/ Holds(inq[s], "pong")

\* Writing to a prompt peer does not fail, and the deadline has moved at most
\* one interval since its last pong, whose successor is then under way.
PromptOK(s) ==
  prompt[s] =>
    /\ ~writeErr[s]
    /\ conn[s] = "open" /\ pc[s]["reader"] \in {"read", "pong"} =>
         ttl[s] = Timeout \/ (ttl[s] = Timeout - 1 /\ Answering(s))

\* The sessions inside AddContext, and inside Remove, before the counter.
Counting == {s \in Session : At(s, "request", "count")}
Uncounting == {s \in Session : At(s, "reader", "uncount")}

\* CountExact, between sets that are finite because they grow one by one.
CountOK ==
  /\ IsFiniteSet(sm) /\ IsFiniteSet(Counting) /\ IsFiniteSet(Uncounting)
  /\ count = Cardinality(sm) - Cardinality(Counting) + Cardinality(Uncounting)

\* The inductive invariant.
Inv ==
  /\ TypeOK /\ CountOK
  /\ \A s \in Session : PhaseOK(s) /\ PromptOK(s)

---------------------------------------------------------------------------
(* Type correctness.                                                       *)

\* The initial state is well typed.
LEMMA TypeInit == ASSUME Init PROVE TypeOK
<1>1. pc \in [Session -> [Goroutine -> Label]]
  BY DEF Init, Label
<1>2. inq \in [Session -> Seq(Frame)] /\ outq \in [Session -> Seq({"data", "ping"})]
  BY DEF Init
<1>3. \A s \in Session : Len(outq[s]) <= SockBuf
  BY WsAssumption DEF Init
<1>4. ttl \in [Session -> 0..Timeout]
  BY WsAssumption DEF Init
<1>5. ctxDone \in BOOLEAN /\ serving \in BOOLEAN
  BY Zenon DEF Init
<1>6. conn \in [Session -> {"none", "open", "eof", "closed"}]
  BY DEF Init
<1>7. /\ writeErr \in [Session -> BOOLEAN] /\ closeChan \in [Session -> BOOLEAN]
      /\ due \in [Session -> BOOLEAN] /\ prompt \in [Session -> BOOLEAN]
  BY DEF Init
<1>8. count \in Int /\ sm \subseteq Session /\ removed \subseteq Session
  BY DEF Init
<1> QED
  BY <1>1, <1>2, <1>3, <1>4, <1>5, <1>6, <1>7, <1>8 DEF TypeOK

\* Moving one goroutine to a label keeps every goroutine at a label.
LEMMA GotoType ==
  ASSUME TypeOK, NEW s \in Session, NEW g \in Goroutine, NEW l \in Label,
         Goto(s, g, l)
  PROVE  pc' \in [Session -> [Goroutine -> Label]]
  BY DEF TypeOK, Goto

\* Writing a frame into a socket buffer that has room for it.
LEMMA WriteType ==
  ASSUME TypeOK, NEW s \in Session, NEW f \in {"data", "ping"}, Len(outq[s]) < SockBuf,
         outq' = [outq EXCEPT ![s] = Append(@, f)]
  PROVE  /\ outq' \in [Session -> Seq({"data", "ping"})]
         /\ \A r \in Session : Len(outq'[r]) <= SockBuf
<1>1. outq \in [Session -> Seq({"data", "ping"})] /\ outq[s] \in Seq({"data", "ping"})
  BY DEF TypeOK
<1>2. Append(outq[s], f) \in Seq({"data", "ping"}) /\ Len(Append(outq[s], f)) = Len(outq[s]) + 1
  BY <1>1
<1>3. Len(outq[s]) \in Nat
  BY <1>1
<1> QED
  BY <1>1, <1>2, <1>3, WsAssumption DEF TypeOK

\* Send leaves the socket buffers within their type.
LEMMA SendType ==
  ASSUME TypeOK, NEW s \in Session, Send(s)
  PROVE  /\ outq' \in [Session -> Seq({"data", "ping"})]
         /\ \A r \in Session : Len(outq'[r]) <= SockBuf
  BY WriteType, Zenon DEF Send, TypeOK

\* Every step keeps the state well typed.
LEMMA TypeStep == ASSUME TypeOK, [Next]_vars PROVE TypeOK'
<1> USE WsAssumption DEF gwVars, connVars, timeVars, srvVars
<1>1. CASE Cancel \/ Shutdown
  BY <1>1, Zenon DEF Cancel, Shutdown, TypeOK
<1>2. ASSUME NEW s \in Session, Upgrade(s) \/ AddContext(s) \/ AddCount(s) PROVE TypeOK'
  <2>1. pc' \in [Session -> [Goroutine -> Label]]
    BY <1>2, GotoType DEF Upgrade, AddContext, AddCount, Goroutine, Label
  <2>2. CASE Upgrade(s)
    BY <2>1, <2>2 DEF Upgrade, TypeOK
  <2>3. CASE AddContext(s)
    BY <2>1, <2>3 DEF AddContext, TypeOK
  <2>4. CASE AddCount(s)
    BY <2>1, <2>4 DEF AddCount, TypeOK
  <2> QED
    BY <1>2, <2>2, <2>3, <2>4
<1>3. ASSUME NEW s \in Session, Welcome(s) \/ Pong(s) PROVE TypeOK'
  <2>1. pc' \in [Session -> [Goroutine -> Label]]
    BY <1>3, GotoType DEF Welcome, Pong, Goroutine, Label
  <2>2. /\ outq' \in [Session -> Seq({"data", "ping"})]
        /\ \A r \in Session : Len(outq'[r]) <= SockBuf
    BY <1>3, SendType DEF Welcome, Pong
  <2> QED
    BY <1>3, <2>1, <2>2 DEF Welcome, Pong, TypeOK
<1>4. ASSUME NEW s \in Session, Setup(s) PROVE TypeOK'
  <2>1. [request |-> "done", reader |-> "read", pinger |-> "wait"] \in [Goroutine -> Label]
    BY DEF Goroutine, Label
  <2>2. pc' \in [Session -> [Goroutine -> Label]]
    BY <1>4, <2>1 DEF Setup, TypeOK
  <2> QED
    BY <1>4, <2>2 DEF Setup, TypeOK
<1>5. ASSUME NEW s \in Session, Ping(s) PROVE TypeOK'
  <2>1. \/ UNCHANGED outq
        \/ Len(outq[s]) # SockBuf /\ outq' = [outq EXCEPT ![s] = Append(@, "ping")]
    BY <1>5 DEF Ping
  <2>2. Len(outq[s]) \in Nat /\ Len(outq[s]) <= SockBuf
    BY DEF TypeOK
  <2>3. /\ outq' \in [Session -> Seq({"data", "ping"})]
        /\ \A r \in Session : Len(outq'[r]) <= SockBuf
    <3>1. CASE UNCHANGED outq
      BY <3>1 DEF TypeOK
    <3>2. CASE UNCHANGED outq \/ Len(outq[s]) < SockBuf
      BY <2>1, <3>1, <3>2, WriteType
    <3> QED
      BY <2>1, <2>2, <3>2
  <2>4. writeErr' \in [Session -> BOOLEAN] /\ due' \in [Session -> BOOLEAN]
    BY <1>5, Zenon DEF Ping, TypeOK
  <2> QED
    BY <1>5, <2>3, <2>4 DEF Ping, TypeOK
<1>6. ASSUME NEW s \in Session, ReadMessage(s) PROVE TypeOK'
  <2>1. \E l \in Label : Goto(s, "reader", l)
    BY <1>6 DEF ReadMessage, Label
  <2>2. pc' \in [Session -> [Goroutine -> Label]]
    BY <2>1, GotoType DEF Goroutine
  <2>3. Tail(inq[s]) \in Seq(Frame)
    BY <1>6 DEF ReadMessage, TypeOK
  <2>4. inq' \in [Session -> Seq(Frame)]
    BY <1>6, <2>3 DEF ReadMessage, TypeOK
  <2>5. ttl' \in [Session -> 0..Timeout]
    <3>1. ttl' = ttl \/ ttl' = [ttl EXCEPT ![s] = Timeout]
      BY <1>6 DEF ReadMessage, Extend
    <3>2. ttl \in [Session -> 0..Timeout] /\ Timeout \in 0..Timeout
      BY DEF TypeOK
    <3> QED
      BY <3>1, <3>2
  <2> QED
    BY <1>6, <2>2, <2>4, <2>5 DEF ReadMessage, TypeOK
<1>7. ASSUME NEW s \in Session, \/ PingerEnds(s) \/ ReadFails(s) \/ CloseChan(s)
                                \/ Remove(s) \/ RemoveCount(s)
      PROVE  TypeOK'
  <2>1. pc' \in [Session -> [Goroutine -> Label]]
    BY <1>7, GotoType DEF PingerEnds, ReadFails, CloseChan, Remove, RemoveCount, Goroutine, Label
  <2>2. CASE PingerEnds(s) \/ ReadFails(s)
    BY <2>1, <2>2 DEF PingerEnds, ReadFails, TypeOK
  <2>3. CASE CloseChan(s)
    BY <2>1, <2>3 DEF CloseChan, TypeOK
  <2>4. CASE Remove(s)
    BY <2>1, <2>4 DEF Remove, TypeOK
  <2>5. CASE RemoveCount(s)
    BY <2>1, <2>5 DEF RemoveCount, TypeOK
  <2> QED
    BY <1>7, <2>2, <2>3, <2>4, <2>5
<1>8. ASSUME NEW s \in Session, OnSessionClose(s) PROVE TypeOK'
  <2>1. pc' \in [Session -> [Goroutine -> Label]]
    BY <1>8, GotoType DEF OnSessionClose, Goroutine, Label
  <2>2. /\ outq' \in [Session -> Seq({"data", "ping"})] /\ inq' \in [Session -> Seq(Frame)]
        /\ \A r \in Session : Len(outq'[r]) <= SockBuf
    BY <1>8 DEF OnSessionClose, TypeOK
  <2> QED
    BY <1>8, <2>1, <2>2 DEF OnSessionClose, TypeOK
<1>9. ASSUME NEW s \in Session, NEW f \in Frame, PeerSend(s, f) PROVE TypeOK'
  <2>1. inq' \in [Session -> Seq(Frame)]
    BY <1>9 DEF PeerSend, TypeOK
  <2> QED
    BY <1>9, <2>1 DEF PeerSend, TypeOK
<1>10. ASSUME NEW s \in Session, PeerRead(s) PROVE TypeOK'
  <2>1. inq' \in [Session -> Seq(Frame)]
    <3>1. inq' = inq \/ inq' = [inq EXCEPT ![s] = Append(inq[s], "pong")]
      BY <1>10 DEF PeerRead
    <3>2. inq \in [Session -> Seq(Frame)] /\ Append(inq[s], "pong") \in Seq(Frame)
      BY DEF TypeOK, Frame
    <3> QED
      BY <3>1, <3>2, Zenon
  <2>2. outq[s] \in Seq({"data", "ping"}) /\ outq[s] # <<>> /\ Len(outq[s]) <= SockBuf
    BY <1>10 DEF PeerRead, TypeOK
  <2>3. Tail(outq[s]) \in Seq({"data", "ping"}) /\ Len(Tail(outq[s])) <= SockBuf
    BY <2>2
  <2>4. /\ outq' \in [Session -> Seq({"data", "ping"})]
        /\ \A r \in Session : Len(outq'[r]) <= SockBuf
    BY <1>10, <2>3 DEF PeerRead, TypeOK
  <2> QED
    BY <1>10, <2>1, <2>4 DEF PeerRead, TypeOK
<1>11. ASSUME NEW s \in Session, PeerClose(s) PROVE TypeOK'
  <2>1. inq' \in [Session -> Seq(Frame)]
    <3>1. inq' = inq \/ inq' = [inq EXCEPT ![s] = <<>>]
      BY <1>11 DEF PeerClose
    <3>2. inq \in [Session -> Seq(Frame)] /\ <<>> \in Seq(Frame)
      BY DEF TypeOK
    <3> QED
      BY <3>1, <3>2, Zenon
  <2> QED
    BY <1>11, <2>1, Zenon DEF PeerClose, TypeOK
<1>12. ASSUME NEW s \in Session, Tick(s) PROVE TypeOK'
  <2>1. ttl' \in [Session -> 0..Timeout] /\ due' \in [Session -> BOOLEAN]
    BY <1>12 DEF Tick, TypeOK
  <2> QED
    BY <1>12, <2>1 DEF Tick, TypeOK
<1>13. CASE Terminated \/ UNCHANGED vars
  BY <1>13 DEF Terminated, vars, TypeOK
<1> QED
  BY <1>1, <1>2, <1>3, <1>4, <1>5, <1>6, <1>7, <1>8, <1>9, <1>10, <1>11, <1>12, <1>13
  DEF Next, RequestStep, ReaderStep, PingerStep, Environment

---------------------------------------------------------------------------
(* The phases of a session.                                                *)

\* A session that a step does not move keeps its phase.
LEMMA PhaseKept ==
  ASSUME NEW t \in Session, PhaseOK(t), pc'[t]["request"] = pc[t]["request"],
         pc'[t]["reader"] = pc[t]["reader"],
         conn'[t] = conn[t] \/ (conn[t] = "open" /\ conn'[t] = "eof"),
         t \in sm' <=> t \in sm, t \in removed' <=> t \in removed
  PROVE  PhaseOK(t)'
  BY DEF PhaseOK

\* A step of s moves s alone.
LEMMA OneMoves ==
  ASSUME TypeOK, NEW s \in Session, NEW t \in Session,
         RequestStep(s) \/ ReaderStep(s) \/ PingerStep(s) \/ Environment(s)
  PROVE  /\ t # s => /\ pc'[t] = pc[t] /\ conn'[t] = conn[t]
                     /\ t \in sm' <=> t \in sm
                     /\ t \in removed' <=> t \in removed
                     /\ writeErr'[t] = writeErr[t] /\ ttl'[t] = ttl[t] /\ due'[t] = due[t]
                     /\ outq'[t] = outq[t] /\ inq'[t] = inq[t]
         /\ UNCHANGED prompt
<1> USE DEF gwVars, connVars, timeVars, srvVars, Goto
<1>1. CASE RequestStep(s)
  BY <1>1 DEF RequestStep, AddContext, AddCount, Welcome, Send, Setup, TypeOK
<1>2. CASE ReaderStep(s)
  <2>0. /\ DOMAIN pc = Session /\ DOMAIN conn = Session /\ DOMAIN writeErr = Session
        /\ DOMAIN ttl = Session /\ DOMAIN due = Session /\ DOMAIN outq = Session
        /\ DOMAIN inq = Session
    BY DEF TypeOK
  <2>1. CASE ReadMessage(s)
    BY <2>0, <2>1 DEF ReadMessage, Extend, Send
  <2>2. CASE ReadFails(s)
    BY <2>0, <2>2 DEF ReadFails
  <2>3. CASE Pong(s)
    BY <2>0, <2>3 DEF Pong, Send
  <2>4. CASE OnSessionClose(s)
    BY <2>0, <2>4 DEF OnSessionClose
  <2>5. CASE CloseChan(s)
    BY <2>0, <2>5 DEF CloseChan
  <2>6. CASE Remove(s)
    BY <2>0, <2>6 DEF Remove
  <2>7. CASE RemoveCount(s)
    BY <2>0, <2>7 DEF RemoveCount
  <2> QED
    BY <1>2, <2>1, <2>2, <2>3, <2>4, <2>5, <2>6, <2>7 DEF ReaderStep
<1>3. CASE PingerStep(s)
  BY <1>3 DEF PingerStep, Ping, PingerEnds, TypeOK
<1>4. CASE Environment(s)
  BY <1>4 DEF Environment, Upgrade, PeerRead, PeerClose, Tick, PeerSend, TypeOK
<1> QED
  BY <1>1, <1>2, <1>3, <1>4

\* Every step of s leaves s in a phase.
LEMMA OwnPhase ==
  ASSUME TypeOK, NEW s \in Session, PhaseOK(s),
         RequestStep(s) \/ ReaderStep(s) \/ PingerStep(s) \/ Environment(s)
  PROVE  PhaseOK(s)'
<1> USE DEF gwVars, connVars, timeVars, srvVars, Goto, At
<1>1. pc[s] \in [Goroutine -> Label] /\ pc \in [Session -> [Goroutine -> Label]]
      /\ conn \in [Session -> {"none", "open", "eof", "closed"}]
  BY DEF TypeOK
<1>2. CASE AddContext(s) \/ AddCount(s)
  BY <1>1, <1>2 DEF AddContext, AddCount, PhaseOK, Goroutine
<1>3. CASE Welcome(s)
  BY <1>1, <1>3 DEF Welcome, PhaseOK, Goroutine
<1>4. CASE Setup(s)
  <2>1. pc'[s] = [request |-> "done", reader |-> "read", pinger |-> "wait"]
    BY <1>1, <1>4 DEF Setup
  <2>2. pc'[s]["request"] = "done" /\ pc'[s]["reader"] = "read"
    BY <2>1
  <2> QED
    BY <1>4, <2>2 DEF Setup, PhaseOK
<1>5. CASE ReadMessage(s)
  <2>1. PICK l \in {"onclose", "pong", "read"} : pc' = [pc EXCEPT ![s]["reader"] = l]
    BY <1>5, ZenonT(30) DEF ReadMessage
  <2> QED
    BY <1>1, <1>5, <2>1 DEF ReadMessage, PhaseOK, Goroutine
<1>6. CASE ReadFails(s) \/ Pong(s) \/ CloseChan(s)
  BY <1>1, <1>6 DEF ReadFails, Pong, CloseChan, PhaseOK, Goroutine
<1>7. CASE OnSessionClose(s)
  BY <1>1, <1>7 DEF OnSessionClose, PhaseOK, Goroutine
<1>8. CASE Remove(s) \/ RemoveCount(s)
  BY <1>1, <1>8 DEF Remove, RemoveCount, PhaseOK, Goroutine
<1>9. CASE PingerStep(s)
  <2>1. UNCHANGED <<conn, sm, removed>>
    BY <1>9 DEF PingerStep, Ping, PingerEnds
  <2>2. UNCHANGED pc \/ pc' = [pc EXCEPT ![s]["pinger"] = "done"]
    BY <1>9 DEF PingerStep, Ping, PingerEnds
  <2>3. pc'[s]["request"] = pc[s]["request"] /\ pc'[s]["reader"] = pc[s]["reader"]
    BY <1>1, <2>2 DEF Goroutine
  <2> QED
    BY <2>1, <2>3, PhaseKept
<1>10. CASE Upgrade(s)
  BY <1>1, <1>10 DEF Upgrade, PhaseOK, Goroutine
<1>11. CASE PeerRead(s) \/ PeerClose(s) \/ Tick(s) \/ \E f \in Frame : PeerSend(s, f)
  BY <1>1, <1>11, PhaseKept DEF PeerRead, PeerClose, Tick, PeerSend
<1> QED
  BY <1>2, <1>3, <1>4, <1>5, <1>6, <1>7, <1>8, <1>9, <1>10, <1>11
  DEF RequestStep, ReaderStep, Environment

\* Every step keeps every session in a phase.
LEMMA PhaseStep ==
  ASSUME TypeOK, NEW t \in Session, PhaseOK(t), [Next]_vars PROVE PhaseOK(t)'
<1>1. ASSUME NEW s \in Session,
             RequestStep(s) \/ ReaderStep(s) \/ PingerStep(s) \/ Environment(s)
      PROVE  PhaseOK(t)'
  <2>1. CASE t = s
    BY <1>1, <2>1, OwnPhase
  <2>2. CASE t # s
    BY <1>1, <2>2, OneMoves, PhaseKept
  <2> QED
    BY <2>1, <2>2
<1>2. CASE Cancel \/ Shutdown \/ Terminated \/ UNCHANGED vars
  BY <1>2, PhaseKept DEF Cancel, Shutdown, Terminated, vars, gwVars, connVars
<1> QED
  BY <1>1, <1>2 DEF Next

---------------------------------------------------------------------------
(* The session count.                                                      *)

\* Every step moves the count with the sets it is the balance of.
LEMMA CountStep ==
  ASSUME TypeOK, CountOK, \A t \in Session : PhaseOK(t), [Next]_vars PROVE CountOK'
<1> USE DEF gwVars, At, Goto
<1>1. /\ count \in Int /\ Cardinality(sm) \in Nat
      /\ Cardinality(Counting) \in Nat /\ Cardinality(Uncounting) \in Nat
  BY FS_CardinalityType DEF CountOK, TypeOK
<1>2. pc \in [Session -> [Goroutine -> Label]]
  BY DEF TypeOK
<1>3. ASSUME UNCHANGED <<count, sm>>, Counting' = Counting, Uncounting' = Uncounting
      PROVE  CountOK'
  BY <1>3 DEF CountOK
<1>4. ASSUME NEW s \in Session, AddContext(s) PROVE CountOK'
  <2>1. s \notin sm /\ s \notin Counting
    BY <1>4 DEF AddContext, PhaseOK, Counting
  <2>2. /\ UNCHANGED count /\ sm' = sm \cup {s} /\ Counting' = Counting \cup {s}
        /\ Uncounting' = Uncounting
    BY <1>2, <1>4 DEF AddContext, Counting, Uncounting, Goroutine
  <2>3. IsFiniteSet(sm \cup {s}) /\ Cardinality(sm \cup {s}) = Cardinality(sm) + 1
    BY <2>1, FS_AddElement DEF CountOK
  <2>4. IsFiniteSet(Counting \cup {s}) /\ Cardinality(Counting \cup {s}) = Cardinality(Counting) + 1
    BY <2>1, FS_AddElement DEF CountOK
  <2> QED
    BY <1>1, <2>2, <2>3, <2>4 DEF CountOK
<1>5. ASSUME NEW s \in Session, AddCount(s) PROVE CountOK'
  <2>1. s \in Counting
    BY <1>5 DEF AddCount, Counting
  <2>2. /\ count' = count + 1 /\ UNCHANGED sm /\ Counting' = Counting \ {s}
        /\ Uncounting' = Uncounting
    BY <1>2, <1>5 DEF AddCount, Counting, Uncounting, Goroutine
  <2>3. IsFiniteSet(Counting \ {s}) /\ Cardinality(Counting \ {s}) = Cardinality(Counting) - 1
    BY <2>1, FS_RemoveElement DEF CountOK
  <2> QED
    BY <1>1, <2>2, <2>3 DEF CountOK
<1>6. ASSUME NEW s \in Session, Remove(s) PROVE CountOK'
  <2>1. s \in sm /\ s \notin Uncounting
    BY <1>6 DEF Remove, PhaseOK, Uncounting
  <2>2. /\ UNCHANGED count /\ sm' = sm \ {s} /\ Uncounting' = Uncounting \cup {s}
        /\ Counting' = Counting
    BY <1>2, <1>6 DEF Remove, Counting, Uncounting, Goroutine
  <2>3. IsFiniteSet(sm \ {s}) /\ Cardinality(sm \ {s}) = Cardinality(sm) - 1
    BY <2>1, FS_RemoveElement DEF CountOK
  <2>4. IsFiniteSet(Uncounting \cup {s}) /\ Cardinality(Uncounting \cup {s}) = Cardinality(Uncounting) + 1
    BY <2>1, FS_AddElement DEF CountOK
  <2> QED
    BY <1>1, <2>2, <2>3, <2>4 DEF CountOK
<1>7. ASSUME NEW s \in Session, RemoveCount(s) PROVE CountOK'
  <2>1. s \in Uncounting
    BY <1>7 DEF RemoveCount, Uncounting
  <2>2. /\ count' = count - 1 /\ UNCHANGED sm /\ Uncounting' = Uncounting \ {s}
        /\ Counting' = Counting
    BY <1>2, <1>7 DEF RemoveCount, Counting, Uncounting, Goroutine
  <2>3. IsFiniteSet(Uncounting \ {s}) /\ Cardinality(Uncounting \ {s}) = Cardinality(Uncounting) - 1
    BY <2>1, FS_RemoveElement DEF CountOK
  <2> QED
    BY <1>1, <2>2, <2>3 DEF CountOK
<1>8. ASSUME UNCHANGED <<pc, count, sm>> PROVE CountOK'
  BY <1>3, <1>8 DEF Counting, Uncounting
<1>9. ASSUME NEW s \in Session, NEW g \in Goroutine, UNCHANGED <<count, sm>>,
             NEW l \in Label \ {"count", "uncount"}, pc[s][g] \notin {"count", "uncount"},
             pc' = [pc EXCEPT ![s][g] = l]
      PROVE  CountOK'
  BY <1>2, <1>3, <1>9 DEF Counting, Uncounting, Goroutine
<1>10. ASSUME NEW s \in Session, ReadMessage(s) PROVE CountOK'
  <2>1. PICK l \in {"onclose", "pong", "read"} : pc' = [pc EXCEPT ![s]["reader"] = l]
    BY <1>10, ZenonT(30) DEF ReadMessage
  <2> QED
    BY <1>9, <1>10, <2>1, Zenon DEF ReadMessage, Goroutine, Label
<1>11. ASSUME NEW s \in Session, Setup(s) PROVE CountOK'
  <2>1. pc'[s] = [request |-> "done", reader |-> "read", pinger |-> "wait"]
        /\ \A t \in Session \ {s} : pc'[t] = pc[t]
    BY <1>2, <1>11 DEF Setup
  <2>2. pc'[s]["request"] = "done" /\ pc'[s]["reader"] = "read"
    BY <2>1
  <2>3. pc[s]["request"] = "setup" /\ pc[s]["reader"] = "none"
    BY <1>11 DEF Setup, PhaseOK
  <2>4. Counting' = Counting /\ Uncounting' = Uncounting
    BY <2>1, <2>2, <2>3 DEF Counting, Uncounting
  <2> QED
    BY <1>3, <1>11, <2>4 DEF Setup
<1>12. ASSUME NEW s \in Session, \/ Upgrade(s) \/ Welcome(s) \/ ReadFails(s) \/ Pong(s)
                                 \/ OnSessionClose(s) \/ CloseChan(s) \/ PingerEnds(s)
       PROVE  CountOK'
  BY <1>9, <1>12, ZenonT(30) DEF Upgrade, Welcome, ReadFails, Pong, OnSessionClose, CloseChan,
    PingerEnds, Goroutine, Label
<1>13. ASSUME NEW s \in Session, \/ Ping(s) \/ PeerRead(s) \/ PeerClose(s) \/ Tick(s)
                                 \/ \E f \in Frame : PeerSend(s, f)
       PROVE  CountOK'
  BY <1>8, <1>13, Zenon DEF Ping, PeerRead, PeerClose, Tick, PeerSend
<1>14. CASE Cancel \/ Shutdown \/ Terminated \/ UNCHANGED vars
  BY <1>8, <1>14 DEF Cancel, Shutdown, Terminated, vars
<1> QED
  BY <1>4, <1>5, <1>6, <1>7, <1>10, <1>11, <1>12, <1>13, <1>14
  DEF Next, RequestStep, ReaderStep, PingerStep, Environment

---------------------------------------------------------------------------
(* Prompt peers.                                                           *)

\* Appending to a queue keeps what is in it; taking the head away keeps
\* everything but the head.
LEMMA QueueMembers ==
  ASSUME NEW S, NEW q \in Seq(S), NEW x \in S
  PROVE  /\ Holds(Append(q, x), x)
         /\ \A f : Holds(q, f) => Holds(Append(q, x), f)
         /\ q # <<>> => \A f : f # Head(q) /\ Holds(q, f) => Holds(Tail(q), f)
<1>1. Len(q) \in Nat /\ DOMAIN q = 1..Len(q)
  OBVIOUS
<1>2. /\ DOMAIN Append(q, x) = 1..(Len(q) + 1) /\ Append(q, x)[Len(q) + 1] = x
      /\ \A k \in 1..Len(q) : Append(q, x)[k] = q[k]
  OBVIOUS
<1>3. ASSUME q # <<>>, NEW f, f # Head(q), NEW k \in DOMAIN q, q[k] = f
      PROVE  Holds(Tail(q), f)
  <2>1. k # 1 /\ k - 1 \in 1..(Len(q) - 1)
    BY <1>1, <1>3
  <2>2. DOMAIN Tail(q) = 1..(Len(q) - 1) /\ Tail(q)[k - 1] = q[k]
    BY <1>1, <1>3, <2>1
  <2> QED
    BY <1>3, <2>1, <2>2 DEF Holds
<1> QED
  BY <1>1, <1>2, <1>3 DEF Holds

\* A step that leaves the reader where it is, or brings it back from the
\* ping handler, and loses no ping and no pong.
LEMMA PromptKept ==
  ASSUME NEW s \in Session, PromptOK(s), UNCHANGED prompt, writeErr'[s] = writeErr[s],
         conn'[s] = "open" => conn[s] = "open",
         pc'[s]["reader"] \in {"read", "pong"} => pc[s]["reader"] \in {"read", "pong"},
         ttl'[s] = ttl[s], conn'[s] = "open" /\ Answering(s) => Answering(s)'
  PROVE  PromptOK(s)'
  BY DEF PromptOK

\* Every step of s keeps the deadline of a prompt peer ahead.
LEMMA OwnPrompt ==
  ASSUME TypeOK, NEW s \in Session, PhaseOK(s), PromptOK(s),
         RequestStep(s) \/ ReaderStep(s) \/ PingerStep(s) \/ Environment(s)
  PROVE  PromptOK(s)'
<1> USE DEF gwVars, connVars, timeVars, srvVars, Goto, At
<1>1. /\ pc \in [Session -> [Goroutine -> Label]]
      /\ conn \in [Session -> {"none", "open", "eof", "closed"}]
      /\ inq \in [Session -> Seq(Frame)] /\ inq[s] \in Seq(Frame)
      /\ outq \in [Session -> Seq({"data", "ping"})] /\ outq[s] \in Seq({"data", "ping"})
      /\ ttl \in [Session -> 0..Timeout] /\ due \in [Session -> BOOLEAN]
      /\ writeErr \in [Session -> BOOLEAN]
  BY DEF TypeOK
<1>2. ASSUME outq' = [outq EXCEPT ![s] = Append(@, "data")], UNCHANGED <<inq, due>>,
             Answering(s)
      PROVE  Answering(s)'
  <2>1. Holds(outq[s], "ping") => Holds(Append(outq[s], "data"), "ping")
    <3> DEFINE S == {"data", "ping"}
    <3>1. outq[s] \in Seq(S) /\ "data" \in S
      BY <1>1
    <3> HIDE DEF S
    <3> QED
      BY <3>1, QueueMembers
  <2>2. outq'[s] = Append(outq[s], "data")
    BY <1>1, <1>2
  <2> QED
    BY <1>2, <2>1, <2>2 DEF Answering
<1>3. CASE AddContext(s) \/ AddCount(s)
  <2>1. pc'[s]["reader"] = pc[s]["reader"]
    BY <1>1, <1>3 DEF AddContext, AddCount, Goroutine
  <2>2. UNCHANGED <<connVars, timeVars>>
    BY <1>3 DEF AddContext, AddCount
  <2> QED
    BY <2>1, <2>2, PromptKept DEF Answering
<1>4. CASE Welcome(s) \/ Pong(s)
  <2>1. Answering(s) => Answering(s)'
    BY <1>2, <1>4 DEF Welcome, Pong, Send, Answering
  <2>2. pc'[s]["reader"] = pc[s]["reader"] \/ pc[s]["reader"] = "pong"
    BY <1>1, <1>4 DEF Welcome, Pong, Goroutine
  <2>3. UNCHANGED <<conn, writeErr, prompt, ttl>>
    BY <1>4 DEF Welcome, Pong
  <2> QED
    BY <2>1, <2>2, <2>3, PromptKept
<1>5. CASE Setup(s)
  BY <1>1, <1>5 DEF Setup, PromptOK
<1>6. CASE ReadMessage(s)
  <2>1. PICK l \in {"onclose", "pong", "read"} : pc' = [pc EXCEPT ![s]["reader"] = l]
    BY <1>6, Zenon DEF ReadMessage
  <2>2. CASE Head(inq[s]) = "pong"
    BY <1>1, <1>6, <2>2 DEF ReadMessage, Extend, PromptOK
  <2>3. CASE Head(inq[s]) # "pong"
    <3>1. inq[s] # <<>> /\ inq' = [inq EXCEPT ![s] = Tail(@)] /\ UNCHANGED <<outq, due, ttl>>
      BY <1>6, <2>3 DEF ReadMessage
    <3>2. Holds(inq[s], "pong") => Holds(Tail(inq[s]), "pong")
      BY <1>1, <2>3, <3>1, QueueMembers DEF Frame
    <3>3. Answering(s) => Answering(s)'
      BY <1>1, <3>1, <3>2 DEF Answering
    <3> QED
      BY <1>1, <1>6, <2>1, <3>1, <3>3, PromptKept DEF ReadMessage, Goroutine
  <2> QED
    BY <2>2, <2>3
<1>7. CASE ReadFails(s) \/ CloseChan(s) \/ Remove(s) \/ RemoveCount(s) \/ PingerEnds(s)
  <2>1. pc'[s]["reader"] = pc[s]["reader"] \/ pc'[s]["reader"] \notin {"read", "pong"}
    BY <1>1, <1>7 DEF ReadFails, CloseChan, Remove, RemoveCount, PingerEnds, Goroutine
  <2>2. UNCHANGED <<conn, inq, outq, writeErr, prompt, ttl, due>>
    BY <1>7 DEF ReadFails, CloseChan, Remove, RemoveCount, PingerEnds
  <2> QED
    BY <2>1, <2>2, PromptKept DEF Answering
<1>8. CASE OnSessionClose(s)
  BY <1>1, <1>8 DEF OnSessionClose, PromptOK
<1>9. CASE Ping(s)
  <2>1. CASE ~prompt[s]
    BY <1>9, <2>1 DEF Ping, PromptOK
  <2>2. CASE prompt[s] /\ conn[s] # "open"
    BY <1>1, <1>9, <2>2 DEF Ping, PromptOK
  <2>3. CASE prompt[s] /\ conn[s] = "open"
    <3>1. outq' = [outq EXCEPT ![s] = Append(@, "ping")] /\ UNCHANGED <<writeErr, inq, pc, conn, ttl>>
      BY <1>9, <2>3 DEF Ping, PromptOK
    <3>2. Holds(Append(outq[s], "ping"), "ping")
      BY <1>1, QueueMembers
    <3>3. Answering(s)'
      BY <1>1, <3>1, <3>2 DEF Answering
    <3> QED
      BY <1>9, <3>1, <3>3, PromptKept DEF Ping
  <2> QED
    BY <2>1, <2>2, <2>3
<1>10. CASE Upgrade(s)
  BY <1>1, <1>10 DEF Upgrade, PhaseOK, PromptOK, Goroutine
<1>11. ASSUME NEW f \in Frame, PeerSend(s, f) PROVE PromptOK(s)'
  <2>1. Answering(s) => Answering(s)'
    <3>1. Holds(inq[s], "pong") => Holds(Append(inq[s], f), "pong")
      BY <1>1, QueueMembers
    <3>2. inq'[s] = Append(inq[s], f) /\ UNCHANGED <<outq, due>>
      BY <1>1, <1>11 DEF PeerSend
    <3> QED
      BY <3>1, <3>2 DEF Answering
  <2> QED
    BY <1>11, <2>1, PromptKept, ZenonT(30) DEF PeerSend
<1>12. CASE PeerRead(s)
  <2>1. CASE ~prompt[s]
    BY <1>12, <2>1 DEF PeerRead, PromptOK
  <2>2. CASE prompt[s] /\ Head(outq[s]) = "ping"
    <3>1. inq' = [inq EXCEPT ![s] = Append(@, "pong")]
      BY <1>12, <2>2 DEF PeerRead
    <3>2. Holds(Append(inq[s], "pong"), "pong")
      BY <1>1, QueueMembers DEF Frame
    <3>3. Answering(s)'
      BY <1>1, <3>1, <3>2 DEF Answering
    <3> QED
      BY <1>12, <3>3, PromptKept DEF PeerRead
  <2>3. CASE Head(outq[s]) # "ping"
    <3>1. outq[s] # <<>> /\ outq' = [outq EXCEPT ![s] = Tail(@)] /\ UNCHANGED <<inq, due>>
      BY <1>12, <2>3, ZenonT(30) DEF PeerRead
    <3>2. Holds(outq[s], "ping") => Holds(Tail(outq[s]), "ping")
      BY <1>1, <2>3, <3>1, QueueMembers
    <3>3. Answering(s) => Answering(s)'
      BY <1>1, <3>1, <3>2 DEF Answering
    <3> QED
      BY <1>12, <3>3, PromptKept DEF PeerRead
  <2> QED
    BY <2>1, <2>2, <2>3
<1>13. CASE PeerClose(s)
  BY <1>1, <1>13 DEF PeerClose, PromptOK
<1>14. CASE Tick(s)
  <2>1. CASE ~prompt[s] \/ conn[s] # "open"
    BY <1>14, <2>1 DEF Tick, PromptOK
  <2>2. CASE prompt[s] /\ conn[s] = "open"
    <3>1. ~due[s] /\ outq[s] = <<>> /\ inq[s] = <<>>
      BY <1>14, <2>2, ZenonT(30) DEF Tick, Settled
    <3>2. ~Answering(s) /\ pc[s]["reader"] = "read"
      <4>1. ~Holds(<<>>, "ping") /\ ~Holds(<<>>, "pong")
        BY DEF Holds
      <4> QED
        BY <1>14, <2>2, <3>1, <4>1 DEF Answering, Tick, Settled
    <3>3. ttl[s] = Timeout
      BY <2>2, <3>2 DEF PromptOK
    <3>4. ttl'[s] = Timeout - 1 /\ due'[s]
      BY <1>1, <1>14, <3>3, WsAssumption DEF Tick
    <3> QED
      BY <1>14, <2>2, <3>4 DEF Tick, PromptOK, Answering
  <2> QED
    BY <2>1, <2>2
<1> QED
  BY <1>3, <1>4, <1>5, <1>6, <1>7, <1>8, <1>9, <1>10, <1>11, <1>12, <1>13, <1>14
  DEF RequestStep, ReaderStep, PingerStep, Environment

\* Every step keeps the deadline of every prompt peer ahead.
LEMMA PromptStep ==
  ASSUME TypeOK, NEW t \in Session, PhaseOK(t), PromptOK(t), [Next]_vars
  PROVE  PromptOK(t)'
<1>1. ASSUME NEW s \in Session,
             RequestStep(s) \/ ReaderStep(s) \/ PingerStep(s) \/ Environment(s)
      PROVE  PromptOK(t)'
  <2>1. CASE t = s
    BY <1>1, <2>1, OwnPrompt
  <2>2. CASE t # s
    BY <1>1, <2>2, OneMoves, PromptKept DEF Answering
  <2> QED
    BY <2>1, <2>2
<1>2. CASE Cancel \/ Shutdown \/ Terminated \/ UNCHANGED vars
  BY <1>2, PromptKept, Zenon DEF Cancel, Shutdown, Terminated, vars, connVars, timeVars, Answering
<1> QED
  BY <1>1, <1>2 DEF Next

---------------------------------------------------------------------------
(* The theorems.                                                           *)

\* At the start no session has begun.
LEMMA InvInit == Init => Inv
<1> SUFFICES ASSUME Init PROVE Inv
  OBVIOUS
<1>1. \A s \in Session : pc[s]["request"] = "none" /\ pc[s]["reader"] = "none"
  BY DEF Init, Goroutine
<1>2. \A s \in Session : PhaseOK(s) /\ PromptOK(s)
  BY <1>1 DEF Init, PhaseOK, PromptOK
<1>3. CountOK
  <2>1. sm = {} /\ Counting = {} /\ Uncounting = {} /\ count = 0
    BY <1>1, ZenonT(30) DEF Init, Counting, Uncounting, At
  <2> QED
    BY <2>1, FS_EmptySet DEF CountOK
<1> QED
  BY <1>2, <1>3, TypeInit DEF Inv

\* The invariant holds always.
THEOREM Invariance == SafetySpec => []Inv
<1>1. Inv /\ [Next]_vars => Inv'
  BY TypeStep, CountStep, PhaseStep, PromptStep DEF Inv
<1> QED
  BY <1>1, InvInit, PTL DEF SafetySpec

\* The values of every session stay within their types.
THEOREM TypeCorrect == SafetySpec => []TypeOK
<1>1. Inv => TypeOK
  BY DEF Inv
<1> QED
  BY <1>1, Invariance, PTL

\* SessionManager.Count is exact but for the calls under way, for any number
\* of connections: over WebSocket only the read loop reports one closed.
THEOREM CountNeverDrifts == SafetySpec => []CountExact
<1>1. Inv => CountExact
  BY DEF Inv, CountOK, CountExact, Counting, Uncounting
<1> QED
  BY <1>1, Invariance, PTL

\* A peer that answers every ping within an interval never runs into the read
\* deadline, for any deadline longer than the interval.
THEOREM PromptNeverReaped == SafetySpec => []PromptStays
<1>1. ASSUME Inv PROVE PromptStays
  <2>1. ASSUME Timeout > 1, NEW s \in Session, prompt[s], conn[s] = "open",
               At(s, "reader", "read")
        PROVE  ttl[s] > 0
    BY <1>1, <2>1, WsAssumption DEF Inv, PromptOK, At
  <2> QED
    BY <2>1 DEF PromptStays
<1> QED
  BY <1>1, Invariance, PTL

---------------------------------------------------------------------------
(* The safety half of ImplementsLifecycle.                                 *)

\* Every step of the WebSocket transport is a step of the abstract lifecycle,
\* or leaves it alone.
LEMMA LifecycleStepMaps ==
  ASSUME Inv, [Next]_vars
  PROVE  [Lifecycles!Next]_(Lifecycles!vars)
<1> USE DEF gwVars, connVars, timeVars, srvVars, At, Goto, Lifecycles!vars
<1>1. TypeOK /\ \A s \in Session : PhaseOK(s)
  BY DEF Inv
<1>2. conn \in [Session -> {"none", "open", "eof", "closed"}]
  BY <1>1 DEF TypeOK
<1>3. ASSUME NEW s \in Session, AddContext(s) PROVE Lifecycles!Next
  <2>1. Lifecycles!Register(s)
    BY <1>1, <1>3 DEF AddContext, PhaseOK, Lifecycles!Register
  <2> QED
    BY <2>1 DEF Lifecycles!Next
<1>4. ASSUME NEW s \in Session, OnSessionClose(s) PROVE Lifecycles!Next
  <2>1. s \in sm /\ conn[s] # "closed" /\ UNCHANGED <<sm, removed>>
    BY <1>1, <1>4 DEF OnSessionClose, PhaseOK
  <2>2. {r \in Session : conn'[r] = "closed"} = {r \in Session : conn[r] = "closed"} \cup {s}
    BY <1>2, <1>4 DEF OnSessionClose
  <2>3. Lifecycles!Close(s)
    BY <2>1, <2>2 DEF Lifecycles!Close
  <2> QED
    BY <2>3 DEF Lifecycles!Next
<1>5. ASSUME NEW s \in Session, Remove(s) PROVE Lifecycles!Next
  <2>1. s \in sm /\ conn[s] = "closed"
    BY <1>1, <1>5 DEF Remove, PhaseOK
  <2>2. Lifecycles!Unregister(s)
    BY <1>5, <2>1 DEF Remove, Lifecycles!Unregister
  <2> QED
    BY <2>2 DEF Lifecycles!Next
<1>6. ASSUME UNCHANGED <<sm, removed>>,
             \A r \in Session : conn'[r] = "closed" <=> conn[r] = "closed"
      PROVE  UNCHANGED Lifecycles!vars
  <2>1. {r \in Session : conn'[r] = "closed"} = {r \in Session : conn[r] = "closed"}
    BY <1>6
  <2> QED
    BY <1>6, <2>1
<1>7. ASSUME NEW s \in Session, Upgrade(s) \/ PeerClose(s) PROVE UNCHANGED Lifecycles!vars
  BY <1>1, <1>2, <1>6, <1>7 DEF Upgrade, PeerClose, PhaseOK
<1>8. ASSUME NEW s \in Session, \/ AddCount(s) \/ Welcome(s) \/ Setup(s) \/ ReadMessage(s)
                                \/ ReadFails(s) \/ Pong(s) \/ CloseChan(s) \/ RemoveCount(s)
      PROVE  UNCHANGED Lifecycles!vars
  BY <1>6, <1>8 DEF AddCount, Welcome, Setup, ReadMessage, ReadFails, Pong, CloseChan,
    RemoveCount
<1>9. ASSUME NEW s \in Session, \/ PingerStep(s) \/ PeerRead(s) \/ Tick(s)
                                \/ \E f \in Frame : PeerSend(s, f)
      PROVE  UNCHANGED Lifecycles!vars
  BY <1>6, <1>9 DEF PingerStep, Ping, PingerEnds, PeerRead, Tick, PeerSend
<1>10. CASE Cancel \/ Shutdown \/ Terminated \/ UNCHANGED vars
  BY <1>6, <1>10, Zenon DEF Cancel, Shutdown, Terminated, vars
<1> QED
  BY <1>3, <1>4, <1>5, <1>7, <1>8, <1>9, <1>10, ZenonT(30) DEF Next, RequestStep, ReaderStep, Environment

\* The WebSocket transport implements the abstract session lifecycle (safety).
THEOREM RefinesLifecycle == SafetySpec => Lifecycles!Safety
<1>1. Init => Lifecycles!Init
  BY DEF Init, Lifecycles!Init
<1>2. Inv /\ [Next]_vars => [Lifecycles!Next]_(Lifecycles!vars)
  BY LifecycleStepMaps
<1> QED
  BY <1>1, <1>2, Invariance, PTL DEF SafetySpec, Lifecycles!Safety
============================================================================
