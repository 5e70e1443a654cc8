------------------------- MODULE TcpSessionProofs -------------------------
(***************************************************************************)
(* TcpSession for any number of connections and every value of its         *)
(* constants: type correctness, the safety invariants of the closing       *)
(* protocol, and the safety half of ImplementsLifecycle.                   *)
(***************************************************************************)
EXTENDS TcpSession, FiniteSetTheorems, TLAPS

\* A leaf that names no backend is tried with the SMT solver, then with Zenon,
\* each given more time than it takes on an idle machine.
USE SMTT(30), ZenonT(20)

\* Where handleConnection stands before it has started the watchers.
PreSpawn == {"none", "add", "count", "init", "register", "welcome", "spawn"}

\* The two closers of s are consistent with the goroutines inside them.
OnceOK(s) ==
  /\ \A g \in Goroutine : pc[s][g] = "shut" => sOnce[s] = g
  /\ closeChan[s] = IF sOnce[s] = "done" THEN "closed" ELSE "open"
  /\ conn[s] = "closed" <=> sOnce[s] # "idle"
  /\ \A g \in Goroutine : scOnce[s] = g => pc[s][g] \in {"sclose", "shut"}
  /\ scOnce[s] # "idle" => scClosed[s]
  /\ scOnce[s] = "done" => sOnce[s] = "done"
  /\ \A g \in Goroutine : pc[s][g] \in {"remove", "uncount"} => scOnce[s] = "done"

\* Who has added s to the manager and who has still to remove it.
OwnerOK(s) ==
  /\ pc[s]["handler"] \in PreSpawn =>
       /\ pc[s]["lifecycle"] = "none" /\ pc[s]["heartbeat"] = "none"
       /\ sOnce[s] = "idle" /\ scOnce[s] = "idle"
  /\ s \in removed => scOnce[s] = "done"
  /\ s \in sm <=> pc[s]["handler"] \notin {"none", "add"} /\ s \notin removed
  /\ pc[s]["handler"] \in {"uncount", "done"} => s \in removed
  /\ pc[s]["handler"] \in {"sclose", "shut"} /\ scOnce[s] # "handler"
       => s \in removed

\* Only the first OnSessionOpen is registering, and nobody is past
\* initOnce.Do before it has finished.
InitOK(s) ==
  /\ pc[s]["handler"] = "register" => initOnce = s
  /\ pc[s]["handler"] \notin {"none", "add", "count", "init", "register"}
       => initOnce = "done"

\* The inductive invariant.
Inv ==
  /\ TypeOK
  /\ \A s \in Session : OnceOK(s) /\ OwnerOK(s) /\ InitOK(s)
  /\ initOnce = "done" => "ping" \in handlers

---------------------------------------------------------------------------
(* Type correctness.                                                       *)

\* Moving one goroutine to a label keeps every goroutine at a label.
LEMMA GotoType ==
  ASSUME TypeOK, NEW s \in Session, NEW g \in Goroutine, NEW l \in Label,
         Goto(s, g, l)
  PROVE  pc' \in [Session -> [Goroutine -> Label]]
  BY DEF TypeOK, Goto

\* The initial state is well typed.
LEMMA TypeInit == Init => TypeOK
<1> SUFFICES ASSUME Init PROVE TypeOK
  OBVIOUS
<1>1. pc \in [Session -> [Goroutine -> Label]]
  BY DEF Init, Label
<1>2. inq \in [Session -> Seq(Frame)] /\ msg \in [Session -> Message]
  BY DEF Init, Message
<1>3. outq \in [Session -> 0..SockBuf] /\ age \in [Session -> 0..(HeartbeatTimeout + 1)]
  BY TcpAssumption DEF Init
<1>4. ctxDone \in BOOLEAN /\ serving \in BOOLEAN
  BY Zenon DEF Init
<1>5. sm \in SUBSET Session /\ removed \in SUBSET Session /\ handlers \in SUBSET {"ping"}
  BY DEF Init
<1>6. count \in Int /\ initOnce \in Session \cup {"idle", "done"}
  BY DEF Init
<1>7. /\ scOnce \in [Session -> Goroutine \cup {"idle", "done"}]
      /\ sOnce \in [Session -> Goroutine \cup {"idle", "done"}]
  BY DEF Init
<1>8. conn \in [Session -> {"none", "open", "eof", "closed"}]
  BY DEF Init
<1>9. /\ scClosed \in [Session -> BOOLEAN] /\ due \in [Session -> BOOLEAN]
      /\ closeChan \in [Session -> {"open", "closed", "panic"}]
  BY DEF Init
<1> QED
  BY <1>1, <1>2, <1>3, <1>4, <1>5, <1>6, <1>7, <1>8, <1>9 DEF TypeOK

\* Every step keeps the state well typed.
LEMMA TypeStep == TypeOK /\ [Next]_vars => TypeOK'
<1> SUFFICES ASSUME TypeOK, [Next]_vars PROVE TypeOK'
  OBVIOUS
<1> USE TcpAssumption DEF gwVars, connVars, onceVars, timeVars, srvVars
<1>1. CASE Cancel
  BY <1>1 DEF Cancel, TypeOK
<1>2. CASE CloseListener
  BY <1>2, Zenon DEF CloseListener, TypeOK
<1>3. ASSUME NEW s \in Session, AddContext(s) PROVE TypeOK'
  BY <1>3 DEF AddContext, TypeOK, Goto, Goroutine, Label
<1>4. ASSUME NEW s \in Session, AddCount(s) PROVE TypeOK'
  BY <1>4 DEF AddCount, TypeOK, Goto, Goroutine, Label
<1>5. ASSUME NEW s \in Session, InitOnce(s) PROVE TypeOK'
  <2>1. \E l \in Label : Goto(s, "handler", l)
    BY <1>5 DEF InitOnce, Label
  <2>2. pc' \in [Session -> [Goroutine -> Label]]
    BY <2>1, GotoType DEF Goroutine
  <2>3. initOnce' \in Session \cup {"idle", "done"}
    BY <1>5 DEF InitOnce, TypeOK
  <2> QED
    BY <1>5, <2>2, <2>3 DEF InitOnce, TypeOK
<1>6. ASSUME NEW s \in Session, Register(s) PROVE TypeOK'
  BY <1>6 DEF Register, TypeOK, Goto, Goroutine, Label
<1>7. ASSUME NEW s \in Session, Welcome(s) PROVE TypeOK'
  <2>1. \E l \in Label : Goto(s, "handler", l)
    BY <1>7 DEF Welcome, Label
  <2>2. pc' \in [Session -> [Goroutine -> Label]]
    BY <2>1, GotoType DEF Goroutine
  <2>3. outq' \in [Session -> 0..SockBuf]
    BY <1>7 DEF Welcome, Send, TypeOK
  <2> QED
    BY <1>7, <2>2, <2>3 DEF Welcome, TypeOK
<1>8. ASSUME NEW s \in Session, Spawn(s) PROVE TypeOK'
  BY <1>8 DEF Spawn, TypeOK, Goto, Goroutine, Label
<1>9. ASSUME NEW s \in Session, ReadFrame(s) PROVE TypeOK'
  <2>1. \E l \in Label : Goto(s, "handler", l)
    BY <1>9 DEF ReadFrame, Label
  <2>2. pc' \in [Session -> [Goroutine -> Label]]
    BY <2>1, GotoType DEF Goroutine
  <2>3. inq' \in [Session -> Seq(Frame)]
    <3>1. inq \in [Session -> Seq(Frame)]
      BY DEF TypeOK
    <3>2. inq' = inq \/ inq' = [inq EXCEPT ![s] = Tail(inq[s])]
      BY <1>9, <3>1 DEF ReadFrame
    <3>3. inq' = inq \/ inq[s] # <<>>
      BY <1>9, <3>1 DEF ReadFrame
    <3>4. inq[s] # <<>> => Tail(inq[s]) \in Seq(Frame)
      BY <3>1
    <3> QED
      BY <3>1, <3>2, <3>3, <3>4, Zenon
  <2>4. msg' \in [Session -> Message]
    <3>1. msg \in [Session -> Message]
      BY DEF TypeOK
    <3>2. msg' = msg \/ \E f \in Message : msg' = [msg EXCEPT ![s] = f]
      BY <1>9 DEF ReadFrame
    <3> QED
      BY <3>1, <3>2
  <2>5. age' \in [Session -> 0..(HeartbeatTimeout + 1)]
    <3>1. age \in [Session -> 0..(HeartbeatTimeout + 1)]
      BY DEF TypeOK
    <3>2. age' = age \/ age' = [age EXCEPT ![s] = 0]
      BY <1>9 DEF ReadFrame
    <3> QED
      BY <3>1, <3>2
  <2> QED
    BY <1>9, <2>2, <2>3, <2>4, <2>5 DEF ReadFrame, TypeOK
<1>10. ASSUME NEW s \in Session, Dispatch(s) PROVE TypeOK'
  BY <1>10, ZenonT(30) DEF Dispatch, TypeOK, Goto, Goroutine, Label
<1>11. ASSUME NEW s \in Session, Pong(s) PROVE TypeOK'
  <2>1. \E l \in Label : Goto(s, "handler", l)
    BY <1>11 DEF Pong, Label
  <2>2. pc' \in [Session -> [Goroutine -> Label]]
    BY <2>1, GotoType DEF Goroutine
  <2>3. outq' \in [Session -> 0..SockBuf]
    BY <1>11 DEF Pong, Send, TypeOK
  <2> QED
    BY <1>11, <2>2, <2>3, Zenon DEF Pong, TypeOK
<1>12. ASSUME NEW s \in Session, LifecycleCtxDone(s) PROVE TypeOK'
  BY <1>12 DEF LifecycleCtxDone, TypeOK, Goto, Goroutine, Label
<1>13. ASSUME NEW s \in Session, LifecycleClosed(s) PROVE TypeOK'
  BY <1>13 DEF LifecycleClosed, TypeOK, Goto, Goroutine, Label
<1>14. ASSUME NEW s \in Session, Heartbeat(s) PROVE TypeOK'
  BY <1>14 DEF Heartbeat, TypeOK, Goto, Goroutine, Label, At
<1>15. ASSUME NEW s \in Session, Accept(s) PROVE TypeOK'
  BY <1>15 DEF Accept, TypeOK, Goto, Goroutine, Label
<1>16. ASSUME NEW s \in Session, ReadExpires(s) PROVE TypeOK'
  BY <1>16 DEF ReadExpires, TypeOK, Goto, Goroutine, Label
<1>17. ASSUME NEW s \in Session, PeerRead(s) PROVE TypeOK'
  BY <1>17 DEF PeerRead, TypeOK, Goto, Goroutine, Label
<1>18. ASSUME NEW s \in Session, PeerClose(s) PROVE TypeOK'
  <2>1. inq' \in [Session -> Seq(Frame)]
    <3>1. inq \in [Session -> Seq(Frame)] /\ <<>> \in Seq(Frame)
      BY DEF TypeOK
    <3>2. inq' = inq \/ inq' = [inq EXCEPT ![s] = <<>>]
      BY <1>18 DEF PeerClose
    <3> QED
      BY <3>1, <3>2, Zenon
  <2> QED
    BY <1>18, <2>1, Zenon DEF PeerClose, TypeOK
<1>19. ASSUME NEW s \in Session, Tick(s) PROVE TypeOK'
  BY <1>19 DEF Tick, TypeOK, Goto, Goroutine, Label
<1>20. ASSUME NEW s \in Session, NEW f \in Frame, PeerSend(s, f) PROVE TypeOK'
  <2>1. Append(inq[s], f) \in Seq(Frame)
    BY DEF TypeOK
  <2>2. inq' \in [Session -> Seq(Frame)]
    BY <1>20, <2>1 DEF PeerSend, TypeOK
  <2> QED
    BY <1>20, <2>2 DEF PeerSend, TypeOK
<1>21. ASSUME NEW s \in Session, NEW g \in Goroutine, OnSessionClose(s, g)
       PROVE  TypeOK'
  <2>1. \E l \in Label : Goto(s, g, l)
    BY <1>21 DEF OnSessionClose, Label
  <2>2. pc' \in [Session -> [Goroutine -> Label]]
    BY <2>1, GotoType
  <2>3. scOnce' \in [Session -> Goroutine \cup {"idle", "done"}]
    <3>1. scOnce \in [Session -> Goroutine \cup {"idle", "done"}]
      BY DEF TypeOK
    <3>2. scOnce' = scOnce \/ scOnce' = [scOnce EXCEPT ![s] = g]
      BY <1>21 DEF OnSessionClose
    <3> QED
      BY <3>1, <3>2
  <2>4. scClosed' \in [Session -> BOOLEAN]
    <3>1. scClosed \in [Session -> BOOLEAN]
      BY DEF TypeOK
    <3>2. scClosed' = scClosed \/ scClosed' = [scClosed EXCEPT ![s] = TRUE]
      BY <1>21 DEF OnSessionClose
    <3> QED
      BY <3>1, <3>2, Zenon
  <2> QED
    BY <1>21, <2>2, <2>3, <2>4 DEF OnSessionClose, TypeOK
<1>22. ASSUME NEW s \in Session, NEW g \in Goroutine, SessionClose(s, g)
       PROVE  TypeOK'
  <2>1. \E l \in Label : Goto(s, g, l)
    BY <1>22 DEF SessionClose, CloseReturns, Label
  <2>2. pc' \in [Session -> [Goroutine -> Label]]
    BY <2>1, GotoType
  <2>3. scOnce' \in [Session -> Goroutine \cup {"idle", "done"}]
    <3>1. scOnce \in [Session -> Goroutine \cup {"idle", "done"}]
      BY DEF TypeOK
    <3>2. scOnce' = scOnce \/ scOnce' = [scOnce EXCEPT ![s] = "done"]
      BY <1>22 DEF SessionClose, CloseReturns
    <3> QED
      BY <3>1, <3>2
  <2>4. sOnce' \in [Session -> Goroutine \cup {"idle", "done"}]
    <3>1. sOnce \in [Session -> Goroutine \cup {"idle", "done"}]
      BY DEF TypeOK
    <3>2. sOnce' = sOnce \/ sOnce' = [sOnce EXCEPT ![s] = g]
      BY <1>22 DEF SessionClose
    <3> QED
      BY <3>1, <3>2
  <2>5. conn' \in [Session -> {"none", "open", "eof", "closed"}]
    <3>1. conn \in [Session -> {"none", "open", "eof", "closed"}]
      BY DEF TypeOK
    <3>2. conn' = conn \/ conn' = [conn EXCEPT ![s] = "closed"]
      BY <1>22 DEF SessionClose, CloseConn
    <3> QED
      BY <3>1, <3>2
  <2>6. inq' \in [Session -> Seq(Frame)]
    <3>1. inq \in [Session -> Seq(Frame)] /\ <<>> \in Seq(Frame)
      BY DEF TypeOK
    <3>2. inq' = inq \/ inq' = [inq EXCEPT ![s] = <<>>]
      BY <1>22 DEF SessionClose, CloseConn
    <3> QED
      BY <3>1, <3>2, Zenon
  <2>7. outq' \in [Session -> 0..SockBuf]
    <3>1. outq \in [Session -> 0..SockBuf]
      BY DEF TypeOK
    <3>2. outq' = outq \/ outq' = [outq EXCEPT ![s] = 0]
      BY <1>22 DEF SessionClose, CloseConn
    <3> QED
      BY <3>1, <3>2
  <2> QED
    BY <1>22, <2>2, <2>3, <2>4, <2>5, <2>6, <2>7 DEF SessionClose, TypeOK
<1>23. ASSUME NEW s \in Session, NEW g \in Goroutine, CloseChan(s, g)
       PROVE  TypeOK'
  <2>1. \E l \in Label : Goto(s, g, l)
    BY <1>23 DEF CloseChan, CloseReturns, Label
  <2>2. pc' \in [Session -> [Goroutine -> Label]]
    BY <2>1, GotoType
  <2>3. scOnce' \in [Session -> Goroutine \cup {"idle", "done"}]
    <3>1. scOnce \in [Session -> Goroutine \cup {"idle", "done"}]
      BY DEF TypeOK
    <3>2. scOnce' = scOnce \/ scOnce' = [scOnce EXCEPT ![s] = "done"]
      BY <1>23 DEF CloseChan, CloseReturns
    <3> QED
      BY <3>1, <3>2
  <2>4. sOnce' \in [Session -> Goroutine \cup {"idle", "done"}]
    <3>1. sOnce \in [Session -> Goroutine \cup {"idle", "done"}]
      BY DEF TypeOK
    <3>2. sOnce' = [sOnce EXCEPT ![s] = "done"]
      BY <1>23 DEF CloseChan
    <3> QED
      BY <3>1, <3>2
  <2>5. closeChan' \in [Session -> {"open", "closed", "panic"}]
    <3>1. closeChan \in [Session -> {"open", "closed", "panic"}]
      BY DEF TypeOK
    <3>2. \E c \in {"closed", "panic"} : closeChan' = [closeChan EXCEPT ![s] = c]
      BY <1>23, Zenon DEF CloseChan
    <3> QED
      BY <3>1, <3>2
  <2> QED
    BY <1>23, <2>2, <2>3, <2>4, <2>5 DEF CloseChan, TypeOK
<1>24. ASSUME NEW s \in Session, NEW g \in Goroutine, Remove(s, g) PROVE TypeOK'
  BY <1>24 DEF Remove, TypeOK, Goto, Label
<1>25. ASSUME NEW s \in Session, NEW g \in Goroutine, RemoveCount(s, g)
       PROVE  TypeOK'
  BY <1>25 DEF RemoveCount, TypeOK, Goto, Label
<1>26. CASE UNCHANGED vars
  BY <1>26 DEF vars, TypeOK
<1> QED
  BY <1>1, <1>2, <1>3, <1>4, <1>5, <1>6, <1>7, <1>8, <1>9, <1>10, <1>11, <1>12,
     <1>13, <1>14, <1>15, <1>16, <1>17, <1>18, <1>19, <1>20, <1>21, <1>22,
     <1>23, <1>24, <1>25, <1>26
     DEF Next, HandlerStep, LifecycleStep, HeartbeatStep, Environment, Closing,
         Terminated, Goroutine

---------------------------------------------------------------------------
(* The inductive invariant.                                                *)

\* The invariant holds when the server starts.
LEMMA InvInit == Init => Inv
<1> SUFFICES ASSUME Init PROVE Inv
  OBVIOUS
<1>1. TypeOK
  BY TypeInit
<1>2. ASSUME NEW s \in Session PROVE OnceOK(s) /\ OwnerOK(s) /\ InitOK(s)
  BY DEF Init, OnceOK, OwnerOK, InitOK, Goroutine, PreSpawn
<1>3. initOnce # "done"
  BY DEF Init
<1> QED
  BY <1>1, <1>2, <1>3 DEF Inv

\* Everything the invariant says of session t is as it was.
Same(t) ==
  /\ pc'[t] = pc[t] /\ conn'[t] = conn[t]
  /\ scClosed'[t] = scClosed[t] /\ scOnce'[t] = scOnce[t]
  /\ sOnce'[t] = sOnce[t] /\ closeChan'[t] = closeChan[t]
  /\ t \in sm' <=> t \in sm
  /\ t \in removed' <=> t \in removed

\* A goroutine that moves, moves alone.
LEMMA GotoAt ==
  ASSUME TypeOK, NEW s \in Session, NEW g \in Goroutine, NEW l \in Label, Goto(s, g, l)
  PROVE  pc'[s][g] = l /\ \A h \in Goroutine \ {g} : pc'[s][h] = pc[s][h]
  BY DEF TypeOK, Goto

\* A step that keeps all that a session's part of the invariant mentions
\* keeps that part.
LEMMA SameOK ==
  ASSUME NEW t \in Session, Same(t), OnceOK(t), OwnerOK(t)
  PROVE  OnceOK(t)' /\ OwnerOK(t)'
  BY DEF Same, OnceOK, OwnerOK

\* The closing protocol: steps preserve OnceOK and OwnerOK.
LEMMA ClosingStep ==
  ASSUME Inv, [Next]_vars, NEW t \in Session
  PROVE  OnceOK(t)' /\ OwnerOK(t)'
<1> USE DEF gwVars, connVars, onceVars, timeVars, srvVars
<1>0. TypeOK /\ OnceOK(t) /\ OwnerOK(t)
  BY DEF Inv
<1>1. CASE Cancel
  BY <1>1, <1>0 DEF Cancel, OnceOK, OwnerOK
<1>2. CASE CloseListener
  BY <1>2, <1>0 DEF CloseListener, OnceOK, OwnerOK
<1>3. ASSUME NEW s \in Session, AddContext(s) PROVE OnceOK(t)' /\ OwnerOK(t)'
  <2>1. CASE t # s
    <3>1. Same(t)
      BY <1>3, <1>0, <2>1 DEF AddContext, TypeOK, Goto, Same
    <3> QED
      BY <1>0, <3>1, SameOK
  <2>2. CASE t = s
    BY <1>3, <1>0, <2>2 DEF AddContext, TypeOK, OnceOK, OwnerOK, PreSpawn, At,
       Goto, Goroutine
  <2> QED
    BY <2>1, <2>2
<1>4. ASSUME NEW s \in Session, AddCount(s) PROVE OnceOK(t)' /\ OwnerOK(t)'
  <2>1. CASE t # s
    <3>1. Same(t)
      BY <1>4, <1>0, <2>1 DEF AddCount, TypeOK, Goto, Same
    <3> QED
      BY <1>0, <3>1, SameOK
  <2>2. CASE t = s
    BY <1>4, <1>0, <2>2 DEF AddCount, TypeOK, OnceOK, OwnerOK, PreSpawn, At,
       Goto, Goroutine
  <2> QED
    BY <2>1, <2>2
<1>5. ASSUME NEW s \in Session, InitOnce(s) PROVE OnceOK(t)' /\ OwnerOK(t)'
  <2>1. CASE t # s
    <3>1. Same(t)
      BY <1>5, <1>0, <2>1 DEF InitOnce, TypeOK, Goto, Same
    <3> QED
      BY <1>0, <3>1, SameOK
  <2>2. CASE t = s
    BY <1>5, <1>0, <2>2 DEF InitOnce, TypeOK, OnceOK, OwnerOK, PreSpawn, At,
       Goto, Goroutine
  <2> QED
    BY <2>1, <2>2
<1>6. ASSUME NEW s \in Session, Register(s) PROVE OnceOK(t)' /\ OwnerOK(t)'
  <2>1. CASE t # s
    <3>1. Same(t)
      BY <1>6, <1>0, <2>1 DEF Register, TypeOK, Goto, Same
    <3> QED
      BY <1>0, <3>1, SameOK
  <2>2. CASE t = s
    BY <1>6, <1>0, <2>2 DEF Register, TypeOK, OnceOK, OwnerOK, PreSpawn, At,
       Goto, Goroutine
  <2> QED
    BY <2>1, <2>2
<1>7. ASSUME NEW s \in Session, Welcome(s) PROVE OnceOK(t)' /\ OwnerOK(t)'
  <2>1. CASE t # s
    <3>1. Same(t)
      BY <1>7, <1>0, <2>1 DEF Welcome, TypeOK, Goto, Same
    <3> QED
      BY <1>0, <3>1, SameOK
  <2>2. CASE t = s
    BY <1>7, <1>0, <2>2 DEF Welcome, TypeOK, OnceOK, OwnerOK, PreSpawn, At,
       Goto, Goroutine
  <2> QED
    BY <2>1, <2>2
<1>8. ASSUME NEW s \in Session, Spawn(s) PROVE OnceOK(t)' /\ OwnerOK(t)'
  <2>1. CASE t # s
    <3>1. Same(t)
      BY <1>8, <1>0, <2>1 DEF Spawn, TypeOK, Goto, Same
    <3> QED
      BY <1>0, <3>1, SameOK
  <2>2. CASE t = s
    <3> DEFINE l == IF HeartbeatTimeout = 0 THEN "done" ELSE "wait"
               r == [handler |-> "read", lifecycle |-> "select", heartbeat |-> l]
    <3>1. /\ pc[s]["handler"] = "spawn" /\ DOMAIN pc = Session /\ pc' = [pc EXCEPT ![s] = r]
          /\ l \in {"done", "wait"}
          /\ UNCHANGED <<conn, sOnce, scOnce, scClosed, closeChan, sm, removed>>
      BY <1>8, <1>0 DEF Spawn, At, TypeOK
    <3> HIDE DEF l
    <3>2. r["handler"] = "read" /\ r["lifecycle"] = "select" /\ r["heartbeat"] = l
      OBVIOUS
    <3> HIDE DEF r
    <3>3. /\ pc'[s]["handler"] = "read" /\ pc'[s]["lifecycle"] = "select"
          /\ pc'[s]["heartbeat"] \in {"done", "wait"}
      BY <3>1, <3>2
    <3>4. sOnce[s] = "idle" /\ scOnce[s] = "idle"
      BY <1>0, <2>2, <3>1 DEF OwnerOK, PreSpawn
    <3>5. OnceOK(s)'
      BY <1>0, <2>2, <3>1, <3>3, <3>4 DEF OnceOK, Goroutine
    <3>6. OwnerOK(s)'
      BY <1>0, <2>2, <3>1, <3>3 DEF OwnerOK, PreSpawn
    <3> QED
      BY <2>2, <3>5, <3>6
  <2> QED
    BY <2>1, <2>2
<1>9. ASSUME NEW s \in Session, ReadFrame(s) PROVE OnceOK(t)' /\ OwnerOK(t)'
  <2>1. CASE t # s
    <3>1. Same(t)
      BY <1>9, <1>0, <2>1 DEF ReadFrame, TypeOK, Goto, Same
    <3> QED
      BY <1>0, <3>1, SameOK
  <2>2. CASE t = s
    <3>1. /\ pc[s]["handler"] = "read" /\ DOMAIN pc = Session /\ DOMAIN pc[s] = Goroutine
          /\ UNCHANGED <<conn, sOnce, scOnce, scClosed, closeChan, sm, removed>>
      BY <1>9, <1>0 DEF ReadFrame, At, TypeOK
    <3>2. PICK l \in {"read", "dispatch", "onclose"} : pc' = [pc EXCEPT ![s]["handler"] = l]
      BY <1>9 DEF ReadFrame, Goto
    <3>3. pc'[s]["handler"] = l /\ \A g \in Goroutine \ {"handler"} : pc'[s][g] = pc[s][g]
      BY <3>1, <3>2 DEF Goroutine
    <3>4. OnceOK(s)'
      BY <1>0, <2>2, <3>1, <3>3 DEF OnceOK, Goroutine
    <3>5. OwnerOK(s)'
      BY <1>0, <2>2, <3>1, <3>3 DEF OwnerOK, PreSpawn, Goroutine
    <3> QED
      BY <2>2, <3>4, <3>5
  <2> QED
    BY <2>1, <2>2
<1>10. ASSUME NEW s \in Session, Dispatch(s) PROVE OnceOK(t)' /\ OwnerOK(t)'
  <2>1. CASE t # s
    <3>1. Same(t)
      BY <1>10, <1>0, <2>1 DEF Dispatch, TypeOK, Goto, Same
    <3> QED
      BY <1>0, <3>1, SameOK
  <2>2. CASE t = s
    <3>1. /\ pc[s]["handler"] = "dispatch" /\ DOMAIN pc = Session /\ DOMAIN pc[s] = Goroutine
          /\ UNCHANGED <<conn, sOnce, scOnce, scClosed, closeChan, sm, removed>>
      BY <1>10, <1>0 DEF Dispatch, At, TypeOK
    <3>2. PICK l \in {"read", "pong"} : pc' = [pc EXCEPT ![s]["handler"] = l]
      BY <1>10, ZenonT(30) DEF Dispatch, Goto
    <3>3. pc'[s]["handler"] = l /\ \A g \in Goroutine \ {"handler"} : pc'[s][g] = pc[s][g]
      BY <3>1, <3>2 DEF Goroutine
    <3>4. OnceOK(s)'
      BY <1>0, <2>2, <3>1, <3>3 DEF OnceOK, Goroutine
    <3>5. OwnerOK(s)'
      BY <1>0, <2>2, <3>1, <3>3 DEF OwnerOK, PreSpawn, Goroutine
    <3> QED
      BY <2>2, <3>4, <3>5
  <2> QED
    BY <2>1, <2>2
<1>11. ASSUME NEW s \in Session, Pong(s) PROVE OnceOK(t)' /\ OwnerOK(t)'
  <2>1. CASE t # s
    <3>1. Same(t)
      BY <1>11, <1>0, <2>1 DEF Pong, TypeOK, Goto, Same
    <3> QED
      BY <1>0, <3>1, SameOK
  <2>2. CASE t = s
    BY <1>11, <1>0, <2>2 DEF Pong, TypeOK, OnceOK, OwnerOK, PreSpawn, At, Goto,
       Goroutine
  <2> QED
    BY <2>1, <2>2
<1>12. ASSUME NEW s \in Session, LifecycleCtxDone(s)
       PROVE  OnceOK(t)' /\ OwnerOK(t)'
  <2>1. CASE t # s
    <3>1. Same(t)
      BY <1>12, <1>0, <2>1 DEF LifecycleCtxDone, TypeOK, Goto, Same
    <3> QED
      BY <1>0, <3>1, SameOK
  <2>2. CASE t = s
    BY <1>12, <1>0, <2>2 DEF LifecycleCtxDone, TypeOK, OnceOK, OwnerOK,
       PreSpawn, At, Goto, Goroutine
  <2> QED
    BY <2>1, <2>2
<1>13. ASSUME NEW s \in Session, LifecycleClosed(s)
       PROVE  OnceOK(t)' /\ OwnerOK(t)'
  <2>1. CASE t # s
    <3>1. Same(t)
      BY <1>13, <1>0, <2>1 DEF LifecycleClosed, TypeOK, Goto, Same
    <3> QED
      BY <1>0, <3>1, SameOK
  <2>2. CASE t = s
    BY <1>13, <1>0, <2>2 DEF LifecycleClosed, TypeOK, OnceOK, OwnerOK,
       PreSpawn, At, Goto, Goroutine
  <2> QED
    BY <2>1, <2>2
<1>14. ASSUME NEW s \in Session, Heartbeat(s) PROVE OnceOK(t)' /\ OwnerOK(t)'
  <2>1. CASE t # s
    <3>1. Same(t)
      BY <1>14, <1>0, <2>1 DEF Heartbeat, TypeOK, Goto, Same
    <3> QED
      BY <1>0, <3>1, SameOK
  <2>2. CASE t = s
    BY <1>14, <1>0, <2>2 DEF Heartbeat, TypeOK, OnceOK, OwnerOK, PreSpawn, At,
       Goto, Goroutine
  <2> QED
    BY <2>1, <2>2
<1>15. ASSUME NEW s \in Session, Accept(s) PROVE OnceOK(t)' /\ OwnerOK(t)'
  <2>1. CASE t # s
    <3>1. Same(t)
      BY <1>15, <1>0, <2>1 DEF Accept, TypeOK, Goto, Same
    <3> QED
      BY <1>0, <3>1, SameOK
  <2>2. CASE t = s
    BY <1>15, <1>0, <2>2 DEF Accept, TypeOK, OnceOK, OwnerOK, PreSpawn, At,
       Goto, Goroutine
  <2> QED
    BY <2>1, <2>2
<1>16. ASSUME NEW s \in Session, ReadExpires(s) PROVE OnceOK(t)' /\ OwnerOK(t)'
  <2>1. CASE t # s
    <3>1. Same(t)
      BY <1>16, <1>0, <2>1 DEF ReadExpires, TypeOK, Goto, Same
    <3> QED
      BY <1>0, <3>1, SameOK
  <2>2. CASE t = s
    BY <1>16, <1>0, <2>2 DEF ReadExpires, TypeOK, OnceOK, OwnerOK, PreSpawn,
       At, Goto, Goroutine
  <2> QED
    BY <2>1, <2>2
<1>17. ASSUME NEW s \in Session, PeerRead(s) PROVE OnceOK(t)' /\ OwnerOK(t)'
  <2>1. CASE t # s
    <3>1. Same(t)
      BY <1>17, <1>0, <2>1 DEF PeerRead, TypeOK, Goto, Same
    <3> QED
      BY <1>0, <3>1, SameOK
  <2>2. CASE t = s
    BY <1>17, <1>0, <2>2 DEF PeerRead, TypeOK, OnceOK, OwnerOK, PreSpawn, At,
       Goto, Goroutine
  <2> QED
    BY <2>1, <2>2
<1>18. ASSUME NEW s \in Session, PeerClose(s) PROVE OnceOK(t)' /\ OwnerOK(t)'
  <2>1. CASE t # s
    <3>1. Same(t)
      BY <1>18, <1>0, <2>1 DEF PeerClose, TypeOK, Goto, Same
    <3> QED
      BY <1>0, <3>1, SameOK
  <2>2. CASE t = s
    BY <1>18, <1>0, <2>2 DEF PeerClose, TypeOK, OnceOK, OwnerOK, PreSpawn, At,
       Goto, Goroutine
  <2> QED
    BY <2>1, <2>2
<1>19. ASSUME NEW s \in Session, Tick(s) PROVE OnceOK(t)' /\ OwnerOK(t)'
  <2>1. CASE t # s
    <3>1. Same(t)
      BY <1>19, <1>0, <2>1 DEF Tick, TypeOK, Goto, Same
    <3> QED
      BY <1>0, <3>1, SameOK
  <2>2. CASE t = s
    BY <1>19, <1>0, <2>2 DEF Tick, TypeOK, OnceOK, OwnerOK, PreSpawn, At, Goto,
       Goroutine
  <2> QED
    BY <2>1, <2>2
<1>20. ASSUME NEW s \in Session, NEW f \in Frame, PeerSend(s, f)
       PROVE  OnceOK(t)' /\ OwnerOK(t)'
  BY <1>20, <1>0 DEF PeerSend, OnceOK, OwnerOK
<1>21. ASSUME NEW s \in Session, NEW g \in Goroutine, OnSessionClose(s, g)
       PROVE  OnceOK(t)' /\ OwnerOK(t)'
  <2>1. CASE t # s
    <3>1. Same(t)
      BY <1>21, <1>0, <2>1 DEF OnSessionClose, TypeOK, Goto, Same
    <3> QED
      BY <1>0, <3>1, SameOK
  <2>2. CASE t = s
    <3>1. /\ pc[s][g] = "onclose" /\ OnceOK(s) /\ OwnerOK(s)
          /\ UNCHANGED <<conn, sOnce, closeChan, sm, removed>>
      BY <1>21, <1>0, <2>2, ZenonT(30) DEF OnSessionClose, At
    <3>2. DOMAIN scOnce = Session /\ DOMAIN scClosed = Session
      BY <1>0 DEF TypeOK
    <3>3. CASE scOnce[s] = "idle"
      <4>1. pc'[s][g] = "sclose" /\ \A h \in Goroutine \ {g} : pc'[s][h] = pc[s][h]
        BY <1>21, <1>0, <3>1, <3>3, GotoAt, ZenonT(30) DEF OnSessionClose, Label
      <4>2. scOnce'[s] = g /\ scClosed'[s]
        BY <1>21, <3>1, <3>2, <3>3, ZenonT(30) DEF OnSessionClose
      <4>3. OnceOK(s)'
        BY <3>1, <3>2, <3>3, <4>1, <4>2, ZenonT(30) DEF OnceOK, Goroutine
      <4>4. OwnerOK(s)'
        BY <3>1, <3>2, <3>3, <4>1, <4>2 DEF OnceOK, OwnerOK, PreSpawn, Goroutine
      <4> QED
        BY <2>2, <4>3, <4>4
    <3>4. CASE scOnce[s] = "done"
      <4>1. pc'[s][g] = "remove" /\ \A h \in Goroutine \ {g} : pc'[s][h] = pc[s][h]
        BY <1>21, <1>0, <3>1, <3>4, GotoAt DEF OnSessionClose, Label
      <4>2. scOnce'[s] = "done" /\ scClosed'[s] = scClosed[s]
        BY <1>21, <3>1, <3>2, <3>4 DEF OnSessionClose
      <4>3. OnceOK(s)'
        BY <3>1, <3>2, <3>4, <4>1, <4>2 DEF OnceOK, Goroutine
      <4>4. OwnerOK(s)'
        BY <3>1, <3>2, <3>4, <4>1, <4>2 DEF OnceOK, OwnerOK, PreSpawn, Goroutine
      <4> QED
        BY <2>2, <4>3, <4>4
    <3> QED
      BY <1>21, <3>1, <3>3, <3>4 DEF OnSessionClose
  <2> QED
    BY <2>1, <2>2
<1>22. ASSUME NEW s \in Session, NEW g \in Goroutine, SessionClose(s, g)
       PROVE  OnceOK(t)' /\ OwnerOK(t)'
  <2>1. CASE t # s
    <3>1. Same(t)
      BY <1>22, <1>0, <2>1 DEF SessionClose, TypeOK, Goto, Same, CloseReturns,
         CloseConn, FirstClose
    <3> QED
      BY <1>0, <3>1, SameOK
  <2>2. CASE t = s
    <3>1. /\ pc[s][g] = "sclose" /\ OnceOK(s) /\ OwnerOK(s)
          /\ UNCHANGED <<scClosed, closeChan, sm, removed>>
      BY <1>22, <1>0, <2>2, ZenonT(30) DEF SessionClose, At
    <3>2. DOMAIN scOnce = Session /\ DOMAIN sOnce = Session /\ DOMAIN conn = Session
      BY <1>0 DEF TypeOK
    <3>3. CASE sOnce[s] = "idle"
      <4>1. pc'[s][g] = "shut" /\ \A h \in Goroutine \ {g} : pc'[s][h] = pc[s][h]
        BY <1>22, <1>0, <3>1, <3>3, GotoAt, ZenonT(30) DEF SessionClose, FirstClose, CloseConn, Label
      <4>2. scOnce'[s] = scOnce[s] /\ sOnce'[s] = g /\ conn'[s] = "closed"
        BY <1>22, <3>1, <3>2, <3>3 DEF SessionClose, FirstClose, CloseConn
      <4>3. OnceOK(s)'
        BY <3>1, <3>2, <3>3, <4>1, <4>2 DEF OnceOK, Goroutine
      <4>4. OwnerOK(s)'
        BY <3>1, <3>2, <3>3, <4>1, <4>2 DEF OnceOK, OwnerOK, PreSpawn, Goroutine
      <4> QED
        BY <2>2, <4>3, <4>4
    <3>4. CASE sOnce[s] = "done" /\ scOnce[s] = g
      <4>1. pc'[s][g] = "remove" /\ \A h \in Goroutine \ {g} : pc'[s][h] = pc[s][h]
        BY <1>22, <1>0, <3>1, <3>4, GotoAt DEF SessionClose, FirstClose, CloseReturns, Label
      <4>2. scOnce'[s] = "done" /\ sOnce'[s] = sOnce[s] /\ conn'[s] = conn[s]
        BY <1>22, <3>1, <3>2, <3>4 DEF SessionClose, FirstClose, CloseReturns
      <4>3. OnceOK(s)'
        BY <3>1, <3>2, <3>4, <4>1, <4>2 DEF OnceOK, Goroutine
      <4>4. OwnerOK(s)'
        BY <3>1, <3>2, <3>4, <4>1, <4>2 DEF OnceOK, OwnerOK, PreSpawn, Goroutine
      <4> QED
        BY <2>2, <4>3, <4>4
    <3>5. CASE sOnce[s] = "done" /\ scOnce[s] # g
      <4>1. pc'[s][g] = "done" /\ \A h \in Goroutine \ {g} : pc'[s][h] = pc[s][h]
        BY <1>22, <1>0, <3>1, <3>5, GotoAt DEF SessionClose, FirstClose, CloseReturns, Label
      <4>2. scOnce'[s] = scOnce[s] /\ sOnce'[s] = sOnce[s] /\ conn'[s] = conn[s]
        BY <1>22, <3>1, <3>2, <3>5 DEF SessionClose, FirstClose, CloseReturns
      <4>3. OnceOK(s)'
        BY <3>1, <3>2, <3>5, <4>1, <4>2 DEF OnceOK, Goroutine
      <4>4. OwnerOK(s)'
        BY <3>1, <3>2, <3>5, <4>1, <4>2 DEF OnceOK, OwnerOK, PreSpawn, Goroutine
      <4> QED
        BY <2>2, <4>3, <4>4
    <3> QED
      BY <1>22, <3>1, <3>3, <3>4, <3>5, ZenonT(30) DEF SessionClose, FirstClose
  <2> QED
    BY <2>1, <2>2
<1>23. ASSUME NEW s \in Session, NEW g \in Goroutine, CloseChan(s, g)
       PROVE  OnceOK(t)' /\ OwnerOK(t)'
  <2>1. CASE t # s
    <3>1. Same(t)
      BY <1>23, <1>0, <2>1 DEF CloseChan, TypeOK, Goto, Same, CloseReturns
    <3> QED
      BY <1>0, <3>1, SameOK
  <2>2. CASE t = s
    <3>1. /\ pc[s][g] = "shut" /\ OnceOK(s) /\ OwnerOK(s)
          /\ UNCHANGED <<scClosed, conn, sm, removed>>
      BY <1>23, <1>0, <2>2, ZenonT(30) DEF CloseChan, At
    <3>2. DOMAIN scOnce = Session /\ DOMAIN sOnce = Session /\ DOMAIN closeChan = Session
      BY <1>0 DEF TypeOK
    <3>3. CASE scOnce[s] = g
      <4>1. pc'[s][g] = "remove" /\ \A h \in Goroutine \ {g} : pc'[s][h] = pc[s][h]
        BY <1>23, <1>0, <3>1, <3>3, GotoAt, ZenonT(30) DEF CloseChan, CloseReturns, Label
      <4>2. /\ scOnce'[s] = "done" /\ sOnce'[s] = "done"
            /\ closeChan'[s] = IF closeChan[s] = "open" THEN "closed" ELSE "panic"
        BY <1>23, <3>1, <3>2, <3>3, ZenonT(30) DEF CloseChan, CloseReturns
      <4>3. OnceOK(s)'
        BY <3>1, <3>2, <3>3, <4>1, <4>2 DEF OnceOK, Goroutine
      <4>4. OwnerOK(s)'
        BY <3>1, <3>2, <3>3, <4>1, <4>2 DEF OnceOK, OwnerOK, PreSpawn, Goroutine
      <4> QED
        BY <2>2, <4>3, <4>4
    <3>4. CASE scOnce[s] # g
      <4>1. pc'[s][g] = "done" /\ \A h \in Goroutine \ {g} : pc'[s][h] = pc[s][h]
        BY <1>23, <1>0, <3>1, <3>4, GotoAt, ZenonT(30) DEF CloseChan, CloseReturns, Label
      <4>2. /\ scOnce'[s] = scOnce[s] /\ sOnce'[s] = "done"
            /\ closeChan'[s] = IF closeChan[s] = "open" THEN "closed" ELSE "panic"
        BY <1>23, <3>1, <3>2, <3>4, ZenonT(30) DEF CloseChan, CloseReturns
      <4>3. OnceOK(s)'
        BY <3>1, <3>2, <3>4, <4>1, <4>2 DEF OnceOK, Goroutine
      <4>4. OwnerOK(s)'
        BY <3>1, <3>2, <3>4, <4>1, <4>2 DEF OnceOK, OwnerOK, PreSpawn, Goroutine
      <4> QED
        BY <2>2, <4>3, <4>4
    <3> QED
      BY <1>23, <3>1, <3>3, <3>4, ZenonT(30) DEF CloseChan
  <2> QED
    BY <2>1, <2>2
<1>24. ASSUME NEW s \in Session, NEW g \in Goroutine, Remove(s, g)
       PROVE  OnceOK(t)' /\ OwnerOK(t)'
  <2>1. CASE t # s
    <3>1. Same(t)
      BY <1>24, <1>0, <2>1 DEF Remove, TypeOK, Goto, Same
    <3> QED
      BY <1>0, <3>1, SameOK
  <2>2. CASE t = s
    <3>1. /\ pc[s][g] = "remove" /\ OnceOK(s) /\ OwnerOK(s)
          /\ UNCHANGED <<conn, sOnce, scOnce, scClosed, closeChan>>
          /\ sm' = sm \ {s} /\ removed' = removed \cup {s}
      BY <1>24, <1>0, <2>2, ZenonT(30) DEF Remove, At, connVars, onceVars
    <3>2. pc'[s][g] = "uncount" /\ \A h \in Goroutine \ {g} : pc'[s][h] = pc[s][h]
      BY <1>24, <1>0, GotoAt, ZenonT(30) DEF Remove, Label
    <3>3. OnceOK(s)'
      BY <3>1, <3>2, ZenonT(30) DEF OnceOK, Goroutine
    <3>4. OwnerOK(s)'
      BY <3>1, <3>2, ZenonT(30) DEF OnceOK, OwnerOK, PreSpawn, Goroutine
    <3> QED
      BY <2>2, <3>3, <3>4
  <2> QED
    BY <2>1, <2>2
<1>25. ASSUME NEW s \in Session, NEW g \in Goroutine, RemoveCount(s, g)
       PROVE  OnceOK(t)' /\ OwnerOK(t)'
  <2>1. CASE t # s
    <3>1. Same(t)
      BY <1>25, <1>0, <2>1 DEF RemoveCount, TypeOK, Goto, Same
    <3> QED
      BY <1>0, <3>1, SameOK
  <2>2. CASE t = s
    <3> DEFINE l == IF g = "handler" THEN "sclose" ELSE "done"
    <3>1. /\ pc[s][g] = "uncount" /\ OnceOK(s) /\ OwnerOK(s)
          /\ UNCHANGED <<conn, sOnce, scOnce, scClosed, closeChan, sm, removed>>
      BY <1>25, <1>0, <2>2, ZenonT(30) DEF RemoveCount, At, connVars, onceVars
    <3>2. pc'[s][g] = l /\ \A h \in Goroutine \ {g} : pc'[s][h] = pc[s][h]
      BY <1>25, <1>0, GotoAt, ZenonT(30) DEF RemoveCount, Label
    <3>3. OnceOK(s)'
      BY <3>1, <3>2 DEF OnceOK, Goroutine
    <3>4. OwnerOK(s)'
      BY <3>1, <3>2 DEF OnceOK, OwnerOK, PreSpawn, Goroutine
    <3> QED
      BY <2>2, <3>3, <3>4
  <2> QED
    BY <2>1, <2>2
<1>26. CASE UNCHANGED vars
  BY <1>26, <1>0, ZenonT(30) DEF vars, OnceOK, OwnerOK
<1> QED
  BY <1>1, <1>2, <1>3, <1>4, <1>5, <1>6, <1>7, <1>8, <1>9, <1>10, <1>11, <1>12,
     <1>13, <1>14, <1>15, <1>16, <1>17, <1>18, <1>19, <1>20, <1>21, <1>22,
     <1>23, <1>24, <1>25, <1>26
     DEF Next, HandlerStep, LifecycleStep, HeartbeatStep, Environment, Closing,
         Terminated, Goroutine

\* A goroutine that is past initOnce.Do, or a watcher, moves on.
LEMMA MoveOK ==
  ASSUME TypeOK, NEW t \in Session, InitOK(t), UNCHANGED initOnce,
         NEW s \in Session, NEW g \in Goroutine, NEW l \in Label \ {"register"},
         Goto(s, g, l),
         pc[s][g] \notin {"none", "add", "count", "init", "register"}
  PROVE  InitOK(t)'
  BY DEF TypeOK, InitOK, Goto, Goroutine

\* The gateway's initOnce: steps preserve InitOK.
LEMMA InitOnceStep ==
  ASSUME Inv, [Next]_vars, NEW t \in Session
  PROVE  InitOK(t)'
<1> USE DEF gwVars, connVars, onceVars, timeVars, srvVars
<1>0. TypeOK /\ InitOK(t) /\ OwnerOK(t)
  BY DEF Inv
<1>1. CASE Cancel
  BY <1>1, <1>0 DEF Cancel, InitOK
<1>2. CASE CloseListener
  BY <1>2, <1>0 DEF CloseListener, InitOK
<1>3. ASSUME NEW s \in Session, AddContext(s) PROVE InitOK(t)'
  BY <1>3, <1>0 DEF AddContext, TypeOK, InitOK, At, Goto, Goroutine
<1>4. ASSUME NEW s \in Session, AddCount(s) PROVE InitOK(t)'
  BY <1>4, <1>0 DEF AddCount, TypeOK, InitOK, At, Goto, Goroutine
<1>5. ASSUME NEW s \in Session, InitOnce(s) PROVE InitOK(t)'
  <2>1. InitOK(s)
    BY DEF Inv
  <2>2. CASE t = s
    BY <1>5, <1>0, <2>2 DEF InitOnce, TypeOK, InitOK, At, Goto, Goroutine
  <2>3. CASE t # s
    <3>1. pc'[t] = pc[t]
      BY <1>5, <1>0, <2>3 DEF InitOnce, TypeOK, Goto
    <3>2. initOnce' # initOnce => initOnce # t /\ initOnce # "done"
      BY <1>5, <2>1, <2>3, TcpAssumption DEF InitOnce, InitOK, At
    <3> QED
      BY <1>0, <3>1, <3>2 DEF InitOK
  <2> QED
    BY <2>2, <2>3
<1>6. ASSUME NEW s \in Session, Register(s) PROVE InitOK(t)'
  <2>1. InitOK(s)
    BY DEF Inv
  <2>2. CASE t = s
    BY <1>6, <1>0, <2>2 DEF Register, TypeOK, InitOK, At, Goto, Goroutine
  <2>3. CASE t # s
    <3>1. pc'[t] = pc[t]
      BY <1>6, <1>0, <2>3 DEF Register, TypeOK, Goto
    <3>2. initOnce' # initOnce => initOnce # t /\ initOnce # "done"
      BY <1>6, <2>1, <2>3, TcpAssumption DEF Register, InitOK, At
    <3> QED
      BY <1>0, <3>1, <3>2 DEF InitOK
  <2> QED
    BY <2>2, <2>3
<1>7. ASSUME NEW s \in Session, Welcome(s) PROVE InitOK(t)'
  <2>1. \E l \in Label \ {"register"} : Goto(s, "handler", l)
    BY <1>7 DEF Welcome, Label
  <2>2. pc[s]["handler"] \notin {"none", "add", "count", "init", "register"}
    BY <1>7 DEF Welcome, At
  <2> QED
    BY <1>7, <1>0, <2>1, <2>2, MoveOK, ZenonT(30) DEF Welcome, Goroutine
<1>8. ASSUME NEW s \in Session, Spawn(s) PROVE InitOK(t)'
  BY <1>8, <1>0 DEF Spawn, TypeOK, InitOK, At, Goto, Goroutine
<1>9. ASSUME NEW s \in Session, ReadFrame(s) PROVE InitOK(t)'
  <2>1. \E l \in Label \ {"register"} : Goto(s, "handler", l)
    BY <1>9 DEF ReadFrame, Label
  <2>2. pc[s]["handler"] \notin {"none", "add", "count", "init", "register"}
    BY <1>9 DEF ReadFrame, At
  <2> QED
    BY <1>9, <1>0, <2>1, <2>2, MoveOK, ZenonT(30) DEF ReadFrame, Goroutine
<1>10. ASSUME NEW s \in Session, Dispatch(s) PROVE InitOK(t)'
  <2>1. \E l \in Label \ {"register"} : Goto(s, "handler", l)
    BY <1>10 DEF Dispatch, Label
  <2>2. pc[s]["handler"] \notin {"none", "add", "count", "init", "register"}
    BY <1>10 DEF Dispatch, At
  <2> QED
    BY <1>10, <1>0, <2>1, <2>2, MoveOK DEF Dispatch, Goroutine
<1>11. ASSUME NEW s \in Session, Pong(s) PROVE InitOK(t)'
  <2>1. \E l \in Label \ {"register"} : Goto(s, "handler", l)
    BY <1>11 DEF Pong, Label
  <2>2. pc[s]["handler"] \notin {"none", "add", "count", "init", "register"}
    BY <1>11 DEF Pong, At
  <2> QED
    BY <1>11, <1>0, <2>1, <2>2, MoveOK DEF Pong, Goroutine
<1>12. ASSUME NEW s \in Session, LifecycleCtxDone(s) PROVE InitOK(t)'
  <2>1. \E l \in Label \ {"register"} : Goto(s, "lifecycle", l)
    BY <1>12 DEF LifecycleCtxDone, Label
  <2>2. pc[s]["lifecycle"] \notin {"none", "add", "count", "init", "register"}
    BY <1>12 DEF LifecycleCtxDone, At
  <2> QED
    BY <1>12, <1>0, <2>1, <2>2, MoveOK DEF LifecycleCtxDone, Goroutine
<1>13. ASSUME NEW s \in Session, LifecycleClosed(s) PROVE InitOK(t)'
  <2>1. \E l \in Label \ {"register"} : Goto(s, "lifecycle", l)
    BY <1>13 DEF LifecycleClosed, Label
  <2>2. pc[s]["lifecycle"] \notin {"none", "add", "count", "init", "register"}
    BY <1>13 DEF LifecycleClosed, At
  <2> QED
    BY <1>13, <1>0, <2>1, <2>2, MoveOK DEF LifecycleClosed, Goroutine
<1>14. ASSUME NEW s \in Session, Heartbeat(s) PROVE InitOK(t)'
  <2>1. \E l \in Label \ {"register"} : Goto(s, "heartbeat", l)
    BY <1>14 DEF Heartbeat, Label
  <2>2. pc[s]["heartbeat"] \notin {"none", "add", "count", "init", "register"}
    BY <1>14 DEF Heartbeat, At
  <2> QED
    BY <1>14, <1>0, <2>1, <2>2, MoveOK DEF Heartbeat, Goroutine
<1>15. ASSUME NEW s \in Session, Accept(s) PROVE InitOK(t)'
  BY <1>15, <1>0 DEF Accept, TypeOK, InitOK, At, Goto, Goroutine
<1>16. ASSUME NEW s \in Session, ReadExpires(s) PROVE InitOK(t)'
  <2>1. \E l \in Label \ {"register"} : Goto(s, "handler", l)
    BY <1>16 DEF ReadExpires, Label
  <2>2. pc[s]["handler"] \notin {"none", "add", "count", "init", "register"}
    BY <1>16 DEF ReadExpires, At
  <2> QED
    BY <1>16, <1>0, <2>1, <2>2, MoveOK, ZenonT(30) DEF ReadExpires, Goroutine
<1>17. ASSUME NEW s \in Session, PeerRead(s) PROVE InitOK(t)'
  BY <1>17, <1>0 DEF PeerRead, InitOK
<1>18. ASSUME NEW s \in Session, PeerClose(s) PROVE InitOK(t)'
  BY <1>18, <1>0 DEF PeerClose, InitOK
<1>19. ASSUME NEW s \in Session, Tick(s) PROVE InitOK(t)'
  BY <1>19, <1>0 DEF Tick, InitOK
<1>20. ASSUME NEW s \in Session, NEW f \in Frame, PeerSend(s, f)
       PROVE  InitOK(t)'
  BY <1>20, <1>0 DEF PeerSend, InitOK
<1>21. ASSUME NEW s \in Session, NEW g \in Goroutine, OnSessionClose(s, g)
       PROVE  InitOK(t)'
  <2>1. \E l \in Label \ {"register"} : Goto(s, g, l)
    BY <1>21 DEF OnSessionClose, Label
  <2>2. pc[s][g] \notin {"none", "add", "count", "init", "register"}
    BY <1>21, ZenonT(30) DEF OnSessionClose, At
  <2> QED
    BY <1>21, <1>0, <2>1, <2>2, MoveOK DEF OnSessionClose
<1>22. ASSUME NEW s \in Session, NEW g \in Goroutine, SessionClose(s, g)
       PROVE  InitOK(t)'
  <2>1. \E l \in Label \ {"register"} : Goto(s, g, l)
    BY <1>22 DEF SessionClose, Label, CloseReturns
  <2>2. pc[s][g] \notin {"none", "add", "count", "init", "register"}
    BY <1>22 DEF SessionClose, At
  <2> QED
    BY <1>22, <1>0, <2>1, <2>2, MoveOK, ZenonT(30) DEF SessionClose
<1>23. ASSUME NEW s \in Session, NEW g \in Goroutine, CloseChan(s, g)
       PROVE  InitOK(t)'
  <2>1. \E l \in Label \ {"register"} : Goto(s, g, l)
    BY <1>23 DEF CloseChan, Label, CloseReturns
  <2>2. pc[s][g] \notin {"none", "add", "count", "init", "register"}
    BY <1>23 DEF CloseChan, At
  <2> QED
    BY <1>23, <1>0, <2>1, <2>2, MoveOK DEF CloseChan
<1>24. ASSUME NEW s \in Session, NEW g \in Goroutine, Remove(s, g)
       PROVE  InitOK(t)'
  <2>1. \E l \in Label \ {"register"} : Goto(s, g, l)
    BY <1>24 DEF Remove, Label
  <2>2. pc[s][g] \notin {"none", "add", "count", "init", "register"}
    BY <1>24 DEF Remove, At
  <2> QED
    BY <1>24, <1>0, <2>1, <2>2, MoveOK, Zenon DEF Remove
<1>25. ASSUME NEW s \in Session, NEW g \in Goroutine, RemoveCount(s, g)
       PROVE  InitOK(t)'
  <2>1. \E l \in Label \ {"register"} : Goto(s, g, l)
    BY <1>25 DEF RemoveCount, Label
  <2>2. pc[s][g] \notin {"none", "add", "count", "init", "register"}
    BY <1>25 DEF RemoveCount, At
  <2> QED
    BY <1>25, <1>0, <2>1, <2>2, MoveOK DEF RemoveCount
<1>26. CASE UNCHANGED vars
  BY <1>26, <1>0 DEF vars, InitOK
<1> QED
  BY <1>1, <1>2, <1>3, <1>4, <1>5, <1>6, <1>7, <1>8, <1>9, <1>10, <1>11, <1>12,
     <1>13, <1>14, <1>15, <1>16, <1>17, <1>18, <1>19, <1>20, <1>21, <1>22,
     <1>23, <1>24, <1>25, <1>26
     DEF Next, HandlerStep, LifecycleStep, HeartbeatStep, Environment, Closing,
         Terminated, Goroutine

\* Once initOnce is done the ping handler is in the map and stays there.
LEMMA HandlersStep ==
  ASSUME Inv, [Next]_vars
  PROVE  (initOnce = "done" => "ping" \in handlers)'
<1> USE DEF gwVars
<1>1. ASSUME NEW s \in Session, InitOnce(s)
      PROVE  (initOnce = "done" => "ping" \in handlers)'
  BY <1>1, TcpAssumption DEF InitOnce, Inv
<1>2. ASSUME NEW s \in Session, Register(s)
      PROVE  (initOnce = "done" => "ping" \in handlers)'
  BY <1>2 DEF Register
<1>3. CASE UNCHANGED <<initOnce, handlers>>
  BY <1>3 DEF Inv
<1>4. ASSUME NEW s \in Session, NEW g \in Goroutine, Closing(s, g)
      PROVE  UNCHANGED <<initOnce, handlers>>
  BY <1>4 DEF Closing, OnSessionClose, SessionClose, CloseChan, Remove,
     RemoveCount
<1>5. ASSUME NEW s \in Session, HandlerStep(s)
      PROVE  UNCHANGED <<initOnce, handlers>> \/ InitOnce(s) \/ Register(s)
  BY <1>4, <1>5 DEF HandlerStep, Goroutine, AddContext, AddCount, Welcome,
     Spawn,
     ReadFrame, Dispatch, Pong
<1>6. ASSUME NEW s \in Session, LifecycleStep(s) \/ HeartbeatStep(s)
      PROVE  UNCHANGED <<initOnce, handlers>>
  BY <1>4, <1>6 DEF LifecycleStep, HeartbeatStep, Goroutine, LifecycleCtxDone,
     LifecycleClosed, Heartbeat
<1>7. ASSUME NEW s \in Session, Environment(s)
      PROVE  UNCHANGED <<initOnce, handlers>>
  BY <1>7 DEF Environment, Accept, ReadExpires, PeerRead, PeerClose, Tick,
     PeerSend
<1>8. CASE Cancel \/ CloseListener \/ Terminated \/ UNCHANGED vars
  BY <1>3, <1>8 DEF Cancel, CloseListener, Terminated, vars
<1> QED
  BY <1>1, <1>2, <1>3, <1>5, <1>6, <1>7, <1>8 DEF Next

\* The invariant is inductive, so it holds in every reachable state.
THEOREM Invariance == SafetySpec => []Inv
<1>1. Inv /\ [Next]_vars => Inv'
  <2> SUFFICES ASSUME Inv, [Next]_vars PROVE Inv'
    OBVIOUS
  <2>1. TypeOK'
    BY TypeStep DEF Inv
  <2>2. ASSUME NEW t \in Session PROVE OnceOK(t)' /\ OwnerOK(t)' /\ InitOK(t)'
    BY ClosingStep, InitOnceStep
  <2> QED
    BY <2>1, <2>2, HandlersStep DEF Inv
<1> QED
  BY InvInit, <1>1, PTL DEF SafetySpec
---------------------------------------------------------------------------
(* What the invariant gives.                                               *)

\* Every variable keeps its type, for any number of connections.
THEOREM TypeCorrect == SafetySpec => []TypeOK
<1>1. Inv => TypeOK
  BY DEF Inv
<1> QED
  BY Invariance, <1>1, PTL

\* tcpSession.Close never closes closeChan twice, however many goroutines of
\* the session call it.
THEOREM CloseOnce == SafetySpec => []NoDoubleClose
<1>1. Inv => NoDoubleClose
  BY DEF Inv, OnceOK, NoDoubleClose
<1> QED
  BY Invariance, <1>1, PTL

\* SimpleGateway's unlocked handler map is never read while it is written,
\* and every dispatch finds the ping handler.
THEOREM DispatcherSafe == SafetySpec => []DispatcherReady
<1>1. Inv => DispatcherReady
  BY TcpAssumption DEF Inv, InitOK, DispatcherReady, At
<1> QED
  BY Invariance, <1>1, PTL

\* A removed session never comes back, and every registered session still
\* has the goroutine that will remove it.
THEOREM ManagerSound == SafetySpec => [](NoResurrection /\ RegisteredHasOwner)
<1>1. Inv => NoResurrection /\ RegisteredHasOwner
  BY DEF Inv, TypeOK, OwnerOK, NoResurrection, RegisteredHasOwner
<1> QED
  BY Invariance, <1>1, PTL

\* A session is out of the manager only after its connection is closed.
THEOREM ClosedBeforeRemoved == SafetySpec => []RemovedIsClosed
<1>1. Inv => RemovedIsClosed
  BY DEF Inv, TypeOK, OnceOK, OwnerOK, RemovedIsClosed
<1> QED
  BY Invariance, <1>1, PTL
---------------------------------------------------------------------------
(* The session count.                                                      *)

\* The heartbeat watcher never calls the gateway, and who decrements the
\* count has removed its session.
CallerOK(s) ==
  /\ pc[s]["heartbeat"] \in {"none", "wait", "sclose", "shut", "done"}
  /\ scOnce[s] # "heartbeat"
  /\ \A g \in Goroutine : pc[s][g] = "uncount" => s \in removed

CallersOK == \A s \in Session : CallerOK(s)

\* The sessions whose handler has decremented the count, and those whose
\* lifecycleWatcher may have.
HandlerOut ==
  {s \in Session :
     \/ pc[s]["handler"] = "done"
     \/ pc[s]["handler"] \in {"sclose", "shut"} /\ scOnce[s] # "handler"}
WatcherOut == {s \in removed : pc[s]["lifecycle"] = "done"}

\* What bounds the count, between sets that are finite because they grow one
\* by one.
CountOK ==
  /\ IsFiniteSet(sm) /\ IsFiniteSet(removed)
  /\ CallersOK
  /\ count <= Cardinality(sm) - Cardinality(Opening) + Cardinality(Uncounting)
  /\ count >= Cardinality(sm) + Cardinality(removed) - Cardinality(Opening)
              - Cardinality(HandlerOut) - Cardinality(WatcherOut)

\* Who is opening is registered; who has been or is being counted out is
\* removed.
SetsOK ==
  /\ Opening \subseteq sm
  /\ Uncounting \subseteq removed
  /\ HandlerOut \subseteq removed
  /\ WatcherOut \subseteq removed

\* The invariants put these sets into each other ...
LEMMA SetsNow == Inv /\ CallersOK => SetsOK
<1> SUFFICES ASSUME Inv, CallersOK PROVE SetsOK
  OBVIOUS
<1>1. \A s \in Opening : s \in sm
  BY DEF Opening, At, Inv, OnceOK, OwnerOK, PreSpawn
<1>2. \A s \in Uncounting : s \in removed
  BY DEF Uncounting, At, CallersOK, CallerOK
<1>3. \A s \in HandlerOut : s \in removed
  BY DEF HandlerOut, Inv, OwnerOK
<1> QED
  BY <1>1, <1>2, <1>3 DEF WatcherOut, SetsOK

\* ... in the state after a step too.
LEMMA SetsNext == Inv' /\ CallersOK' => SetsOK'
  BY SetsNow, PTL

\* Subsets of a finite set: the larger has at least as many elements.
LEMMA CountMonotone ==
  ASSUME NEW S, IsFiniteSet(S), NEW A, A \subseteq S, NEW B, B \subseteq A
  PROVE  /\ IsFiniteSet(A) /\ IsFiniteSet(B)
         /\ Cardinality(A) \in Nat /\ Cardinality(B) \in Nat
         /\ Cardinality(B) <= Cardinality(A)
<1>1. IsFiniteSet(A) /\ IsFiniteSet(B)
  BY FS_Subset
<1> QED
  BY <1>1, FS_Subset, FS_CardinalityType

\* A step that touches neither the count nor the manager, and after which as
\* many are counting out or counted out as before.
LEMMA CountKept ==
  ASSUME Inv, Inv', CountOK, CallersOK',
         UNCHANGED <<count, sm, removed>>, Opening' = Opening,
         Uncounting \subseteq Uncounting', HandlerOut \subseteq HandlerOut',
         WatcherOut \subseteq WatcherOut'
  PROVE  CountOK'
<1>1. SetsOK /\ SetsOK'
  BY SetsNow, SetsNext DEF CountOK
<1>2. IsFiniteSet(sm) /\ IsFiniteSet(removed) /\ count \in Int
  BY DEF CountOK, Inv, TypeOK
<1>3. /\ Cardinality(Uncounting) <= Cardinality(Uncounting')
      /\ Cardinality(Uncounting) \in Nat /\ Cardinality(Uncounting') \in Nat
  BY <1>1, <1>2, CountMonotone DEF SetsOK
<1>4. /\ Cardinality(HandlerOut) <= Cardinality(HandlerOut')
      /\ Cardinality(HandlerOut) \in Nat /\ Cardinality(HandlerOut') \in Nat
  BY <1>1, <1>2, CountMonotone DEF SetsOK
<1>5. /\ Cardinality(WatcherOut) <= Cardinality(WatcherOut')
      /\ Cardinality(WatcherOut) \in Nat /\ Cardinality(WatcherOut') \in Nat
  BY <1>1, <1>2, CountMonotone DEF SetsOK
<1>6. Cardinality(Opening) \in Nat /\ Cardinality(sm) \in Nat /\ Cardinality(removed) \in Nat
  BY <1>1, <1>2, CountMonotone DEF SetsOK
<1> QED
  BY <1>2, <1>3, <1>4, <1>5, <1>6 DEF CountOK

\* Every step keeps the heartbeat watcher away from the gateway.
LEMMA CallersStep == ASSUME Inv, CallersOK, [Next]_vars PROVE CallersOK'
<1> USE DEF gwVars, connVars, onceVars, timeVars, srvVars, At, Goto
<1> SUFFICES ASSUME NEW t \in Session PROVE CallerOK(t)'
  BY DEF CallersOK
<1>1. /\ TypeOK /\ CallerOK(t) /\ OwnerOK(t) /\ pc \in [Session -> [Goroutine -> Label]]
  BY DEF Inv, TypeOK, CallersOK
<1>2. ASSUME pc'[t] = pc[t], scOnce'[t] = scOnce[t], t \in removed => t \in removed'
      PROVE  CallerOK(t)'
  BY <1>1, <1>2 DEF CallerOK
<1>3. ASSUME NEW s \in Session, NEW g \in Goroutine \ {"heartbeat"},
             NEW l \in Label \ {"uncount"}, Goto(s, g, l), UNCHANGED <<scOnce, removed>>
      PROVE  CallerOK(t)'
  BY <1>1, <1>3 DEF CallerOK, Goroutine
<1>4. ASSUME NEW s \in Session, Spawn(s) PROVE CallerOK(t)'
  <2>1. CASE t = s
    <3> DEFINE l == IF HeartbeatTimeout = 0 THEN "done" ELSE "wait"
    <3>1. /\ pc'[t] = [handler |-> "read", lifecycle |-> "select", heartbeat |-> l]
          /\ l \in {"done", "wait"}
      BY <1>1, <1>4, <2>1, ZenonT(30) DEF Spawn
    <3> HIDE DEF l
    <3>2. /\ pc'[t]["handler"] = "read" /\ pc'[t]["lifecycle"] = "select"
          /\ pc'[t]["heartbeat"] \in {"done", "wait"}
      BY <3>1
    <3> QED
      BY <1>1, <1>4, <3>2 DEF Spawn, CallerOK, Goroutine
  <2>2. CASE t # s
    BY <1>1, <1>2, <1>4, <2>2, ZenonT(30) DEF Spawn
  <2> QED
    BY <2>1, <2>2
<1>5. ASSUME NEW s \in Session, Heartbeat(s) PROVE CallerOK(t)'
  <2>1. PICK l \in {"sclose", "wait"} : pc' = [pc EXCEPT ![s]["heartbeat"] = l]
    BY <1>5, Zenon DEF Heartbeat
  <2> QED
    BY <1>1, <1>5, <2>1 DEF Heartbeat, CallerOK, Goroutine
<1>6. ASSUME NEW s \in Session, NEW g \in Goroutine, Closing(s, g) PROVE CallerOK(t)'
  <2>1. CASE t # s
    <3>1. pc'[t] = pc[t]
      BY <1>1, <1>6, <2>1, ZenonT(30) DEF Closing, OnSessionClose, SessionClose, CloseChan, CloseReturns,
        Remove, RemoveCount
    <3>2. scOnce'[t] = scOnce[t]
      <4>0. scOnce \in [Session -> Goroutine \cup {"idle", "done"}]
        BY <1>1 DEF TypeOK
      <4>1. CASE OnSessionClose(s, g)
        BY <4>0, <2>1, <4>1 DEF OnSessionClose
      <4>2. CASE SessionClose(s, g)
        BY <4>0, <2>1, <4>2 DEF SessionClose, CloseReturns
      <4>3. CASE CloseChan(s, g)
        BY <4>0, <2>1, <4>3 DEF CloseChan, CloseReturns
      <4>4. CASE Remove(s, g)
        BY <4>0, <2>1, <4>4 DEF Remove
      <4>5. CASE RemoveCount(s, g)
        BY <4>0, <2>1, <4>5 DEF RemoveCount
      <4> QED
        BY <1>6, <4>1, <4>2, <4>3, <4>4, <4>5, ZenonT(30) DEF Closing
    <3>3. t \in removed => t \in removed'
      BY <1>6 DEF Closing, OnSessionClose, SessionClose, CloseChan, Remove, RemoveCount
    <3> QED
      BY <1>2, <3>1, <3>2, <3>3
  <2>2. CASE t = s
    <3>1. scOnce \in [Session -> Goroutine \cup {"idle", "done"}]
      BY <1>1 DEF TypeOK
    <3>2. CASE OnSessionClose(s, g)
      BY <1>1, <2>2, <3>1, <3>2 DEF OnSessionClose, CallerOK, Goroutine
    <3>3. CASE SessionClose(s, g)
      BY <1>1, <2>2, <3>1, <3>3 DEF SessionClose, CloseReturns, CallerOK, Goroutine
    <3>4. CASE CloseChan(s, g)
      BY <1>1, <2>2, <3>1, <3>4 DEF CloseChan, CloseReturns, CallerOK, Goroutine
    <3>5. CASE Remove(s, g)
      BY <1>1, <2>2, <3>5 DEF Remove, CallerOK, Goroutine
    <3>6. CASE RemoveCount(s, g)
      BY <1>1, <2>2, <3>6 DEF RemoveCount, CallerOK, Goroutine
    <3> QED
      BY <1>6, <3>2, <3>3, <3>4, <3>5, <3>6 DEF Closing
  <2> QED
    BY <2>1, <2>2
<1>7. ASSUME NEW s \in Session, \/ Accept(s) \/ AddContext(s) \/ AddCount(s) \/ Register(s)
                                \/ Welcome(s) \/ Pong(s) \/ ReadExpires(s)
                                \/ LifecycleCtxDone(s) \/ LifecycleClosed(s)
      PROVE  CallerOK(t)'
  <2>1. CASE Accept(s)
    BY <1>3, <2>1, Zenon DEF Accept, Goroutine, Label
  <2>2. CASE AddContext(s)
    BY <1>3, <2>2, Zenon DEF AddContext, Goroutine, Label
  <2>3. CASE AddCount(s)
    BY <1>3, <2>3, Zenon DEF AddCount, Goroutine, Label
  <2>4. CASE Register(s)
    BY <1>3, <2>4, Zenon DEF Register, Goroutine, Label
  <2>5. CASE Welcome(s)
    BY <1>3, <2>5, Zenon DEF Welcome, Goroutine, Label
  <2>6. CASE Pong(s)
    BY <1>3, <2>6, Zenon DEF Pong, Goroutine, Label
  <2>7. CASE ReadExpires(s)
    BY <1>3, <2>7, Zenon DEF ReadExpires, Goroutine, Label
  <2>8. CASE LifecycleCtxDone(s)
    BY <1>3, <2>8, Zenon DEF LifecycleCtxDone, Goroutine, Label
  <2>9. CASE LifecycleClosed(s)
    BY <1>3, <2>9, Zenon DEF LifecycleClosed, Goroutine, Label
  <2> QED
    BY <1>7, <2>1, <2>2, <2>3, <2>4, <2>5, <2>6, <2>7, <2>8, <2>9
<1>8. ASSUME NEW s \in Session, InitOnce(s) \/ ReadFrame(s) \/ Dispatch(s) PROVE CallerOK(t)'
  <2>1. PICK l \in {"register", "welcome", "onclose", "dispatch", "pong", "read"} :
          Goto(s, "handler", l)
    BY <1>8 DEF InitOnce, ReadFrame, Dispatch
  <2> QED
    BY <1>3, <1>8, <2>1, ZenonT(30) DEF InitOnce, ReadFrame, Dispatch, Goroutine, Label
<1>9. ASSUME UNCHANGED <<pc, scOnce, removed>> PROVE CallerOK(t)'
  BY <1>2, <1>9
<1>10. ASSUME NEW s \in Session, \/ PeerRead(s) \/ PeerClose(s) \/ Tick(s)
                                 \/ \E f \in Frame : PeerSend(s, f)
       PROVE  CallerOK(t)'
  BY <1>9, <1>10 DEF PeerRead, PeerClose, Tick, PeerSend
<1>11. CASE Cancel \/ CloseListener \/ Terminated \/ UNCHANGED vars
  BY <1>9, <1>11, ZenonT(30) DEF Cancel, CloseListener, Terminated, vars
<1> QED
  BY <1>4, <1>5, <1>6, <1>7, <1>8, <1>10, <1>11
  DEF Next, HandlerStep, LifecycleStep, HeartbeatStep, Environment, Goroutine

\* A goroutine that moves, and is neither counting nor done, leaves the
\* bounds of the count where they are.
LEMMA CountMove ==
  ASSUME Inv, Inv', CountOK, CallersOK', UNCHANGED <<count, sm, removed>>,
         NEW s \in Session, NEW g \in Goroutine, NEW l \in Label \ {"count"},
         pc[s][g] \notin {"count", "uncount", "done"}, pc' = [pc EXCEPT ![s][g] = l],
         s \in HandlerOut => s \in HandlerOut',
         \A t \in Session \ {s} : scOnce'[t] = scOnce[t]
  PROVE  CountOK'
<1>1. pc \in [Session -> [Goroutine -> Label]]
  BY DEF Inv, TypeOK
<1>2. /\ \A t \in Session \ {s} : pc'[t] = pc[t]
      /\ pc'[s][g] = l
      /\ \A h \in Goroutine \ {g} : pc'[s][h] = pc[s][h]
  BY <1>1
<1>3. Opening' = Opening
  BY <1>2 DEF Opening, At, Goroutine
<1>4. Uncounting \subseteq Uncounting'
  BY <1>2 DEF Uncounting, At
<1>5. HandlerOut \subseteq HandlerOut'
  BY <1>2 DEF HandlerOut
<1>6. WatcherOut \subseteq WatcherOut'
  <2>1. \A t \in WatcherOut : t \in Session
    BY DEF WatcherOut, Inv, TypeOK
  <2> QED
    BY <1>2, <2>1 DEF WatcherOut, Goroutine
<1> QED
  BY <1>3, <1>4, <1>5, <1>6, CountKept

\* A closer of s moves on through SessionContext.Close and tcpSession.Close.
LEMMA CountClose ==
  ASSUME Inv, Inv', CountOK, CallersOK', NEW s \in Session, NEW g \in Goroutine,
         OnSessionClose(s, g) \/ SessionClose(s, g) \/ CloseChan(s, g)
  PROVE  CountOK'
<1> USE DEF At, Goto, gwVars
<1>1. /\ pc \in [Session -> [Goroutine -> Label]]
      /\ scOnce \in [Session -> Goroutine \cup {"idle", "done"}]
      /\ OnceOK(s) /\ OwnerOK(s)
  BY DEF Inv, TypeOK
<1>2. PICK l \in {"sclose", "remove", "shut", "done"} : pc' = [pc EXCEPT ![s][g] = l]
  BY DEF OnSessionClose, SessionClose, CloseChan, CloseReturns
<1>3. pc[s][g] \in {"onclose", "sclose", "shut"} /\ UNCHANGED <<count, sm, removed>>
  BY DEF OnSessionClose, SessionClose, CloseChan
<1>4. \A t \in Session \ {s} : scOnce'[t] = scOnce[t]
  BY <1>1 DEF OnSessionClose, SessionClose, CloseChan, CloseReturns
<1>5. ASSUME s \in HandlerOut PROVE s \in HandlerOut'
  <2>1. s \in removed /\ scOnce[s] = "done"
    BY <1>1, <1>5 DEF HandlerOut, OwnerOK
  <2>2. scOnce'[s] = "done"
    BY <1>1, <2>1 DEF OnSessionClose, SessionClose, CloseChan, CloseReturns, Goroutine
  <2>3. CASE g # "handler"
    BY <1>1, <1>2, <1>5, <2>2, <2>3 DEF HandlerOut, Goroutine
  <2>4. CASE g = "handler"
    <3>1. pc[s]["handler"] \in {"sclose", "shut"}
      BY <1>3, <1>5, <2>4 DEF HandlerOut
    <3>2. pc'[s]["handler"] \in {"shut", "done"}
      <4>1. ASSUME NEW k \in Label, pc' = [pc EXCEPT ![s][g] = k] PROVE pc'[s]["handler"] = k
        BY <1>1, <2>4, <4>1 DEF Goroutine
      <4>2. ~OnSessionClose(s, g)
        BY <2>4, <3>1 DEF OnSessionClose
      <4>3. CASE SessionClose(s, g)
        BY <2>1, <2>4, <4>1, <4>3 DEF SessionClose, CloseReturns, Goroutine, Label
      <4>4. CASE CloseChan(s, g)
        BY <2>1, <2>4, <4>1, <4>4 DEF CloseChan, CloseReturns, Goroutine, Label
      <4> QED
        BY <4>2, <4>3, <4>4
    <3> QED
      BY <2>2, <3>2 DEF HandlerOut
  <2> QED
    BY <2>3, <2>4
<1> QED
  BY <1>2, <1>3, <1>4, <1>5, CountMove, Zenon DEF Label

\* Every step keeps the bounds of the count.
LEMMA CountStep == ASSUME Inv, Inv', CountOK, [Next]_vars PROVE CountOK'
<1> USE DEF gwVars, connVars, onceVars, timeVars, srvVars, At, Goto
<1>1. CallersOK /\ CallersOK' /\ SetsOK /\ SetsOK'
  BY CallersStep, SetsNow, SetsNext DEF CountOK
<1>2. /\ IsFiniteSet(sm) /\ IsFiniteSet(removed) /\ count \in Int
      /\ pc \in [Session -> [Goroutine -> Label]]
      /\ sm \subseteq Session /\ removed \subseteq Session
  BY DEF CountOK, Inv, TypeOK
<1>3. /\ IsFiniteSet(Opening) /\ IsFiniteSet(Uncounting)
      /\ IsFiniteSet(HandlerOut) /\ IsFiniteSet(WatcherOut)
  BY <1>1, <1>2, CountMonotone DEF SetsOK
<1>4. /\ Cardinality(sm) \in Nat /\ Cardinality(removed) \in Nat
      /\ Cardinality(Opening) \in Nat /\ Cardinality(Uncounting) \in Nat
      /\ Cardinality(HandlerOut) \in Nat /\ Cardinality(WatcherOut) \in Nat
  BY <1>2, <1>3, FS_CardinalityType
<1>5. ASSUME NEW s \in Session, AddContext(s) PROVE CountOK'
  <2>1. s \notin sm /\ s \notin Opening
    BY <1>5 DEF AddContext, Inv, OwnerOK, Opening
  <2>2. sm' = sm \cup {s} /\ UNCHANGED <<count, removed, scOnce>> /\ Opening' = Opening \cup {s}
    BY <1>2, <1>5 DEF AddContext, Opening, Goroutine
  <2>3. Uncounting' = Uncounting /\ HandlerOut' = HandlerOut /\ WatcherOut' = WatcherOut
    BY <1>2, <1>5, <2>2 DEF AddContext, Uncounting, HandlerOut, WatcherOut, Goroutine
  <2>4. IsFiniteSet(sm \cup {s}) /\ Cardinality(sm \cup {s}) = Cardinality(sm) + 1
    BY <1>2, <2>1, FS_AddElement, Zenon
  <2>5. Cardinality(Opening \cup {s}) = Cardinality(Opening) + 1
    BY <1>3, <2>1, FS_AddElement, ZenonT(30)
  <2> QED
    BY <1>1, <1>2, <1>4, <2>2, <2>3, <2>4, <2>5 DEF CountOK
<1>6. ASSUME NEW s \in Session, AddCount(s) PROVE CountOK'
  <2>1. s \in Opening
    BY <1>6 DEF AddCount, Opening
  <2>2. count' = count + 1 /\ UNCHANGED <<sm, removed, scOnce>> /\ Opening' = Opening \ {s}
    BY <1>2, <1>6 DEF AddCount, Opening, Goroutine
  <2>3. Uncounting' = Uncounting /\ HandlerOut' = HandlerOut /\ WatcherOut' = WatcherOut
    BY <1>2, <1>6, <2>2 DEF AddCount, Uncounting, HandlerOut, WatcherOut, Goroutine
  <2>4. Cardinality(Opening \ {s}) = Cardinality(Opening) - 1
    BY <1>3, <2>1, FS_RemoveElement, ZenonT(30)
  <2> QED
    BY <1>1, <1>2, <1>4, <2>2, <2>3, <2>4 DEF CountOK
<1>7. ASSUME NEW s \in Session, NEW g \in Goroutine, Remove(s, g) PROVE CountOK'
  <2>1. OnceOK(s) /\ OwnerOK(s) /\ pc[s][g] = "remove" /\ g # "heartbeat"
    BY <1>1, <1>7 DEF Inv, Remove, CallersOK, CallerOK
  <2>2. /\ sm' = sm \ {s} /\ removed' = removed \cup {s} /\ UNCHANGED <<count, scOnce>>
        /\ \A t \in Session \ {s} : pc'[t] = pc[t]
        /\ pc'[s][g] = "uncount" /\ \A h \in Goroutine \ {g} : pc'[s][h] = pc[s][h]
    BY <1>2, <1>7 DEF Remove
  <2>3. pc[s]["handler"] # "count"
    BY <2>1 DEF OnceOK, OwnerOK, PreSpawn
  <2>4. Opening' = Opening
    BY <2>1, <2>2, <2>3 DEF Opening, Goroutine
  <2>5. HandlerOut \subseteq HandlerOut'
    BY <2>1, <2>2 DEF HandlerOut, Goroutine
  <2>6. WatcherOut \subseteq WatcherOut'
    BY <1>2, <2>1, <2>2 DEF WatcherOut, Goroutine
  <2>7. Uncounting' = Uncounting \cup {s}
    BY <2>1, <2>2 DEF Uncounting
  <2>8. CASE s \notin sm
    <3>1. s \in removed
      BY <2>1, <2>8 DEF OnceOK, OwnerOK, PreSpawn
    <3>2. UNCHANGED <<count, sm, removed>>
      BY <2>2, <2>8, <3>1
    <3> QED
      BY <1>1, <2>4, <2>5, <2>6, <2>7, <3>2, CountKept
  <2>9. CASE s \in sm
    <3>1. s \notin removed /\ s \notin Uncounting
      BY <1>1, <2>1, <2>9 DEF OwnerOK, SetsOK
    <3>2. IsFiniteSet(sm \ {s}) /\ Cardinality(sm \ {s}) = Cardinality(sm) - 1
      BY <1>2, <2>9, FS_RemoveElement, Zenon
    <3>3. IsFiniteSet(removed \cup {s}) /\ Cardinality(removed \cup {s}) = Cardinality(removed) + 1
      BY <1>2, <3>1, FS_AddElement, Zenon
    <3>4. Cardinality(Uncounting \cup {s}) = Cardinality(Uncounting) + 1
      BY <1>3, <3>1, FS_AddElement, ZenonT(30)
    <3>5. Cardinality(HandlerOut') \in Nat /\ Cardinality(HandlerOut') >= Cardinality(HandlerOut)
      BY <1>1, <2>2, <2>5, <3>3, CountMonotone, ZenonT(30) DEF SetsOK
    <3>6. Cardinality(WatcherOut') \in Nat /\ Cardinality(WatcherOut') >= Cardinality(WatcherOut)
      BY <1>1, <2>2, <2>6, <3>3, CountMonotone DEF SetsOK
    <3>7. /\ IsFiniteSet(sm') /\ IsFiniteSet(removed')
          /\ count' = count /\ Cardinality(Opening') = Cardinality(Opening)
          /\ Cardinality(sm') = Cardinality(sm) - 1
          /\ Cardinality(removed') = Cardinality(removed) + 1
          /\ Cardinality(Uncounting') = Cardinality(Uncounting) + 1
      BY <2>2, <2>4, <2>7, <3>2, <3>3, <3>4
    <3>8. count' <= Cardinality(sm') - Cardinality(Opening') + Cardinality(Uncounting')
      BY <1>2, <1>4, <3>7 DEF CountOK
    <3>9. count' >= Cardinality(sm') + Cardinality(removed') - Cardinality(Opening')
                    - Cardinality(HandlerOut') - Cardinality(WatcherOut')
      BY <1>2, <1>4, <3>5, <3>6, <3>7 DEF CountOK
    <3> QED
      BY <1>1, <3>7, <3>8, <3>9 DEF CountOK
  <2> QED
    BY <2>8, <2>9
<1>8. ASSUME NEW s \in Session, NEW g \in Goroutine, RemoveCount(s, g) PROVE CountOK'
  <2>1. OnceOK(s) /\ pc[s][g] = "uncount" /\ g # "heartbeat" /\ s \in removed
    BY <1>1, <1>8 DEF Inv, RemoveCount, CallersOK, CallerOK
  <2>2. /\ count' = count - 1 /\ UNCHANGED <<sm, removed, scOnce>>
        /\ \A t \in Session \ {s} : pc'[t] = pc[t]
        /\ pc'[s][g] = IF g = "handler" THEN "sclose" ELSE "done"
        /\ \A h \in Goroutine \ {g} : pc'[s][h] = pc[s][h]
    BY <1>2, <1>8 DEF RemoveCount
  <2>3. scOnce[s] = "done"
    BY <2>1 DEF OnceOK
  <2>4. Opening' = Opening
    BY <2>1, <2>2 DEF Opening, Goroutine
  <2>5. Cardinality(Uncounting') \in Nat /\ Cardinality(Uncounting') >= Cardinality(Uncounting) - 1
    <3>1. s \in Uncounting
      BY <2>1 DEF Uncounting
    <3>2. Uncounting \ {s} \subseteq Uncounting'
      BY <2>2 DEF Uncounting
    <3>3. Cardinality(Uncounting \ {s}) = Cardinality(Uncounting) - 1
      BY <1>3, <3>1, FS_RemoveElement, ZenonT(30)
    <3>4. /\ Cardinality(Uncounting') \in Nat
          /\ Cardinality(Uncounting') >= Cardinality(Uncounting \ {s})
      BY <1>1, <1>2, <2>2, <3>2, CountMonotone DEF SetsOK
    <3> QED
      BY <1>4, <3>3, <3>4
  <2>6. CASE g = "handler"
    <3>1. s \notin HandlerOut /\ HandlerOut' = HandlerOut \cup {s} /\ WatcherOut' = WatcherOut
      BY <1>2, <2>1, <2>2, <2>3, <2>6, ZenonT(30) DEF HandlerOut, WatcherOut, Goroutine
    <3>2. Cardinality(HandlerOut \cup {s}) = Cardinality(HandlerOut) + 1
      BY <1>3, <3>1, FS_AddElement, ZenonT(30)
    <3>3. /\ IsFiniteSet(sm') /\ IsFiniteSet(removed')
          /\ count' = count - 1 /\ Cardinality(Opening') = Cardinality(Opening)
          /\ Cardinality(sm') = Cardinality(sm) /\ Cardinality(removed') = Cardinality(removed)
          /\ Cardinality(HandlerOut') = Cardinality(HandlerOut) + 1
          /\ Cardinality(WatcherOut') = Cardinality(WatcherOut)
      BY <1>2, <2>2, <2>4, <3>1, <3>2
    <3>4. count' <= Cardinality(sm') - Cardinality(Opening') + Cardinality(Uncounting')
      BY <1>2, <1>4, <2>5, <3>3 DEF CountOK
    <3>5. count' >= Cardinality(sm') + Cardinality(removed') - Cardinality(Opening')
                    - Cardinality(HandlerOut') - Cardinality(WatcherOut')
      BY <1>2, <1>4, <3>3 DEF CountOK
    <3> QED
      BY <1>1, <3>3, <3>4, <3>5 DEF CountOK
  <2>7. CASE g = "lifecycle"
    <3>1. s \notin WatcherOut /\ WatcherOut' = WatcherOut \cup {s} /\ HandlerOut' = HandlerOut
      BY <1>2, <2>1, <2>2, <2>7 DEF HandlerOut, WatcherOut, Goroutine
    <3>2. Cardinality(WatcherOut \cup {s}) = Cardinality(WatcherOut) + 1
      BY <1>3, <3>1, FS_AddElement, ZenonT(30)
    <3>3. /\ IsFiniteSet(sm') /\ IsFiniteSet(removed')
          /\ count' = count - 1 /\ Cardinality(Opening') = Cardinality(Opening)
          /\ Cardinality(sm') = Cardinality(sm) /\ Cardinality(removed') = Cardinality(removed)
          /\ Cardinality(WatcherOut') = Cardinality(WatcherOut) + 1
          /\ Cardinality(HandlerOut') = Cardinality(HandlerOut)
      BY <1>2, <2>2, <2>4, <3>1, <3>2
    <3>4. count' <= Cardinality(sm') - Cardinality(Opening') + Cardinality(Uncounting')
      BY <1>2, <1>4, <2>5, <3>3 DEF CountOK
    <3>5. count' >= Cardinality(sm') + Cardinality(removed') - Cardinality(Opening')
                    - Cardinality(HandlerOut') - Cardinality(WatcherOut')
      BY <1>2, <1>4, <3>3 DEF CountOK
    <3> QED
      BY <1>1, <3>3, <3>4, <3>5 DEF CountOK
  <2> QED
    BY <2>1, <2>6, <2>7 DEF Goroutine
<1>9. ASSUME UNCHANGED <<pc, scOnce, count, sm, removed>> PROVE CountOK'
  BY <1>1, <1>9, CountKept DEF Opening, Uncounting, HandlerOut, WatcherOut
<1>10. ASSUME NEW s \in Session, NEW g \in Goroutine, NEW l \in Label \ {"count"},
              pc[s][g] \notin {"count", "uncount", "done", "sclose", "shut"},
              Goto(s, g, l), UNCHANGED <<count, sm, removed, scOnce>>
       PROVE  CountOK'
  <2>1. s \in HandlerOut => s \in HandlerOut'
    BY <1>2, <1>10 DEF HandlerOut, Goroutine
  <2> QED
    BY <1>1, <1>10, <2>1, CountMove, ZenonT(30)
<1>11. ASSUME NEW s \in Session, Spawn(s) PROVE CountOK'
  <2>1. OwnerOK(s) /\ pc[s]["handler"] = "spawn"
    BY <1>11 DEF Inv, Spawn
  <2>2. pc[s]["lifecycle"] = "none" /\ pc[s]["heartbeat"] = "none" /\ s \notin removed
    BY <2>1 DEF OwnerOK, PreSpawn
  <2>3. \A t \in Session \ {s} : pc'[t] = pc[t]
    BY <1>2, <1>11 DEF Spawn
  <2>4. pc'[s]["handler"] = "read"
    <3> DEFINE l == IF HeartbeatTimeout = 0 THEN "done" ELSE "wait"
    <3>1. pc'[s] = [handler |-> "read", lifecycle |-> "select", heartbeat |-> l]
      BY <1>2, <1>11 DEF Spawn
    <3> HIDE DEF l
    <3> QED
      BY <3>1
  <2>5. UNCHANGED <<count, sm, removed, scOnce>>
    BY <1>11 DEF Spawn
  <2>6. Opening' = Opening /\ HandlerOut \subseteq HandlerOut' /\ WatcherOut \subseteq WatcherOut'
    BY <1>2, <2>1, <2>2, <2>3, <2>4, <2>5 DEF Opening, HandlerOut, WatcherOut
  <2>7. Uncounting \subseteq Uncounting'
    BY <2>1, <2>2, <2>3 DEF Uncounting, Goroutine
  <2> QED
    BY <1>1, <2>5, <2>6, <2>7, CountKept
<1>12. ASSUME NEW s \in Session, \/ Accept(s) \/ Register(s) \/ Welcome(s) \/ Pong(s)
                                 \/ ReadExpires(s) \/ LifecycleCtxDone(s) \/ LifecycleClosed(s)
       PROVE  CountOK'
  BY <1>10, <1>12 DEF Accept, Register, Welcome, Pong, ReadExpires, LifecycleCtxDone,
    LifecycleClosed, Goroutine, Label
<1>13. ASSUME NEW s \in Session, InitOnce(s) \/ ReadFrame(s) \/ Dispatch(s) PROVE CountOK'
  <2>1. PICK l \in {"register", "welcome", "onclose", "dispatch", "pong", "read"} :
          Goto(s, "handler", l)
    BY <1>13 DEF InitOnce, ReadFrame, Dispatch
  <2> QED
    BY <1>10, <1>13, <2>1, ZenonT(30) DEF InitOnce, ReadFrame, Dispatch, Goroutine, Label
<1>14. ASSUME NEW s \in Session, Heartbeat(s) PROVE CountOK'
  <2>1. PICK l \in {"sclose", "wait"} : Goto(s, "heartbeat", l)
    BY <1>14, ZenonT(30) DEF Heartbeat
  <2> QED
    BY <1>10, <1>14, <2>1, Zenon DEF Heartbeat, Goroutine, Label
<1>15. ASSUME NEW s \in Session, \/ PeerRead(s) \/ PeerClose(s) \/ Tick(s)
                                 \/ \E f \in Frame : PeerSend(s, f)
       PROVE  CountOK'
  BY <1>9, <1>15 DEF PeerRead, PeerClose, Tick, PeerSend
<1>16. CASE Cancel \/ CloseListener \/ Terminated \/ UNCHANGED vars
  BY <1>9, <1>16, ZenonT(30) DEF Cancel, CloseListener, Terminated, vars
<1>17. ASSUME NEW s \in Session, NEW g \in Goroutine, Closing(s, g) PROVE CountOK'
  BY <1>1, <1>7, <1>8, <1>17, CountClose DEF Closing
<1> QED
  BY <1>5, <1>6, <1>11, <1>12, <1>13, <1>14, <1>15, <1>16, <1>17
  DEF Next, HandlerStep, LifecycleStep, HeartbeatStep, Environment, Goroutine

\* SessionManager.Count stays within its bounds for any number of
\* connections: it counts nobody in who is not counted out, and counts a
\* session out at most twice, by its handler and by its watcher.
THEOREM CountBounded == SafetySpec => []CountDrift
<1>1. Init => CountOK
  <2> SUFFICES ASSUME Init PROVE CountOK
    OBVIOUS
  <2>1. \A s \in Session : \A g \in Goroutine : pc[s][g] = "none"
    BY DEF Init
  <2>2. sm = {} /\ removed = {} /\ count = 0
    BY DEF Init
  <2>3. Opening = {} /\ Uncounting = {} /\ HandlerOut = {} /\ WatcherOut = {}
    BY <2>1, <2>2 DEF Opening, Uncounting, HandlerOut, WatcherOut, At, Goroutine
  <2>4. CallersOK
    BY <2>1 DEF Init, CallersOK, CallerOK, Goroutine
  <2> QED
    BY <2>2, <2>3, <2>4, FS_EmptySet DEF CountOK
<1>2. Inv /\ Inv' /\ CountOK /\ [Next]_vars => CountOK'
  BY CountStep
<1>3. ASSUME Inv, CountOK PROVE CountDrift
  <2>1. SetsOK /\ IsFiniteSet(sm) /\ IsFiniteSet(removed) /\ count \in Int
    BY <1>3, SetsNow DEF CountOK, Inv, TypeOK
  <2>2. /\ Cardinality(removed) \in Nat /\ Cardinality(HandlerOut) \in Nat
        /\ Cardinality(HandlerOut) <= Cardinality(removed)
    BY <2>1, CountMonotone DEF SetsOK
  <2>3. Cardinality(WatcherOut) \in Nat /\ Cardinality(WatcherOut) <= Cardinality(removed)
    BY <2>1, CountMonotone DEF SetsOK
  <2>4. /\ Cardinality(sm) \in Nat /\ Cardinality(Opening) \in Nat
        /\ Cardinality(Uncounting) \in Nat
    BY <2>1, CountMonotone DEF SetsOK
  <2> QED
    BY <1>3, <2>1, <2>2, <2>3, <2>4 DEF CountOK, CountDrift
<1> QED
  BY <1>1, <1>2, <1>3, Invariance, PTL DEF SafetySpec

---------------------------------------------------------------------------
(* The safety half of ImplementsLifecycle.                                 *)

\* Every step of the TCP transport is a step of the abstract lifecycle, or
\* leaves it alone.
LEMMA LifecycleStepMaps ==
  ASSUME Inv, [Next]_vars
  PROVE  [Lifecycles!Next]_(Lifecycles!vars)
<1> USE DEF gwVars, connVars, onceVars, timeVars, srvVars, Lifecycles!vars
<1>1. ASSUME NEW s \in Session, AddContext(s) PROVE Lifecycles!Next
  <2>1. OnceOK(s) /\ OwnerOK(s) /\ TypeOK
    BY DEF Inv
  <2>2. Lifecycles!Register(s)
    BY <1>1, <2>1 DEF AddContext, At, OnceOK, OwnerOK, PreSpawn, TypeOK,
       Lifecycles!Register
  <2> QED
    BY <2>2 DEF Lifecycles!Next
<1>2. ASSUME NEW s \in Session, NEW g \in Goroutine, SessionClose(s, g)
      PROVE  Lifecycles!Next \/ UNCHANGED Lifecycles!vars
  <2>1. OnceOK(s) /\ OwnerOK(s) /\ TypeOK
    BY DEF Inv
  <2>2. CASE FirstClose(s) /\ CloseConn(s)
    <3>1. Lifecycles!Close(s)
      <4>1. /\ sOnce[s] = "idle" /\ conn' = [conn EXCEPT ![s] = "closed"]
            /\ pc[s][g] = "sclose" /\ UNCHANGED <<sm, removed>>
        BY <1>2, <2>2 DEF SessionClose, FirstClose, CloseConn, At
      <4>2. DOMAIN conn = Session
        BY <2>1 DEF TypeOK
      <4>3. conn[s] # "closed" /\ scOnce[s] # "done"
        BY <2>1, <4>1, ZenonT(30) DEF OnceOK
      <4>4. s \notin removed
        BY <2>1, <4>3 DEF OwnerOK
      <4>5. pc[s]["handler"] \notin {"none", "add"}
        BY <2>1, <4>1 DEF OwnerOK, PreSpawn, Goroutine
      <4>6. s \in sm
        BY <2>1, <4>4, <4>5 DEF OwnerOK
      <4>7. {t \in Session : conn[t] = "closed"}' = {t \in Session : conn[t] = "closed"} \cup {s}
        BY <4>1, <4>2
      <4> QED
        BY <4>1, <4>3, <4>6, <4>7 DEF Lifecycles!Close
    <3> QED
      BY <3>1 DEF Lifecycles!Next
  <2>3. CASE UNCHANGED conn
    BY <1>2, <2>3 DEF SessionClose
  <2> QED
    BY <1>2, <2>2, <2>3 DEF SessionClose
<1>3. ASSUME NEW s \in Session, NEW g \in Goroutine, Remove(s, g)
      PROVE  Lifecycles!Next \/ UNCHANGED Lifecycles!vars
  <2>1. OnceOK(s) /\ OwnerOK(s) /\ TypeOK
    BY DEF Inv
  <2>2. CASE s \in sm
    <3>1. Lifecycles!Unregister(s)
      BY <1>3, <2>1, <2>2, ZenonT(30) DEF Remove, At, OnceOK, Lifecycles!Unregister
    <3> QED
      BY <3>1 DEF Lifecycles!Next
  <2>3. CASE s \notin sm
    <3>1. pc[s][g] = "remove" /\ scOnce[s] = "done"
      BY <1>3, <2>1, ZenonT(30) DEF Remove, At, OnceOK
    <3>2. pc[s]["handler"] \notin {"none", "add"}
      BY <2>1, <3>1, ZenonT(30) DEF OwnerOK, PreSpawn
    <3>3. s \in removed
      BY <2>1, <2>3, <3>2 DEF OwnerOK
    <3>4. sm' = sm /\ removed' = removed /\ conn' = conn
      BY <1>3, <2>3, <3>3 DEF Remove
    <3> QED
      BY <3>4
  <2> QED
    BY <2>2, <2>3
<1>4. ASSUME NEW s \in Session, Accept(s) PROVE UNCHANGED Lifecycles!vars
  <2>1. OnceOK(s) /\ OwnerOK(s) /\ TypeOK
    BY DEF Inv
  <2> QED
    BY <1>4, <2>1 DEF Accept, At, OnceOK, OwnerOK, PreSpawn, TypeOK
<1>5. ASSUME NEW s \in Session, PeerClose(s) PROVE UNCHANGED Lifecycles!vars
  BY <1>5 DEF PeerClose, Inv, TypeOK
<1>6. CASE UNCHANGED <<sm, removed, conn>>
  BY <1>6
<1>7. ASSUME NEW s \in Session, NEW g \in Goroutine, Closing(s, g)
      PROVE  Lifecycles!Next \/ UNCHANGED Lifecycles!vars
  <2>1. CASE OnSessionClose(s, g) \/ CloseChan(s, g) \/ RemoveCount(s, g)
    BY <1>6, <2>1 DEF OnSessionClose, CloseChan, RemoveCount
  <2> QED
    BY <1>2, <1>3, <1>7, <2>1, ZenonT(30) DEF Closing
<1>8. ASSUME NEW s \in Session, HandlerStep(s)
      PROVE  Lifecycles!Next \/ UNCHANGED Lifecycles!vars
  <2>1. CASE \/ AddCount(s) \/ InitOnce(s) \/ Register(s) \/ Welcome(s) \/ Spawn(s)
             \/ ReadFrame(s) \/ Dispatch(s) \/ Pong(s)
    BY <1>6, <2>1, ZenonT(30) DEF AddCount, InitOnce, Register, Welcome, Spawn, ReadFrame,
       Dispatch, Pong
  <2> QED
    BY <1>1, <1>7, <1>8, <2>1, ZenonT(30) DEF HandlerStep, Goroutine
<1>9. ASSUME NEW s \in Session, LifecycleStep(s) \/ HeartbeatStep(s)
      PROVE  Lifecycles!Next \/ UNCHANGED Lifecycles!vars
  <2>1. CASE LifecycleCtxDone(s) \/ LifecycleClosed(s) \/ Heartbeat(s)
    BY <1>6, <2>1, ZenonT(30) DEF LifecycleCtxDone, LifecycleClosed, Heartbeat
  <2> QED
    BY <1>7, <1>9, <2>1, ZenonT(30) DEF LifecycleStep, HeartbeatStep, Goroutine
<1>10. ASSUME NEW s \in Session, Environment(s) PROVE UNCHANGED Lifecycles!vars
  <2>1. CASE \/ ReadExpires(s) \/ PeerRead(s) \/ Tick(s)
             \/ \E f \in Frame : PeerSend(s, f)
    BY <1>6, <2>1 DEF ReadExpires, PeerRead, Tick, PeerSend
  <2> QED
    BY <1>4, <1>5, <1>10, <2>1, ZenonT(30) DEF Environment
<1>11. CASE Cancel \/ CloseListener \/ Terminated \/ UNCHANGED vars
  BY <1>6, <1>11 DEF Cancel, CloseListener, Terminated, vars
<1> QED
  BY <1>8, <1>9, <1>10, <1>11, ZenonT(30) DEF Next

\* The TCP transport implements the abstract session lifecycle (safety).
THEOREM RefinesLifecycle == SafetySpec => Lifecycles!Safety
<1>1. Init => Lifecycles!Init
  BY DEF Init, Lifecycles!Init
<1>2. Inv /\ [Next]_vars => [Lifecycles!Next]_(Lifecycles!vars)
  BY LifecycleStepMaps
<1> QED
  BY <1>1, <1>2, Invariance, PTL DEF SafetySpec, Lifecycles!Safety
============================================================================
