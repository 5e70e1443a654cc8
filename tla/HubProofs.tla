----------------------------- MODULE HubProofs -----------------------------
(***************************************************************************)
(* Hub for any finite set of clients, any names, any number of concurrent  *)
(* handlers and any buffer size: type correctness, the exact online gauge, *)
(* and the safety of registration, closing and broadcasting.               *)
(***************************************************************************)
EXTENDS Hub, FiniteSetTheorems, TLAPS

\* A leaf that names no backend is tried with the SMT solver, then with Zenon,
\* each given more time than it takes on an idle machine.
USE SMTT(30), ZenonT(20)

\* A connection's progress agrees with Hub.clients and with what is closed.
ConnOK(c) ==
  /\ c \in clients \cup closed => conn[c].pc # "new"
  /\ conn[c].pc # "new" => conn[conn[c].victim].pc # "new"
  /\ conn[c].pc = "new" => conn[c].victim = c
  /\ conn[c].back = "gone" => conn[c].victim = c
  /\ conn[c].pc \in {"close", "leave", "offline"} => conn[c].victim \notin clients
  /\ conn[c].pc \in {"leave", "offline"} => conn[c].victim \in closed
  /\ conn[c].pc = "gone" => c \in closed

\* A handler has sent to, or has still to visit, everybody it owes a message.
TaskOK(t) ==
  /\ \A c \in task[t].due : conn[c].pc # "new"
  /\ task[t].pc \in {"range", "send"} =>
       task[t].due \cap clients \subseteq
         task[t].offered \cup task[t].todo \cup task[t].cur
  /\ task[t].pc # "send" => task[t].cur = {}
  /\ \A j, k \in task[t].cur : j = k

\* The inductive invariant.
Inv ==
  /\ TypeOK
  /\ \A c \in Client : ConnOK(c)
  /\ \A t \in Task : TaskOK(t)
  /\ RegisteredIsOpen
  /\ OnlineGauge

---------------------------------------------------------------------------
(* Type correctness.                                                       *)

\* Moving a connection goroutine changes its label and nothing else.
LEMMA GotoEffect ==
  ASSUME TypeOK, NEW c \in Client, NEW l \in ConnLabel, Goto(c, l)
  PROVE  /\ conn' \in [Client -> ConnState]
         /\ conn'[c].pc = l
         /\ conn'[c].victim = conn[c].victim
         /\ conn'[c].back = conn[c].back
         /\ \A d \in Client \ {c} : conn'[d] = conn[d]
  BY DEF TypeOK, ConnState, Goto

\* Emit starts a handler that has sent nothing yet.
LEMMA EmitEffect ==
  ASSUME TypeOK, NEW to \in Name \cup {"*"}, NEW from \in Name \cup {""},
         Emit(to, from)
  PROVE  /\ task' \in [Task -> TaskState]
         /\ \A t \in Task :
              \/ task'[t] = task[t]
              \/ /\ task'[t].pc = "start" /\ task'[t].due = {}
                 /\ task'[t].cur = {}
<1> DEFINE new == [Idle EXCEPT !.pc = "start", !.to = to, !.from = from]
<1>1. new \in TaskState /\ new.pc = "start" /\ new.due = {} /\ new.cur = {}
  BY Zenon DEF TaskState, Idle
<1>2. PICK u \in Task : task' = [task EXCEPT ![u] = new]
  BY Zenon DEF Emit
<1> HIDE DEF new
<1> QED
  BY <1>1, <1>2, Zenon DEF TypeOK

\* Client.Send keeps the buffer within its capacity.
LEMMA PushType ==
  ASSUME TypeOK, NEW c \in Client, Push(c)
  PROVE  out' \in [Client -> 0..OutBuffer]
<1>0. OutBuffer \in Nat
  BY BufferAssumption
<1>1. out[c] \in 0..OutBuffer /\ out \in [Client -> 0..OutBuffer]
  BY DEF TypeOK
<1>2. CASE out[c] < OutBuffer
  <2>1. out' = [out EXCEPT ![c] = out[c] + 1]
    BY <1>2, Zenon DEF Push
  <2>2. out[c] + 1 \in 0..OutBuffer
    BY <1>0, <1>1, <1>2
  <2> QED
    BY <1>1, <2>1, <2>2
<1>3. CASE ~(out[c] < OutBuffer)
  BY <1>1, <1>3 DEF Push
<1> QED
  BY <1>2, <1>3

\* So does the answer to a command.
LEMMA SendSelfType ==
  ASSUME TypeOK, NEW c \in Client, SendSelf(c)
  PROVE  out' \in [Client -> 0..OutBuffer] /\ crashed' \in BOOLEAN
<1>1. CASE c \in closed
  BY <1>1 DEF SendSelf, TypeOK
<1>2. CASE c \notin closed
  BY <1>2, PushType DEF SendSelf, TypeOK
<1> QED
  BY <1>1, <1>2

\* The initial state is well typed.
LEMMA TypeInit == Init => TypeOK
<1> SUFFICES ASSUME Init PROVE TypeOK
  OBVIOUS
<1>1. conn \in [Client -> ConnState]
  BY DEF Init, ConnState, ConnLabel
<1>2. task \in [Task -> TaskState]
  <2>1. Idle \in TaskState
    BY DEF Idle, TaskState
  <2> QED
    BY <2>1 DEF Init
<1>3. out \in [Client -> 0..OutBuffer]
  <2>1. 0 \in 0..OutBuffer
    BY BufferAssumption
  <2> QED
    BY <2>1 DEF Init
<1>4. crashed \in BOOLEAN
  BY Zenon DEF Init
<1>5. clients = {} /\ online = 0 /\ admin = {} /\ closed = {}
  BY DEF Init
<1> QED
  BY <1>1, <1>2, <1>3, <1>4, <1>5 DEF TypeOK

\* Every step keeps the state well typed.
LEMMA TypeStep == ASSUME TypeOK, [Next]_vars PROVE TypeOK'
<1>1. ASSUME NEW c \in Client, RegisterClient(c) PROVE TypeOK'
  <2>1. conn' \in [Client -> ConnState]
    BY <1>1, GotoEffect DEF RegisterClient, ConnLabel
  <2> QED
    BY <1>1, <2>1 DEF RegisterClient, TypeOK
<1>2. ASSUME NEW c \in Client, EmitJoined(c) PROVE TypeOK'
  <2>1. conn' \in [Client -> ConnState]
    BY <1>2, GotoEffect, Zenon DEF EmitJoined, ConnLabel
  <2>2. task' \in [Task -> TaskState]
    BY <1>2, EmitEffect, NameAssumption, Zenon DEF EmitJoined
  <2> QED
    BY <1>2, <2>1, <2>2, ZenonT(30) DEF EmitJoined, TypeOK
<1>3. ASSUME NEW c \in Client, CountJoined(c) PROVE TypeOK'
  <2>1. conn' \in [Client -> ConnState]
    BY <1>3, GotoEffect DEF CountJoined, ConnLabel
  <2> QED
    BY <1>3, <2>1 DEF CountJoined, TypeOK
<1>4. ASSUME NEW c \in Client, Reply(c) PROVE TypeOK'
  <2>1. conn' \in [Client -> ConnState]
    BY <1>4, GotoEffect DEF Reply, ConnLabel
  <2>2. out' \in [Client -> 0..OutBuffer] /\ crashed' \in BOOLEAN
    BY <1>4, SendSelfType DEF Reply
  <2> QED
    BY <1>4, <2>1, <2>2 DEF Reply, TypeOK
<1>5. ASSUME NEW c \in Client, Auth(c) PROVE TypeOK'
  <2>1. conn' \in [Client -> ConnState]
    BY <1>5, GotoEffect DEF Auth, ConnLabel
  <2>2. admin' \subseteq Client
    BY <1>5 DEF Auth, TypeOK
  <2> QED
    BY <1>5, <2>1, <2>2 DEF Auth, TypeOK
<1>6. ASSUME NEW c \in Client, Announce(c) PROVE TypeOK'
  <2>1. task' \in [Task -> TaskState]
    BY <1>6, EmitEffect, NameAssumption, Zenon DEF Announce
  <2> QED
    BY <1>6, <2>1, Zenon DEF Announce, TypeOK
<1>7. ASSUME NEW c \in Client, SendFile(c) PROVE TypeOK'
  <2>1. conn' \in [Client -> ConnState]
    BY <1>7, GotoEffect, Zenon DEF SendFile, ConnLabel
  <2>2. task' \in [Task -> TaskState]
    BY <1>7, EmitEffect, NameAssumption, Zenon DEF SendFile
  <2> QED
    BY <1>7, <2>1, <2>2, ZenonT(30) DEF SendFile, TypeOK
<1>8. ASSUME NEW c \in Client, KickEnd(c) PROVE TypeOK'
  <2>1. conn' \in [Client -> ConnState]
    BY <1>8 DEF KickEnd, TypeOK, ConnState, ConnLabel
  <2> QED
    BY <1>8, <2>1 DEF KickEnd, TypeOK
<1>9. ASSUME NEW c \in Client, Leave(c) PROVE TypeOK'
  <2>1. conn' \in [Client -> ConnState]
    BY <1>9, GotoEffect DEF Leave, ConnLabel
  <2>2. out' \in [Client -> 0..OutBuffer] /\ crashed' \in BOOLEAN
    BY <1>9, SendSelfType DEF Leave, TypeOK
  <2> QED
    BY <1>9, <2>1, <2>2 DEF Leave, TypeOK
<1>10. ASSUME NEW c \in Client, UnregisterClient(c) PROVE TypeOK'
  <2>1. conn[c] \in ConnState /\ conn[c].back \in ConnLabel
    BY DEF TypeOK, ConnState, ConnLabel
  <2>2. conn' \in [Client -> ConnState]
    BY <1>10, <2>1, GotoEffect DEF UnregisterClient, ConnLabel
  <2>3. conn[c].victim \in Client
    BY <2>1 DEF ConnState
  <2>4. clients' \subseteq Client /\ closed' \subseteq Client
    BY <1>10, <2>3 DEF UnregisterClient, TypeOK
  <2> QED
    BY <1>10, <2>2, <2>4 DEF UnregisterClient, TypeOK
<1>11. ASSUME NEW c \in Client, CloseClient(c) PROVE TypeOK'
  <2>1. conn' \in [Client -> ConnState]
    BY <1>11, GotoEffect DEF CloseClient, ConnLabel
  <2>2. conn[c].victim \in Client
    BY DEF TypeOK, ConnState
  <2> QED
    BY <1>11, <2>1, <2>2 DEF CloseClient, TypeOK
<1>12. ASSUME NEW c \in Client, EmitLeave(c) PROVE TypeOK'
  <2>1. conn' \in [Client -> ConnState]
    BY <1>12, GotoEffect, Zenon DEF EmitLeave, ConnLabel
  <2>2. task' \in [Task -> TaskState]
    BY <1>12, EmitEffect, NameAssumption, Zenon DEF EmitLeave
  <2> QED
    BY <1>12, <2>1, <2>2, ZenonT(30) DEF EmitLeave, TypeOK
<1>13. ASSUME NEW c \in Client, CountLeave(c) PROVE TypeOK'
  <2>1. conn[c].back \in ConnLabel
    BY DEF TypeOK, ConnState, ConnLabel
  <2>2. conn' \in [Client -> ConnState]
    BY <1>13, <2>1, GotoEffect DEF CountLeave
  <2> QED
    BY <1>13, <2>2 DEF CountLeave, TypeOK
<1>14. ASSUME NEW c \in Client, Drain(c) PROVE TypeOK'
  <2>1. out' \in [Client -> 0..OutBuffer]
    BY <1>14, BufferAssumption DEF Drain, TypeOK
  <2> QED
    BY <1>14, <2>1 DEF Drain, TypeOK
<1>15. ASSUME NEW c \in Client, NEW n \in Name, Msg(c, n) PROVE TypeOK'
  <2>1. task' \in [Task -> TaskState]
    BY <1>15, EmitEffect, NameAssumption, Zenon DEF Msg
  <2> QED
    BY <1>15, <2>1 DEF Msg, TypeOK
<1>16. ASSUME NEW c \in Client, NEW n \in Name, Kick(c, n) PROVE TypeOK'
  <2> DEFINE r == [conn[c] EXCEPT !.pc = "kick", !.todo = Called(n)]
  <2>1. conn[c] \in ConnState /\ Called(n) \subseteq Client
    BY DEF TypeOK, Called
  <2>2. r \in ConnState
    BY <2>1, Zenon DEF ConnState, ConnLabel
  <2>3. conn' = [conn EXCEPT ![c] = r]
    BY <1>16 DEF Kick
  <2> HIDE DEF r
  <2>4. conn' \in [Client -> ConnState]
    BY <2>2, <2>3 DEF TypeOK
  <2> QED
    BY <1>16, <2>4 DEF Kick, TypeOK
<1>17. ASSUME NEW c \in Client, NEW k \in Client, KickVisit(c, k) PROVE TypeOK'
  <2> DEFINE r == [pc |-> "unreg", victim |-> k, back |-> "kick",
                   todo |-> conn[c].todo \ {k}]
             q == [conn[c] EXCEPT !.todo = conn[c].todo \ {k}]
  <2>1. conn[c] \in ConnState
    BY DEF TypeOK
  <2>2. r \in ConnState
    BY <2>1 DEF ConnState, ConnLabel
  <2>3. q \in ConnState
    BY <2>1 DEF ConnState, ConnLabel
  <2>4. conn' = [conn EXCEPT ![c] = r] \/ conn' = [conn EXCEPT ![c] = q]
    BY <1>17, Zenon DEF KickVisit
  <2> HIDE DEF r, q
  <2>5. conn' \in [Client -> ConnState]
    BY <2>2, <2>3, <2>4 DEF TypeOK
  <2> QED
    BY <1>17, <2>5 DEF KickVisit, TypeOK
<1>18. ASSUME NEW t \in Task, RangeStart(t) PROVE TypeOK'
  <2> DEFINE r == [task[t] EXCEPT !.pc = "range", !.todo = Called(task[t].to),
                              !.due = Called(task[t].to) \cap clients]
  <2>1. task[t] \in TaskState /\ Called(task[t].to) \subseteq Client
    BY DEF TypeOK, Called
  <2>2. r \in TaskState
    BY <2>1, Zenon DEF TaskState
  <2>3. task' = [task EXCEPT ![t] = r]
    BY <1>18 DEF RangeStart
  <2> HIDE DEF r
  <2>4. task' \in [Task -> TaskState]
    BY <2>2, <2>3 DEF TypeOK
  <2> QED
    BY <1>18, <2>4 DEF RangeStart, TypeOK
<1>19. ASSUME NEW t \in Task, RangeSend(t) PROVE TypeOK'
  <2>1. task[t] \in TaskState /\ Idle \in TaskState
    BY Zenon DEF TypeOK, TaskState, Idle
  <2>2. PICK k \in task[t].cur :
          IF k \in closed
          THEN task' = [task EXCEPT ![t] = Idle] /\ UNCHANGED out
          ELSE Push(k) /\ Offer(t, k)
    BY <1>19 DEF RangeSend
  <2>3. k \in Client
    BY <2>1, ZenonT(30) DEF TaskState
  <2>4. CASE k \in closed
    <3>1. task' \in [Task -> TaskState] /\ UNCHANGED out
      BY <2>1, <2>2, <2>4 DEF TypeOK
    <3> QED
      BY <1>19, <3>1 DEF RangeSend, TypeOK
  <2>5. CASE k \notin closed
    <3>1. out' \in [Client -> 0..OutBuffer]
      BY <2>2, <2>3, <2>5, PushType
    <3> DEFINE r == [task[t] EXCEPT !.pc = "range", !.cur = {}, !.offered = task[t].offered \cup {k}]
    <3>2. r \in TaskState
      BY <2>1, <2>3, ZenonT(30) DEF TaskState
    <3>3. task' = [task EXCEPT ![t] = r]
      BY <2>2, <2>5 DEF Offer
    <3> HIDE DEF r
    <3>4. task' \in [Task -> TaskState]
      BY <3>2, <3>3 DEF TypeOK
    <3> QED
      BY <1>19, <3>1, <3>4 DEF RangeSend, TypeOK
  <2> QED
    BY <2>4, <2>5
<1>20. ASSUME NEW t \in Task, RangeEnd(t) PROVE TypeOK'
  <2>1. task[t] \in TaskState /\ Idle \in TaskState
    BY Zenon DEF TypeOK, TaskState, Idle
  <2>2. [Idle EXCEPT !.pc = "start", !.to = task[t].from] \in TaskState \/ task[t].from = ""
    BY <2>1, Zenon DEF TaskState, Idle
  <2>3. task' \in [Task -> TaskState]
    BY <1>20, <2>1, <2>2, Zenon DEF RangeEnd, TypeOK
  <2> QED
    BY <1>20, <2>1, <2>2, <2>3, ZenonT(30) DEF RangeEnd, TypeOK
<1>21. ASSUME NEW t \in Task, NEW k \in Client, RangeVisit(t, k) PROVE TypeOK'
  <2> DEFINE r == [task[t] EXCEPT !.todo = task[t].todo \ {k}, !.pc = "send", !.cur = {k}]
             q == [task[t] EXCEPT !.todo = task[t].todo \ {k}]
  <2>1. task[t] \in TaskState
    BY DEF TypeOK
  <2>2. r \in TaskState
    BY <2>1, Zenon DEF TaskState
  <2>3. q \in TaskState
    BY <2>1, Zenon DEF TaskState
  <2>4. task' = [task EXCEPT ![t] = r] \/ task' = [task EXCEPT ![t] = q]
    BY <1>21, Zenon DEF RangeVisit
  <2> HIDE DEF r, q
  <2>5. task' \in [Task -> TaskState]
    BY <2>2, <2>3, <2>4 DEF TypeOK
  <2> QED
    BY <1>21, <2>5 DEF RangeVisit, TypeOK
<1>22. CASE UNCHANGED vars
  BY <1>22 DEF vars, TypeOK
<1> QED
  BY <1>1, <1>2, <1>3, <1>4, <1>5, <1>6, <1>7, <1>8, <1>9, <1>10, <1>11,
     <1>12, <1>13, <1>14, <1>15, <1>16, <1>17, <1>18, <1>19, <1>20, <1>21,
     <1>22
     DEF Next, ConnStep, Input, TaskStep, Terminated

---------------------------------------------------------------------------
(* Registration and closing.                                               *)

\* Nothing of it changes while Hub.clients, the connections and what is
\* closed stay as they are.
LEMMA ConnSame ==
  ASSUME Inv, UNCHANGED <<clients, closed, conn>>
  PROVE  (\A d \in Client : ConnOK(d)') /\ RegisteredIsOpen'
  BY DEF Inv, ConnOK, RegisteredIsOpen

\* Nor when a registered connection moves between labels it may be at
\* whatever the registration of its client.
LEMMA ConnMove ==
  ASSUME Inv, NEW c \in Client, NEW l \in {"online", "ready", "reply", "unreg"},
         Goto(c, l), conn[c].pc # "new", UNCHANGED <<clients, closed>>
  PROVE  (\A d \in Client : ConnOK(d)') /\ RegisteredIsOpen'
<1>1. TypeOK /\ \A d \in Client : conn[d].victim \in Client /\ ConnOK(d)
  BY DEF Inv, TypeOK, ConnState
<1>2. /\ conn'[c].pc = l /\ conn'[c].victim = conn[c].victim
      /\ conn'[c].back = conn[c].back
      /\ \A d \in Client \ {c} : conn'[d] = conn[d]
  BY <1>1, GotoEffect DEF ConnLabel
<1>3. ASSUME NEW d \in Client PROVE ConnOK(d)'
  BY <1>1, <1>2 DEF ConnOK
<1> QED
  BY <1>3 DEF Inv, RegisteredIsOpen

\* Nor when it goes through the steps of KickByName.
LEMMA ConnKick ==
  ASSUME Inv, NEW c \in Client, conn[c].pc # "new", UNCHANGED <<clients, closed>>,
         conn'[c].pc \in {"kick", "reply", "unreg"},
         conn'[c].victim \in {conn[c].victim, c} \cup clients,
         conn'[c].back = "gone" => conn'[c].victim = c,
         \A d \in Client \ {c} : conn'[d] = conn[d]
  PROVE  (\A d \in Client : ConnOK(d)') /\ RegisteredIsOpen'
<1>1. clients \subseteq Client
  BY DEF Inv, TypeOK
<1>2. \A d \in Client : conn[d].victim \in Client /\ ConnOK(d)
  BY DEF Inv, TypeOK, ConnState
<1>3. \A d \in Client : conn[d].pc = "new" <=> conn'[d].pc = "new"
  OBVIOUS
<1>4. conn'[c].victim \in Client /\ conn'[conn'[c].victim].pc # "new"
  BY <1>1, <1>2, <1>3 DEF ConnOK
<1>5. ConnOK(c)'
  BY <1>2, <1>4 DEF ConnOK
<1>6. ASSUME NEW d \in Client \ {c} PROVE ConnOK(d)'
  BY <1>2, <1>3 DEF ConnOK
<1> QED
  BY <1>5, <1>6 DEF Inv, RegisteredIsOpen

\* Every step keeps each connection in order and registered clients open.
LEMMA ConnKept ==
  ASSUME Inv, [Next]_vars
  PROVE  (\A d \in Client : ConnOK(d)') /\ RegisteredIsOpen'
<1>a. TypeOK /\ \A d \in Client : conn[d].victim \in Client /\ ConnOK(d)
  BY DEF Inv, TypeOK, ConnState
<1>1. ASSUME NEW c \in Client, RegisterClient(c)
      PROVE (\A d \in Client : ConnOK(d)') /\ RegisteredIsOpen'
  <2>1. conn[c].pc = "new" /\ clients' = clients \cup {c} /\ UNCHANGED closed
    BY <1>1 DEF RegisterClient, At
  <2>2. "joined" \in ConnLabel /\ conn[c].back \in {"kick", "gone"}
    BY <1>a DEF TypeOK, ConnState, ConnLabel
  <2>3. /\ conn'[c].pc = "joined" /\ conn'[c].victim = conn[c].victim
        /\ conn'[c].back = conn[c].back
        /\ \A d \in Client \ {c} : conn'[d] = conn[d]
    BY <1>1, <1>a, <2>2, GotoEffect DEF RegisterClient
  <2>4. \A d \in Client : ConnOK(d)'
    BY <1>a, <2>1, <2>2, <2>3 DEF ConnOK
  <2> QED
    BY <1>a, <2>1, <2>4 DEF Inv, RegisteredIsOpen, ConnOK
<1>2. ASSUME NEW c \in Client, EmitJoined(c)
      PROVE (\A d \in Client : ConnOK(d)') /\ RegisteredIsOpen'
  BY <1>2, ConnMove, Zenon DEF EmitJoined, At
<1>3. ASSUME NEW c \in Client, CountJoined(c)
      PROVE (\A d \in Client : ConnOK(d)') /\ RegisteredIsOpen'
  BY <1>3, ConnMove DEF CountJoined, At
<1>4. ASSUME NEW c \in Client, Reply(c)
      PROVE (\A d \in Client : ConnOK(d)') /\ RegisteredIsOpen'
  BY <1>4, ConnMove DEF Reply, At
<1>5. ASSUME NEW c \in Client, Auth(c)
      PROVE (\A d \in Client : ConnOK(d)') /\ RegisteredIsOpen'
  BY <1>5, ConnMove DEF Auth, At
<1>6. ASSUME NEW c \in Client, Announce(c)
      PROVE (\A d \in Client : ConnOK(d)') /\ RegisteredIsOpen'
  BY <1>6, ConnSame, ZenonT(30) DEF Announce
<1>7. ASSUME NEW c \in Client, SendFile(c)
      PROVE (\A d \in Client : ConnOK(d)') /\ RegisteredIsOpen'
  BY <1>7, ConnMove, ZenonT(30) DEF SendFile, At
<1>8. ASSUME NEW c \in Client, KickEnd(c)
      PROVE (\A d \in Client : ConnOK(d)') /\ RegisteredIsOpen'
  <2>1. /\ conn[c].pc # "new" /\ UNCHANGED <<clients, closed>>
        /\ conn'[c].pc \in {"kick", "reply", "unreg"}
        /\ conn'[c].victim \in {conn[c].victim, c} \cup clients
        /\ conn'[c].back = "gone" => conn'[c].victim = c
        /\ \A d \in Client \ {c} : conn'[d] = conn[d]
    BY <1>8, <1>a DEF KickEnd, At, TypeOK, ConnState, ConnOK
  <2> QED
    BY <2>1, ConnKick
<1>9. ASSUME NEW c \in Client, Leave(c)
      PROVE (\A d \in Client : ConnOK(d)') /\ RegisteredIsOpen'
  BY <1>9, ConnMove DEF Leave, At
<1>10. ASSUME NEW c \in Client, UnregisterClient(c)
      PROVE (\A d \in Client : ConnOK(d)') /\ RegisteredIsOpen'
  <2> DEFINE v == conn[c].victim
  <2>1. conn[c].pc = "unreg" /\ v \in Client /\ conn[v].pc # "new"
    BY <1>10, <1>a DEF UnregisterClient, At, ConnOK
  <2>2. conn[c].back \in {"kick", "gone"}
    BY <1>a DEF TypeOK, ConnState
  <2>3. CASE v \in clients
    <3>1. clients' = clients \ {v} /\ Goto(c, "close") /\ UNCHANGED closed
      BY <1>10, <2>3 DEF UnregisterClient
    <3>2. /\ conn'[c].pc = "close" /\ conn'[c].victim = v
          /\ conn'[c].back = conn[c].back
          /\ \A d \in Client \ {c} : conn'[d] = conn[d]
      BY <1>a, <3>1, GotoEffect DEF ConnLabel
    <3>3. \A d \in Client : ConnOK(d)'
      BY <1>a, <2>1, <3>1, <3>2 DEF ConnOK
    <3> QED
      BY <3>1, <3>3 DEF Inv, RegisteredIsOpen
  <2>4. CASE v \notin clients
    <3>1. closed' = closed \cup {v} /\ Goto(c, conn[c].back) /\ UNCHANGED clients
      BY <1>10, <2>4 DEF UnregisterClient
    <3>2. /\ conn'[c].pc = conn[c].back /\ conn'[c].victim = v
          /\ conn'[c].back = conn[c].back
          /\ \A d \in Client \ {c} : conn'[d] = conn[d]
      BY <1>a, <2>2, <3>1, GotoEffect DEF ConnLabel
    <3>3. \A d \in Client : ConnOK(d)'
      BY <1>a, <2>1, <2>2, <3>1, <3>2 DEF ConnOK
    <3> QED
      BY <2>4, <3>1, <3>3 DEF Inv, RegisteredIsOpen
  <2> QED
    BY <2>3, <2>4
<1>11. ASSUME NEW c \in Client, CloseClient(c)
      PROVE (\A d \in Client : ConnOK(d)') /\ RegisteredIsOpen'
  <2>1. conn[c].pc = "close" /\ UNCHANGED clients /\ closed' = closed \cup {conn[c].victim}
    BY <1>11 DEF CloseClient, At
  <2>2. "leave" \in ConnLabel /\ conn[c].back \in {"kick", "gone"}
    BY <1>a DEF TypeOK, ConnState, ConnLabel
  <2>3. /\ conn'[c].pc = "leave" /\ conn'[c].victim = conn[c].victim
        /\ conn'[c].back = conn[c].back
        /\ \A d \in Client \ {c} : conn'[d] = conn[d]
    BY <1>11, <1>a, <2>2, GotoEffect DEF CloseClient
  <2>4. \A d \in Client : ConnOK(d)'
    BY <1>a, <2>1, <2>2, <2>3 DEF ConnOK
  <2> QED
    BY <1>a, <2>1, <2>4 DEF Inv, RegisteredIsOpen, ConnOK
<1>12. ASSUME NEW c \in Client, EmitLeave(c)
      PROVE (\A d \in Client : ConnOK(d)') /\ RegisteredIsOpen'
  <2>1. conn[c].pc = "leave" /\ UNCHANGED <<clients, closed>>
    BY <1>12, Zenon DEF EmitLeave, At
  <2>2. "offline" \in ConnLabel /\ conn[c].back \in {"kick", "gone"}
    BY <1>a DEF TypeOK, ConnState, ConnLabel
  <2>3. /\ conn'[c].pc = "offline" /\ conn'[c].victim = conn[c].victim
        /\ conn'[c].back = conn[c].back
        /\ \A d \in Client \ {c} : conn'[d] = conn[d]
    BY <1>12, <1>a, <2>2, GotoEffect, Zenon DEF EmitLeave
  <2>4. \A d \in Client : ConnOK(d)'
    BY <1>a, <2>1, <2>2, <2>3 DEF ConnOK
  <2> QED
    BY <1>a, <2>1, <2>4 DEF Inv, RegisteredIsOpen, ConnOK
<1>13. ASSUME NEW c \in Client, CountLeave(c)
      PROVE (\A d \in Client : ConnOK(d)') /\ RegisteredIsOpen'
  <2>1. conn[c].pc = "offline" /\ UNCHANGED <<clients, closed>>
    BY <1>13 DEF CountLeave, At
  <2>2. conn[c].back \in ConnLabel /\ conn[c].back \in {"kick", "gone"}
    BY <1>a DEF TypeOK, ConnState, ConnLabel
  <2>3. /\ conn'[c].pc = conn[c].back /\ conn'[c].victim = conn[c].victim
        /\ conn'[c].back = conn[c].back
        /\ \A d \in Client \ {c} : conn'[d] = conn[d]
    BY <1>13, <1>a, <2>2, GotoEffect DEF CountLeave
  <2>4. \A d \in Client : ConnOK(d)'
    BY <1>a, <2>1, <2>2, <2>3 DEF ConnOK
  <2> QED
    BY <1>a, <2>1, <2>4 DEF Inv, RegisteredIsOpen, ConnOK
<1>14. ASSUME NEW c \in Client, Drain(c)
      PROVE (\A d \in Client : ConnOK(d)') /\ RegisteredIsOpen'
  BY <1>14, ConnSame DEF Drain
<1>15. ASSUME NEW c \in Client, NEW n \in Name, Msg(c, n)
      PROVE (\A d \in Client : ConnOK(d)') /\ RegisteredIsOpen'
  BY <1>15, ConnSame DEF Msg
<1>16. ASSUME NEW c \in Client, NEW n \in Name, Kick(c, n)
      PROVE (\A d \in Client : ConnOK(d)') /\ RegisteredIsOpen'
  <2>1. /\ conn[c].pc # "new" /\ UNCHANGED <<clients, closed>>
        /\ conn'[c].pc \in {"kick", "reply", "unreg"}
        /\ conn'[c].victim \in {conn[c].victim, c} \cup clients
        /\ conn'[c].back = "gone" => conn'[c].victim = c
        /\ \A d \in Client \ {c} : conn'[d] = conn[d]
    BY <1>16, <1>a DEF Kick, At, TypeOK, ConnState, ConnOK
  <2> QED
    BY <2>1, ConnKick
<1>17. ASSUME NEW c \in Client, NEW k \in Client, KickVisit(c, k)
      PROVE (\A d \in Client : ConnOK(d)') /\ RegisteredIsOpen'
  <2>1. /\ conn[c].pc # "new" /\ UNCHANGED <<clients, closed>>
        /\ conn'[c].pc \in {"kick", "reply", "unreg"}
        /\ conn'[c].victim \in {conn[c].victim, c} \cup clients
        /\ conn'[c].back = "gone" => conn'[c].victim = c
        /\ \A d \in Client \ {c} : conn'[d] = conn[d]
    BY <1>17, <1>a DEF KickVisit, At, TypeOK, ConnState, ConnOK
  <2> QED
    BY <2>1, ConnKick
<1>18. ASSUME NEW t \in Task, RangeStart(t)
      PROVE (\A d \in Client : ConnOK(d)') /\ RegisteredIsOpen'
  BY <1>18, ConnSame DEF RangeStart
<1>19. ASSUME NEW t \in Task, RangeSend(t)
      PROVE (\A d \in Client : ConnOK(d)') /\ RegisteredIsOpen'
  BY <1>19, ConnSame DEF RangeSend
<1>20. ASSUME NEW t \in Task, RangeEnd(t)
      PROVE (\A d \in Client : ConnOK(d)') /\ RegisteredIsOpen'
  BY <1>20, ConnSame, Zenon DEF RangeEnd
<1>21. ASSUME NEW t \in Task, NEW k \in Client, RangeVisit(t, k)
      PROVE (\A d \in Client : ConnOK(d)') /\ RegisteredIsOpen'
  BY <1>21, ConnSame DEF RangeVisit
<1>22. CASE UNCHANGED vars
  BY <1>22, ConnSame DEF vars
<1> QED
  BY <1>1, <1>2, <1>3, <1>4, <1>5, <1>6, <1>7, <1>8, <1>9, <1>10, <1>11,
     <1>12, <1>13, <1>14, <1>15, <1>16, <1>17, <1>18, <1>19, <1>20, <1>21,
     <1>22
     DEF Next, ConnStep, Input, TaskStep, Terminated

---------------------------------------------------------------------------
(* Broadcasting.                                                           *)

\* A client that is registered once stays known: its connection is never new
\* again, and only a new connection registers its client.
Known ==
  /\ \A d \in Client : conn[d].pc # "new" => conn'[d].pc # "new"
  /\ \A d \in Client : conn[d].pc # "new" /\ d \in clients' => d \in clients

\* Handlers that keep their state, or have just been started, still owe a
\* message only to clients they have sent to or have still to visit.
LEMMA TaskFrame ==
  ASSUME Inv, Known,
         \A u \in Task : \/ task'[u] = task[u]
                         \/ /\ task'[u].pc = "start" /\ task'[u].due = {}
                            /\ task'[u].cur = {}
  PROVE  \A u \in Task : TaskOK(u)'
<1> SUFFICES ASSUME NEW u \in Task PROVE TaskOK(u)'
  OBVIOUS
<1>1. TaskOK(u) /\ task[u].due \subseteq Client
  BY ZenonT(30) DEF Inv, TypeOK, TaskState
<1>2. CASE task'[u] = task[u]
  BY <1>1, <1>2 DEF TaskOK, Known
<1>3. CASE task'[u] # task[u]
  BY <1>3 DEF TaskOK
<1> QED
  BY <1>2, <1>3

\* Every step keeps the handlers' accounts in order.
LEMMA TaskKept ==
  ASSUME Inv, [Next]_vars
  PROVE  \A u \in Task : TaskOK(u)'
<1>a. TypeOK /\ \A d \in Client : conn[d].back \in {"kick", "gone"} /\ ConnOK(d)
  BY DEF Inv, TypeOK, ConnState
<1>1. ASSUME NEW c \in Client, RegisterClient(c)
      PROVE \A u \in Task : TaskOK(u)'
  <2>0. conn'[c].pc # "new" /\ \A d \in Client \ {c} : conn'[d] = conn[d]
    BY <1>1, <1>a, GotoEffect DEF RegisterClient, ConnLabel
  <2>1. Known
    BY <1>1, <2>0 DEF RegisterClient, At, Known
  <2>2. \A u \in Task : \/ task'[u] = task[u]
                        \/ /\ task'[u].pc = "start" /\ task'[u].due = {}
                           /\ task'[u].cur = {}
    BY <1>1 DEF RegisterClient
  <2> QED
    BY <2>1, <2>2, TaskFrame
<1>2. ASSUME NEW c \in Client, EmitJoined(c)
      PROVE \A u \in Task : TaskOK(u)'
  <2>0. conn'[c].pc # "new" /\ \A d \in Client \ {c} : conn'[d] = conn[d]
    BY <1>2, <1>a, GotoEffect, Zenon DEF EmitJoined, ConnLabel
  <2>1. Known
    BY <1>2, <2>0, Zenon DEF EmitJoined, At, Known
  <2>2. \A u \in Task : \/ task'[u] = task[u]
                        \/ /\ task'[u].pc = "start" /\ task'[u].due = {}
                           /\ task'[u].cur = {}
    BY <1>2, <1>a, EmitEffect, NameAssumption, ZenonT(30) DEF EmitJoined
  <2> QED
    BY <2>1, <2>2, TaskFrame
<1>3. ASSUME NEW c \in Client, CountJoined(c)
      PROVE \A u \in Task : TaskOK(u)'
  <2>0. conn'[c].pc # "new" /\ \A d \in Client \ {c} : conn'[d] = conn[d]
    BY <1>3, <1>a, GotoEffect DEF CountJoined, ConnLabel
  <2>1. Known
    BY <1>3, <2>0 DEF CountJoined, At, Known
  <2>2. \A u \in Task : \/ task'[u] = task[u]
                        \/ /\ task'[u].pc = "start" /\ task'[u].due = {}
                           /\ task'[u].cur = {}
    BY <1>3 DEF CountJoined
  <2> QED
    BY <2>1, <2>2, TaskFrame
<1>4. ASSUME NEW c \in Client, Reply(c)
      PROVE \A u \in Task : TaskOK(u)'
  <2>0. conn'[c].pc # "new" /\ \A d \in Client \ {c} : conn'[d] = conn[d]
    BY <1>4, <1>a, GotoEffect DEF Reply, ConnLabel
  <2>1. Known
    BY <1>4, <2>0 DEF Reply, At, Known
  <2>2. \A u \in Task : \/ task'[u] = task[u]
                        \/ /\ task'[u].pc = "start" /\ task'[u].due = {}
                           /\ task'[u].cur = {}
    BY <1>4 DEF Reply
  <2> QED
    BY <2>1, <2>2, TaskFrame
<1>5. ASSUME NEW c \in Client, Auth(c)
      PROVE \A u \in Task : TaskOK(u)'
  <2>0. conn'[c].pc # "new" /\ \A d \in Client \ {c} : conn'[d] = conn[d]
    BY <1>5, <1>a, GotoEffect DEF Auth, ConnLabel
  <2>1. Known
    BY <1>5, <2>0 DEF Auth, At, Known
  <2>2. \A u \in Task : \/ task'[u] = task[u]
                        \/ /\ task'[u].pc = "start" /\ task'[u].due = {}
                           /\ task'[u].cur = {}
    BY <1>5 DEF Auth
  <2> QED
    BY <2>1, <2>2, TaskFrame
<1>6. ASSUME NEW c \in Client, Announce(c)
      PROVE \A u \in Task : TaskOK(u)'
  <2>1. Known
    BY <1>6, Zenon DEF Announce, Known
  <2>2. \A u \in Task : \/ task'[u] = task[u]
                        \/ /\ task'[u].pc = "start" /\ task'[u].due = {}
                           /\ task'[u].cur = {}
    BY <1>6, <1>a, EmitEffect, NameAssumption, ZenonT(30) DEF Announce
  <2> QED
    BY <2>1, <2>2, TaskFrame
<1>7. ASSUME NEW c \in Client, SendFile(c)
      PROVE \A u \in Task : TaskOK(u)'
  <2>0. conn'[c].pc # "new" /\ \A d \in Client \ {c} : conn'[d] = conn[d]
    BY <1>7, <1>a, GotoEffect, ZenonT(30) DEF SendFile, ConnLabel
  <2>1. Known
    BY <1>7, <2>0, Zenon DEF SendFile, At, Known
  <2>2. \A u \in Task : \/ task'[u] = task[u]
                        \/ /\ task'[u].pc = "start" /\ task'[u].due = {}
                           /\ task'[u].cur = {}
    BY <1>7, <1>a, EmitEffect, NameAssumption, ZenonT(30) DEF SendFile
  <2> QED
    BY <2>1, <2>2, TaskFrame
<1>8. ASSUME NEW c \in Client, KickEnd(c)
      PROVE \A u \in Task : TaskOK(u)'
  <2>1. Known
    BY <1>8, <1>a DEF KickEnd, At, Known, TypeOK, ConnState
  <2>2. \A u \in Task : \/ task'[u] = task[u]
                        \/ /\ task'[u].pc = "start" /\ task'[u].due = {}
                           /\ task'[u].cur = {}
    BY <1>8 DEF KickEnd
  <2> QED
    BY <2>1, <2>2, TaskFrame
<1>9. ASSUME NEW c \in Client, Leave(c)
      PROVE \A u \in Task : TaskOK(u)'
  <2>0. conn'[c].pc # "new" /\ \A d \in Client \ {c} : conn'[d] = conn[d]
    BY <1>9, <1>a, GotoEffect DEF Leave, ConnLabel
  <2>1. Known
    BY <1>9, <2>0 DEF Leave, At, Known
  <2>2. \A u \in Task : \/ task'[u] = task[u]
                        \/ /\ task'[u].pc = "start" /\ task'[u].due = {}
                           /\ task'[u].cur = {}
    BY <1>9 DEF Leave
  <2> QED
    BY <2>1, <2>2, TaskFrame
<1>10. ASSUME NEW c \in Client, UnregisterClient(c)
      PROVE \A u \in Task : TaskOK(u)'
  <2>1. Known
    <3>1. (\E l \in {"close", conn[c].back} : Goto(c, l)) /\ clients' \subseteq clients
      BY <1>10 DEF UnregisterClient
    <3>2. PICK l \in {"close", conn[c].back} : Goto(c, l)
      BY <3>1
    <3>3. conn'[c].pc = l /\ \A d \in Client \ {c} : conn'[d] = conn[d]
      BY <1>a, <3>2, GotoEffect DEF ConnLabel
    <3> QED
      BY <1>a, <3>1, <3>3 DEF Known
  <2>2. \A u \in Task : \/ task'[u] = task[u]
                        \/ /\ task'[u].pc = "start" /\ task'[u].due = {}
                           /\ task'[u].cur = {}
    BY <1>10 DEF UnregisterClient
  <2> QED
    BY <2>1, <2>2, TaskFrame
<1>11. ASSUME NEW c \in Client, CloseClient(c)
      PROVE \A u \in Task : TaskOK(u)'
  <2>0. conn'[c].pc # "new" /\ \A d \in Client \ {c} : conn'[d] = conn[d]
    BY <1>11, <1>a, GotoEffect DEF CloseClient, ConnLabel
  <2>1. Known
    BY <1>11, <2>0 DEF CloseClient, At, Known
  <2>2. \A u \in Task : \/ task'[u] = task[u]
                        \/ /\ task'[u].pc = "start" /\ task'[u].due = {}
                           /\ task'[u].cur = {}
    BY <1>11 DEF CloseClient
  <2> QED
    BY <2>1, <2>2, TaskFrame
<1>12. ASSUME NEW c \in Client, EmitLeave(c)
      PROVE \A u \in Task : TaskOK(u)'
  <2>0. conn'[c].pc # "new" /\ \A d \in Client \ {c} : conn'[d] = conn[d]
    BY <1>12, <1>a, GotoEffect, Zenon DEF EmitLeave, ConnLabel
  <2>1. Known
    BY <1>12, <2>0, Zenon DEF EmitLeave, At, Known
  <2>2. \A u \in Task : \/ task'[u] = task[u]
                        \/ /\ task'[u].pc = "start" /\ task'[u].due = {}
                           /\ task'[u].cur = {}
    BY <1>12, <1>a, EmitEffect, NameAssumption, ZenonT(30) DEF EmitLeave
  <2> QED
    BY <2>1, <2>2, TaskFrame
<1>13. ASSUME NEW c \in Client, CountLeave(c)
      PROVE \A u \in Task : TaskOK(u)'
  <2>0. conn'[c].pc # "new" /\ \A d \in Client \ {c} : conn'[d] = conn[d]
    BY <1>13, <1>a, GotoEffect DEF CountLeave, ConnLabel
  <2>1. Known
    BY <1>13, <2>0 DEF CountLeave, At, Known
  <2>2. \A u \in Task : \/ task'[u] = task[u]
                        \/ /\ task'[u].pc = "start" /\ task'[u].due = {}
                           /\ task'[u].cur = {}
    BY <1>13 DEF CountLeave
  <2> QED
    BY <2>1, <2>2, TaskFrame
<1>14. ASSUME NEW c \in Client, Drain(c)
      PROVE \A u \in Task : TaskOK(u)'
  <2>1. Known
    BY <1>14 DEF Drain, Known
  <2>2. \A u \in Task : \/ task'[u] = task[u]
                        \/ /\ task'[u].pc = "start" /\ task'[u].due = {}
                           /\ task'[u].cur = {}
    BY <1>14 DEF Drain
  <2> QED
    BY <2>1, <2>2, TaskFrame
<1>15. ASSUME NEW c \in Client, NEW n \in Name, Msg(c, n)
      PROVE \A u \in Task : TaskOK(u)'
  <2>1. Known
    BY <1>15 DEF Msg, Known
  <2>2. \A u \in Task : \/ task'[u] = task[u]
                        \/ /\ task'[u].pc = "start" /\ task'[u].due = {}
                           /\ task'[u].cur = {}
    BY <1>15, <1>a, EmitEffect, NameAssumption, ZenonT(30) DEF Msg
  <2> QED
    BY <2>1, <2>2, TaskFrame
<1>16. ASSUME NEW c \in Client, NEW n \in Name, Kick(c, n)
      PROVE \A u \in Task : TaskOK(u)'
  <2>1. Known
    BY <1>16, <1>a DEF Kick, At, Known, TypeOK, ConnState
  <2>2. \A u \in Task : \/ task'[u] = task[u]
                        \/ /\ task'[u].pc = "start" /\ task'[u].due = {}
                           /\ task'[u].cur = {}
    BY <1>16 DEF Kick
  <2> QED
    BY <2>1, <2>2, TaskFrame
<1>17. ASSUME NEW c \in Client, NEW k \in Client, KickVisit(c, k)
      PROVE \A u \in Task : TaskOK(u)'
  <2>1. Known
    BY <1>17, <1>a DEF KickVisit, At, Known, TypeOK, ConnState
  <2>2. \A u \in Task : \/ task'[u] = task[u]
                        \/ /\ task'[u].pc = "start" /\ task'[u].due = {}
                           /\ task'[u].cur = {}
    BY <1>17 DEF KickVisit
  <2> QED
    BY <2>1, <2>2, TaskFrame
<1>18. ASSUME NEW t \in Task, RangeStart(t)
      PROVE \A u \in Task : TaskOK(u)'
  <2>1. task[t] \in TaskState /\ TaskOK(t)
    BY DEF Inv, TypeOK
  <2>2. /\ task'[t].pc = "range" /\ task'[t].todo = Called(task[t].to)
        /\ task'[t].due = Called(task[t].to) \cap clients
        /\ task'[t].cur = task[t].cur /\ UNCHANGED <<clients, conn>>
    BY <1>18, <2>1, Zenon DEF RangeStart, TypeOK, TaskState, Inv
  <2>3. task[t].cur = {} /\ clients \subseteq Client
    BY <1>18, <1>a, <2>1 DEF RangeStart, TaskAt, TaskOK, TypeOK
  <2>7. TaskOK(t)'
    BY <1>a, <2>2, <2>3 DEF TaskOK, ConnOK
  <2>8. ASSUME NEW u \in Task \ {t} PROVE TaskOK(u)'
    <3>1. task'[u] = task[u] /\ UNCHANGED <<clients, conn>>
      BY <1>18, <1>a DEF TypeOK, RangeStart
    <3> QED
      BY <3>1 DEF Inv, TaskOK
  <2> QED
    BY <2>7, <2>8
<1>19. ASSUME NEW t \in Task, RangeSend(t)
      PROVE \A u \in Task : TaskOK(u)'
  <2>1. task[t] \in TaskState /\ TaskOK(t)
    BY DEF Inv, TypeOK
  <2>2. PICK k \in task[t].cur :
          IF k \in closed THEN task' = [task EXCEPT ![t] = Idle] ELSE Offer(t, k)
    BY <1>19 DEF RangeSend
  <2>3. task[t].pc = "send" /\ UNCHANGED <<clients, conn>>
    BY <1>19 DEF RangeSend, TaskAt
  <2>4. ASSUME k \in closed PROVE TaskOK(t)'
    <3>1. task'[t] = Idle
      BY <1>a, <2>2, <2>4 DEF TypeOK
    <3>2. Idle.pc = "idle" /\ Idle.due = {} /\ Idle.cur = {}
      BY DEF Idle
    <3> QED
      BY <3>1, <3>2 DEF TaskOK
  <2>5. ASSUME k \notin closed PROVE TaskOK(t)'
    <3> DEFINE r == [task[t] EXCEPT !.pc = "range", !.cur = {},
                                    !.offered = task[t].offered \cup {k}]
    <3>1. /\ r.pc = "range" /\ r.todo = task[t].todo /\ r.due = task[t].due
          /\ r.cur = {} /\ r.offered = task[t].offered \cup {k}
      BY <2>1, Zenon DEF TaskState
    <3>2. task' = [task EXCEPT ![t] = r]
      BY <2>2, <2>5 DEF Offer
    <3> HIDE DEF r
    <3>3. task'[t] = r
      BY <1>a, <3>2 DEF TypeOK
    <3> QED
      BY <2>1, <2>2, <2>3, <3>1, <3>3 DEF TaskOK
  <2>7. TaskOK(t)'
    BY <2>4, <2>5
  <2>8. ASSUME NEW u \in Task \ {t} PROVE TaskOK(u)'
    <3>1. task'[u] = task[u] /\ UNCHANGED <<clients, conn>>
      BY <1>19, <1>a DEF TypeOK, RangeSend, Offer
    <3> QED
      BY <3>1 DEF Inv, TaskOK
  <2> QED
    BY <2>7, <2>8
<1>20. ASSUME NEW t \in Task, RangeEnd(t)
      PROVE \A u \in Task : TaskOK(u)'
  <2>1. task[t] \in TaskState /\ TaskOK(t)
    BY DEF Inv, TypeOK
  <2> DEFINE r == [Idle EXCEPT !.pc = "start", !.to = task[t].from]
  <2>2. r.pc = "start" /\ r.due = {} /\ r.cur = {}
    BY DEF Idle
  <2>3. Idle.pc = "idle" /\ Idle.due = {} /\ Idle.cur = {}
    BY DEF Idle
  <2>4. \/ task' = [task EXCEPT ![t] = Idle]
        \/ task' = [task EXCEPT ![t] = r]
    BY <1>20, Zenon DEF RangeEnd
  <2> HIDE DEF r
  <2>5. task'[t] = Idle \/ task'[t] = r
    BY <1>a, <2>4 DEF TypeOK
  <2>7. TaskOK(t)'
    BY <2>2, <2>3, <2>5 DEF TaskOK
  <2>8. ASSUME NEW u \in Task \ {t} PROVE TaskOK(u)'
    <3>1. task'[u] = task[u] /\ UNCHANGED <<clients, conn>>
      BY <1>20, <1>a, Zenon DEF TypeOK, RangeEnd
    <3> QED
      BY <3>1 DEF Inv, TaskOK
  <2> QED
    BY <2>7, <2>8
<1>21. ASSUME NEW t \in Task, NEW k \in Client, RangeVisit(t, k)
      PROVE \A u \in Task : TaskOK(u)'
  <2>1. task[t] \in TaskState /\ TaskOK(t)
    BY DEF Inv, TypeOK
  <2>2. /\ task[t].pc = "range" /\ k \in task[t].todo
        /\ UNCHANGED <<clients, conn>>
    BY <1>21 DEF RangeVisit, TaskAt
  <2>3. ASSUME k \in clients PROVE TaskOK(t)'
    <3>1. /\ task'[t].pc = "send" /\ task'[t].todo = task[t].todo \ {k}
          /\ task'[t].due = task[t].due /\ task'[t].cur = {k}
          /\ task'[t].offered = task[t].offered
      BY <1>21, <2>1, <2>3, ZenonT(30) DEF RangeVisit, TypeOK, TaskState, Inv
    <3> QED
      BY <2>1, <2>2, <3>1 DEF TaskOK
  <2>4. ASSUME k \notin clients PROVE TaskOK(t)'
    <3>1. /\ task'[t].pc = "range" /\ task'[t].todo = task[t].todo \ {k}
          /\ task'[t].due = task[t].due /\ task'[t].cur = task[t].cur
          /\ task'[t].offered = task[t].offered
      BY <1>21, <2>1, <2>2, <2>4, Zenon DEF RangeVisit, TypeOK, TaskState, Inv
    <3> QED
      BY <2>1, <2>2, <2>4, <3>1 DEF TaskOK
  <2>7. TaskOK(t)'
    BY <2>3, <2>4
  <2>8. ASSUME NEW u \in Task \ {t} PROVE TaskOK(u)'
    <3>1. task'[u] = task[u] /\ UNCHANGED <<clients, conn>>
      BY <1>21, <1>a DEF TypeOK, RangeVisit
    <3> QED
      BY <3>1 DEF Inv, TaskOK
  <2> QED
    BY <2>7, <2>8
<1>22. CASE UNCHANGED vars
  BY <1>22, TaskFrame DEF vars, Known
<1> QED
  BY <1>1, <1>2, <1>3, <1>4, <1>5, <1>6, <1>7, <1>8, <1>9, <1>10, <1>11,
     <1>12, <1>13, <1>14, <1>15, <1>16, <1>17, <1>18, <1>19, <1>20, <1>21,
     <1>22
     DEF Next, ConnStep, Input, TaskStep, Terminated

---------------------------------------------------------------------------
(* The online gauge.                                                       *)

\* The sets the gauge counts are finite.
LEMMA Counted ==
  ASSUME TypeOK
  PROVE  /\ IsFiniteSet(clients) /\ IsFiniteSet(Joining) /\ IsFiniteSet(Leaving)
         /\ Cardinality(clients) \in Nat /\ Cardinality(Joining) \in Nat
         /\ Cardinality(Leaving) \in Nat /\ online \in Int
<1>1. clients \subseteq Client /\ online \in Int
  BY DEF TypeOK
<1>2. Joining \subseteq Client /\ Leaving \subseteq Client
  BY DEF Joining, Leaving
<1>3. IsFiniteSet(clients) /\ IsFiniteSet(Joining) /\ IsFiniteSet(Leaving)
  BY <1>1, <1>2, ClientAssumption, FS_Subset
<1> QED
  BY <1>1, <1>3, FS_CardinalityType

\* The gauge stays exact while nobody enters or leaves the two calls.
LEMMA GaugeSame ==
  ASSUME Inv, UNCHANGED <<clients, online>>, Joining' = Joining, Leaving' = Leaving
  PROVE  OnlineGauge'
  BY DEF Inv, OnlineGauge

\* A move that neither enters nor leaves the two calls leaves them alone.
LEMMA GaugeMove ==
  ASSUME TypeOK, NEW c \in Client,
         \A d \in Client \ {c} : conn'[d] = conn[d],
         conn[c].pc \in {"joined", "online"} <=> conn'[c].pc \in {"joined", "online"},
         conn[c].pc \in {"close", "leave", "offline"}
           <=> conn'[c].pc \in {"close", "leave", "offline"}
  PROVE  Joining' = Joining /\ Leaving' = Leaving
  BY DEF Joining, Leaving

\* Every step keeps the gauge exact.
LEMMA GaugeKept ==
  ASSUME Inv, [Next]_vars
  PROVE  OnlineGauge'
<1>a. TypeOK /\ \A d \in Client : conn[d].back \in {"kick", "gone"}
  BY DEF Inv, TypeOK, ConnState
<1>b. online = Cardinality(clients) - Cardinality(Joining) + Cardinality(Leaving)
  BY DEF Inv, OnlineGauge
<1>c. /\ IsFiniteSet(clients) /\ IsFiniteSet(Joining) /\ IsFiniteSet(Leaving)
      /\ Cardinality(clients) \in Nat /\ Cardinality(Joining) \in Nat
      /\ Cardinality(Leaving) \in Nat /\ online \in Int
  BY <1>a, Counted
<1>1. ASSUME NEW c \in Client, RegisterClient(c) PROVE OnlineGauge'
  <2>1. /\ conn[c].pc = "new" /\ clients' = clients \cup {c}
        /\ UNCHANGED online /\ c \notin clients
    BY <1>1 DEF RegisterClient, At, Inv, ConnOK
  <2>2. conn'[c].pc = "joined" /\ \A d \in Client \ {c} : conn'[d] = conn[d]
    BY <1>1, <1>a, GotoEffect DEF RegisterClient, ConnLabel
  <2>3. Joining' = Joining \cup {c} /\ c \notin Joining /\ Leaving' = Leaving
    BY <2>1, <2>2 DEF Joining, Leaving
  <2>4. Cardinality(clients') = Cardinality(clients) + 1
    BY <1>c, <2>1, FS_AddElement, Zenon
  <2>5. Cardinality(Joining') = Cardinality(Joining) + 1
    BY <1>c, <2>3, FS_AddElement, Zenon
  <2> QED
    BY <1>b, <1>c, <2>1, <2>3, <2>4, <2>5 DEF OnlineGauge
<1>2. ASSUME NEW c \in Client, EmitJoined(c) PROVE OnlineGauge'
  <2>1. conn[c].pc = "joined" /\ UNCHANGED <<clients, online>>
    BY <1>2, Zenon DEF EmitJoined, At
  <2>2. conn'[c].pc = "online" /\ \A d \in Client \ {c} : conn'[d] = conn[d]
    BY <1>2, <1>a, GotoEffect, ZenonT(30) DEF EmitJoined, ConnLabel
  <2>3. Joining' = Joining /\ Leaving' = Leaving
    BY <1>a, <2>1, <2>2, GaugeMove
  <2> QED
    BY <2>1, <2>3, GaugeSame
<1>3. ASSUME NEW c \in Client, CountJoined(c) PROVE OnlineGauge'
  <2>1. conn[c].pc = "online" /\ UNCHANGED clients /\ online' = online + 1
    BY <1>3 DEF CountJoined, At
  <2>2. conn'[c].pc = "ready" /\ \A d \in Client \ {c} : conn'[d] = conn[d]
    BY <1>3, <1>a, GotoEffect DEF CountJoined, ConnLabel
  <2>3. Joining' = Joining \ {c} /\ c \in Joining /\ Leaving' = Leaving
    BY <2>1, <2>2 DEF Joining, Leaving
  <2>4. Cardinality(Joining') = Cardinality(Joining) - 1
    BY <1>c, <2>3, FS_RemoveElement, ZenonT(30)
  <2> QED
    BY <1>b, <1>c, <2>1, <2>3, <2>4 DEF OnlineGauge
<1>4. ASSUME NEW c \in Client, Reply(c) PROVE OnlineGauge'
  <2>1. conn[c].pc \in {"ready", "reply"} /\ UNCHANGED <<clients, online>>
    BY <1>4 DEF Reply, At
  <2>2. conn'[c].pc = "ready" /\ \A d \in Client \ {c} : conn'[d] = conn[d]
    BY <1>4, <1>a, GotoEffect DEF Reply, ConnLabel
  <2>3. Joining' = Joining /\ Leaving' = Leaving
    BY <1>a, <2>1, <2>2, GaugeMove
  <2> QED
    BY <2>1, <2>3, GaugeSame
<1>5. ASSUME NEW c \in Client, Auth(c) PROVE OnlineGauge'
  <2>1. conn[c].pc \in {"ready", "reply"} /\ UNCHANGED <<clients, online>>
    BY <1>5 DEF Auth, At
  <2>2. conn'[c].pc = "reply" /\ \A d \in Client \ {c} : conn'[d] = conn[d]
    BY <1>5, <1>a, GotoEffect DEF Auth, ConnLabel
  <2>3. Joining' = Joining /\ Leaving' = Leaving
    BY <1>a, <2>1, <2>2, GaugeMove
  <2> QED
    BY <2>1, <2>3, GaugeSame
<1>6. ASSUME NEW c \in Client, Announce(c) PROVE OnlineGauge'
  BY <1>6, GaugeSame, Zenon DEF Announce, Joining, Leaving
<1>7. ASSUME NEW c \in Client, SendFile(c) PROVE OnlineGauge'
  <2>1. conn[c].pc \in {"ready", "reply"} /\ UNCHANGED <<clients, online>>
    BY <1>7, ZenonT(30) DEF SendFile, At
  <2>2. conn'[c].pc = "reply" /\ \A d \in Client \ {c} : conn'[d] = conn[d]
    BY <1>7, <1>a, GotoEffect, ZenonT(30) DEF SendFile, ConnLabel
  <2>3. Joining' = Joining /\ Leaving' = Leaving
    BY <1>a, <2>1, <2>2, GaugeMove
  <2> QED
    BY <2>1, <2>3, GaugeSame
<1>8. ASSUME NEW c \in Client, KickEnd(c) PROVE OnlineGauge'
  <2>1. conn[c].pc \in {"ready", "kick"} /\ UNCHANGED <<clients, online>>
    BY <1>8 DEF KickEnd, At
  <2>2. /\ conn'[c].pc \in {"kick", "reply", "unreg"}
        /\ \A d \in Client \ {c} : conn'[d] = conn[d]
    BY <1>8, <1>a DEF KickEnd, At, TypeOK, ConnState
  <2>3. Joining' = Joining /\ Leaving' = Leaving
    BY <1>a, <2>1, <2>2, GaugeMove
  <2> QED
    BY <2>1, <2>3, GaugeSame
<1>9. ASSUME NEW c \in Client, Leave(c) PROVE OnlineGauge'
  <2>1. conn[c].pc \in {"ready", "reply"} /\ UNCHANGED <<clients, online>>
    BY <1>9 DEF Leave, At
  <2>2. conn'[c].pc = "unreg" /\ \A d \in Client \ {c} : conn'[d] = conn[d]
    BY <1>9, <1>a, GotoEffect DEF Leave, ConnLabel
  <2>3. Joining' = Joining /\ Leaving' = Leaving
    BY <1>a, <2>1, <2>2, GaugeMove
  <2> QED
    BY <2>1, <2>3, GaugeSame
<1>10. ASSUME NEW c \in Client, UnregisterClient(c) PROVE OnlineGauge'
  <2> DEFINE v == conn[c].victim
  <2>1. conn[c].pc = "unreg" /\ UNCHANGED online
    BY <1>10 DEF UnregisterClient, At
  <2>2. CASE v \in clients
    <3>1. clients' = clients \ {v} /\ Goto(c, "close")
      BY <1>10, <2>2 DEF UnregisterClient
    <3>2. conn'[c].pc = "close" /\ \A d \in Client \ {c} : conn'[d] = conn[d]
      BY <1>a, <3>1, GotoEffect DEF ConnLabel
    <3>3. Leaving' = Leaving \cup {c} /\ c \notin Leaving /\ Joining' = Joining
      BY <2>1, <3>2 DEF Joining, Leaving
    <3>4. Cardinality(clients') = Cardinality(clients) - 1
      BY <1>c, <2>2, <3>1, FS_RemoveElement, Zenon
    <3>5. Cardinality(Leaving') = Cardinality(Leaving) + 1
      BY <1>c, <3>3, FS_AddElement, Zenon
    <3> QED
      BY <1>b, <1>c, <2>1, <3>3, <3>4, <3>5 DEF OnlineGauge
  <2>3. CASE v \notin clients
    <3>1. UNCHANGED clients /\ Goto(c, conn[c].back)
      BY <1>10, <2>3 DEF UnregisterClient
    <3>2. /\ conn'[c].pc \in {"kick", "gone"}
          /\ \A d \in Client \ {c} : conn'[d] = conn[d]
      BY <1>a, <3>1, GotoEffect DEF ConnLabel
    <3>3. Joining' = Joining /\ Leaving' = Leaving
      BY <1>a, <2>1, <3>2, GaugeMove
    <3> QED
      BY <2>1, <3>1, <3>3, GaugeSame
  <2> QED
    BY <2>2, <2>3
<1>11. ASSUME NEW c \in Client, CloseClient(c) PROVE OnlineGauge'
  <2>1. conn[c].pc = "close" /\ UNCHANGED <<clients, online>>
    BY <1>11 DEF CloseClient, At
  <2>2. conn'[c].pc = "leave" /\ \A d \in Client \ {c} : conn'[d] = conn[d]
    BY <1>11, <1>a, GotoEffect DEF CloseClient, ConnLabel
  <2>3. Joining' = Joining /\ Leaving' = Leaving
    BY <1>a, <2>1, <2>2, GaugeMove
  <2> QED
    BY <2>1, <2>3, GaugeSame
<1>12. ASSUME NEW c \in Client, EmitLeave(c) PROVE OnlineGauge'
  <2>1. conn[c].pc = "leave" /\ UNCHANGED <<clients, online>>
    BY <1>12, ZenonT(30) DEF EmitLeave, At
  <2>2. conn'[c].pc = "offline" /\ \A d \in Client \ {c} : conn'[d] = conn[d]
    BY <1>12, <1>a, GotoEffect, ZenonT(30) DEF EmitLeave, ConnLabel
  <2>3. Joining' = Joining /\ Leaving' = Leaving
    BY <1>a, <2>1, <2>2, GaugeMove
  <2> QED
    BY <2>1, <2>3, GaugeSame
<1>13. ASSUME NEW c \in Client, CountLeave(c) PROVE OnlineGauge'
  <2>1. conn[c].pc = "offline" /\ UNCHANGED clients /\ online' = online - 1
    BY <1>13 DEF CountLeave, At
  <2>2. /\ conn'[c].pc \in {"kick", "gone"}
        /\ \A d \in Client \ {c} : conn'[d] = conn[d]
    BY <1>13, <1>a, GotoEffect DEF CountLeave, ConnLabel
  <2>3. Leaving' = Leaving \ {c} /\ c \in Leaving /\ Joining' = Joining
    BY <2>1, <2>2 DEF Joining, Leaving
  <2>4. Cardinality(Leaving') = Cardinality(Leaving) - 1
    BY <1>c, <2>3, FS_RemoveElement, Zenon
  <2> QED
    BY <1>b, <1>c, <2>1, <2>3, <2>4 DEF OnlineGauge
<1>14. ASSUME NEW c \in Client, Drain(c) PROVE OnlineGauge'
  BY <1>14, GaugeSame DEF Drain, Joining, Leaving
<1>15. ASSUME NEW c \in Client, NEW n \in Name, Msg(c, n) PROVE OnlineGauge'
  BY <1>15, GaugeSame DEF Msg, Joining, Leaving
<1>16. ASSUME NEW c \in Client, NEW n \in Name, Kick(c, n) PROVE OnlineGauge'
  <2>1. conn[c].pc \in {"ready", "kick"} /\ UNCHANGED <<clients, online>>
    BY <1>16 DEF Kick, At
  <2>2. /\ conn'[c].pc \in {"kick", "reply", "unreg"}
        /\ \A d \in Client \ {c} : conn'[d] = conn[d]
    BY <1>16, <1>a DEF Kick, At, TypeOK, ConnState
  <2>3. Joining' = Joining /\ Leaving' = Leaving
    BY <1>a, <2>1, <2>2, GaugeMove
  <2> QED
    BY <2>1, <2>3, GaugeSame
<1>17. ASSUME NEW c \in Client, NEW k \in Client, KickVisit(c, k)
       PROVE  OnlineGauge'
  <2>1. conn[c].pc \in {"ready", "kick"} /\ UNCHANGED <<clients, online>>
    BY <1>17 DEF KickVisit, At
  <2>2. /\ conn'[c].pc \in {"kick", "reply", "unreg"}
        /\ \A d \in Client \ {c} : conn'[d] = conn[d]
    BY <1>17, <1>a DEF KickVisit, At, TypeOK, ConnState
  <2>3. Joining' = Joining /\ Leaving' = Leaving
    BY <1>a, <2>1, <2>2, GaugeMove
  <2> QED
    BY <2>1, <2>3, GaugeSame
<1>18. ASSUME NEW t \in Task, RangeStart(t) PROVE OnlineGauge'
  BY <1>18, GaugeSame DEF RangeStart, Joining, Leaving
<1>19. ASSUME NEW t \in Task, RangeSend(t) PROVE OnlineGauge'
  BY <1>19, GaugeSame DEF RangeSend, Joining, Leaving
<1>20. ASSUME NEW t \in Task, RangeEnd(t) PROVE OnlineGauge'
  BY <1>20, GaugeSame, Zenon DEF RangeEnd, Joining, Leaving
<1>21. ASSUME NEW t \in Task, NEW k \in Client, RangeVisit(t, k)
       PROVE  OnlineGauge'
  BY <1>21, GaugeSame DEF RangeVisit, Joining, Leaving
<1>22. CASE UNCHANGED vars
  BY <1>22, GaugeSame DEF vars, Joining, Leaving
<1> QED
  BY <1>1, <1>2, <1>3, <1>4, <1>5, <1>6, <1>7, <1>8, <1>9, <1>10, <1>11,
     <1>12, <1>13, <1>14, <1>15, <1>16, <1>17, <1>18, <1>19, <1>20, <1>21,
     <1>22, ZenonT(30)
     DEF Next, ConnStep, Input, TaskStep, Terminated

---------------------------------------------------------------------------
(* Panics.                                                                 *)

\* The process only dies in a command's answer to a closed client.
LEMMA PanicStep ==
  ASSUME Inv, [Next]_vars
  PROVE  ~crashed /\ crashed' =>
           /\ UNCHANGED task
           /\ \E c \in closed \ clients : conn[c].pc \in {"ready", "reply"}
<1> DEFINE Answers == /\ UNCHANGED task
                      /\ \E c \in closed \ clients : conn[c].pc \in {"ready", "reply"}
<1>a. \A c \in closed : c \notin clients
  BY DEF Inv, RegisteredIsOpen
<1>1. ASSUME NEW c \in Client, RegisterClient(c)
      PROVE UNCHANGED crashed
  BY <1>1 DEF RegisterClient
<1>2. ASSUME NEW c \in Client, EmitJoined(c)
      PROVE UNCHANGED crashed
  BY <1>2, Zenon DEF EmitJoined
<1>3. ASSUME NEW c \in Client, CountJoined(c)
      PROVE UNCHANGED crashed
  BY <1>3 DEF CountJoined
<1>4. ASSUME NEW c \in Client, Reply(c)
      PROVE crashed' => Answers
  <2>1. UNCHANGED task /\ ~crashed /\ conn[c].pc \in {"ready", "reply"}
    BY <1>4 DEF Reply, At
  <2>2. crashed' => c \in closed
    BY <1>4, <2>1, ZenonT(30) DEF Reply, SendSelf
  <2> QED
    BY <1>a, <2>1, <2>2
<1>5. ASSUME NEW c \in Client, Auth(c)
      PROVE UNCHANGED crashed
  BY <1>5 DEF Auth
<1>6. ASSUME NEW c \in Client, Announce(c)
      PROVE UNCHANGED crashed
  BY <1>6, Zenon DEF Announce
<1>7. ASSUME NEW c \in Client, SendFile(c)
      PROVE UNCHANGED crashed
  BY <1>7, Zenon DEF SendFile
<1>8. ASSUME NEW c \in Client, KickEnd(c)
      PROVE UNCHANGED crashed
  BY <1>8 DEF KickEnd
<1>9. ASSUME NEW c \in Client, Leave(c)
      PROVE crashed' => Answers
  <2>1. UNCHANGED task /\ ~crashed /\ conn[c].pc \in {"ready", "reply"}
    BY <1>9 DEF Leave, At
  <2>2. crashed' => c \in closed
    BY <1>9, <2>1, ZenonT(30) DEF Leave, SendSelf
  <2> QED
    BY <1>a, <2>1, <2>2
<1>10. ASSUME NEW c \in Client, UnregisterClient(c)
      PROVE UNCHANGED crashed
  BY <1>10 DEF UnregisterClient
<1>11. ASSUME NEW c \in Client, CloseClient(c)
      PROVE UNCHANGED crashed
  BY <1>11 DEF CloseClient
<1>12. ASSUME NEW c \in Client, EmitLeave(c)
      PROVE UNCHANGED crashed
  BY <1>12, Zenon DEF EmitLeave
<1>13. ASSUME NEW c \in Client, CountLeave(c)
      PROVE UNCHANGED crashed
  BY <1>13 DEF CountLeave
<1>14. ASSUME NEW c \in Client, Drain(c)
      PROVE UNCHANGED crashed
  BY <1>14 DEF Drain
<1>15. ASSUME NEW c \in Client, NEW n \in Name, Msg(c, n)
      PROVE UNCHANGED crashed
  BY <1>15, Zenon DEF Msg
<1>16. ASSUME NEW c \in Client, NEW n \in Name, Kick(c, n)
      PROVE UNCHANGED crashed
  BY <1>16 DEF Kick
<1>17. ASSUME NEW c \in Client, NEW k \in Client, KickVisit(c, k)
      PROVE UNCHANGED crashed
  BY <1>17 DEF KickVisit
<1>18. ASSUME NEW t \in Task, RangeStart(t)
      PROVE UNCHANGED crashed
  BY <1>18 DEF RangeStart
<1>19. ASSUME NEW t \in Task, RangeSend(t)
      PROVE UNCHANGED crashed
  BY <1>19 DEF RangeSend
<1>20. ASSUME NEW t \in Task, RangeEnd(t)
      PROVE UNCHANGED crashed
  BY <1>20, Zenon DEF RangeEnd
<1>21. ASSUME NEW t \in Task, NEW k \in Client, RangeVisit(t, k)
      PROVE UNCHANGED crashed
  BY <1>21 DEF RangeVisit
<1>22. ASSUME UNCHANGED vars PROVE UNCHANGED crashed
  BY <1>22 DEF vars
<1> HIDE DEF Answers
<1>23. UNCHANGED crashed \/ (crashed' => Answers)
  BY <1>1, <1>2, <1>3, <1>4, <1>5, <1>6, <1>7, <1>8, <1>9, <1>10, <1>11,
     <1>12, <1>13, <1>14, <1>15, <1>16, <1>17, <1>18, <1>19, <1>20, <1>21,
     <1>22, ZenonT(30)
     DEF Next, ConnStep, Input, TaskStep, Terminated
<1> QED
  BY <1>23, Zenon DEF Answers

---------------------------------------------------------------------------
(* The end of a broadcast.                                                 *)

\* Emit takes an idle handler, and no other.
LEMMA EmitIdle ==
  ASSUME TypeOK, NEW to, NEW from, Emit(to, from)
  PROVE  \A t \in Task : task'[t] = task[t] \/ task[t].pc = "idle"
<1> DEFINE new == [Idle EXCEPT !.pc = "start", !.to = to, !.from = from]
<1>1. PICK u \in Task : task[u].pc = "idle" /\ task' = [task EXCEPT ![u] = new]
  BY Zenon DEF Emit
<1> HIDE DEF new
<1> QED
  BY <1>1, Zenon DEF TypeOK

\* What it takes for the handler u to end in a step.
Ends(u) ==
  task[u].pc \in {"range", "send"} /\ task'[u].pc \in {"idle", "start"} =>
    Missed(u) = {} \/ task[u].cur \cap (closed \ clients) # {}

\* A handler ends when nobody is left to visit, or when it panics.
LEMMA BroadcastStep ==
  ASSUME Inv, [Next]_vars, NEW u \in Task
  PROVE  Ends(u)
<1>a. TypeOK /\ TaskOK(u) /\ RegisteredIsOpen
  BY DEF Inv
<1>b. ASSUME task'[u] = task[u] \/ task[u].pc \in {"idle", "start"} PROVE Ends(u)
  BY <1>b DEF Ends
<1>1. ASSUME NEW c \in Client, RegisterClient(c)
      PROVE Ends(u)
  BY <1>b, <1>1 DEF RegisterClient
<1>2. ASSUME NEW c \in Client, EmitJoined(c)
      PROVE Ends(u)
  BY <1>a, <1>b, <1>2, EmitIdle, Zenon DEF EmitJoined
<1>3. ASSUME NEW c \in Client, CountJoined(c)
      PROVE Ends(u)
  BY <1>b, <1>3 DEF CountJoined
<1>4. ASSUME NEW c \in Client, Reply(c)
      PROVE Ends(u)
  BY <1>b, <1>4 DEF Reply
<1>5. ASSUME NEW c \in Client, Auth(c)
      PROVE Ends(u)
  BY <1>b, <1>5 DEF Auth
<1>6. ASSUME NEW c \in Client, Announce(c)
      PROVE Ends(u)
  BY <1>a, <1>b, <1>6, EmitIdle, Zenon DEF Announce
<1>7. ASSUME NEW c \in Client, SendFile(c)
      PROVE Ends(u)
  BY <1>a, <1>b, <1>7, EmitIdle, Zenon DEF SendFile
<1>8. ASSUME NEW c \in Client, KickEnd(c)
      PROVE Ends(u)
  BY <1>b, <1>8 DEF KickEnd
<1>9. ASSUME NEW c \in Client, Leave(c)
      PROVE Ends(u)
  BY <1>b, <1>9 DEF Leave
<1>10. ASSUME NEW c \in Client, UnregisterClient(c)
      PROVE Ends(u)
  BY <1>b, <1>10 DEF UnregisterClient
<1>11. ASSUME NEW c \in Client, CloseClient(c)
      PROVE Ends(u)
  BY <1>b, <1>11 DEF CloseClient
<1>12. ASSUME NEW c \in Client, EmitLeave(c)
      PROVE Ends(u)
  BY <1>a, <1>b, <1>12, EmitIdle, Zenon DEF EmitLeave
<1>13. ASSUME NEW c \in Client, CountLeave(c)
      PROVE Ends(u)
  BY <1>b, <1>13 DEF CountLeave
<1>14. ASSUME NEW c \in Client, Drain(c)
      PROVE Ends(u)
  BY <1>b, <1>14 DEF Drain
<1>15. ASSUME NEW c \in Client, NEW n \in Name, Msg(c, n)
      PROVE Ends(u)
  BY <1>a, <1>b, <1>15, EmitIdle, Zenon DEF Msg
<1>16. ASSUME NEW c \in Client, NEW n \in Name, Kick(c, n)
      PROVE Ends(u)
  BY <1>b, <1>16 DEF Kick
<1>17. ASSUME NEW c \in Client, NEW k \in Client, KickVisit(c, k)
      PROVE Ends(u)
  BY <1>b, <1>17 DEF KickVisit
<1>18. ASSUME NEW t \in Task, RangeStart(t)
      PROVE Ends(u)
  <2>1. CASE t = u
    BY <1>b, <1>18, <2>1 DEF RangeStart, TaskAt
  <2>2. CASE t # u
    BY <1>a, <1>b, <1>18, <2>2, Zenon DEF RangeStart, TypeOK
  <2> QED
    BY <2>1, <2>2
<1>19. ASSUME NEW t \in Task, RangeSend(t)
      PROVE Ends(u)
  <2>1. PICK k \in task[t].cur :
          IF k \in closed THEN task' = [task EXCEPT ![t] = Idle] ELSE Offer(t, k)
    BY <1>19, Zenon DEF RangeSend
  <2>2. CASE t # u
    <3>1. task'[u] = task[u]
      BY <1>a, <2>1, <2>2, Zenon DEF TypeOK, Offer
    <3> QED
      BY <1>b, <3>1
  <2>3. CASE t = u /\ k \in closed
    BY <1>a, <2>1, <2>3 DEF Ends, RegisteredIsOpen
  <2>4. CASE t = u /\ k \notin closed
    <3>1. task'[u].pc = "range"
      BY <1>a, <2>1, <2>4, ZenonT(30) DEF TypeOK, TaskState, Offer
    <3> QED
      BY <3>1 DEF Ends
  <2> QED
    BY <2>2, <2>3, <2>4
<1>20. ASSUME NEW t \in Task, RangeEnd(t)
      PROVE Ends(u)
  <2>1. CASE t # u
    <3>1. task'[u] = task[u]
      BY <1>a, <1>20, <2>1, Zenon DEF TypeOK, RangeEnd
    <3> QED
      BY <1>b, <3>1
  <2>2. CASE t = u
    <3>1. task[u].pc = "range" /\ task[u].todo = {}
      BY <1>20, <2>2, Zenon DEF RangeEnd, TaskAt
    <3>2. Missed(u) = {}
      BY <1>a, <3>1 DEF TaskOK, Missed
    <3> QED
      BY <3>2 DEF Ends
  <2> QED
    BY <2>1, <2>2
<1>21. ASSUME NEW t \in Task, NEW k \in Client, RangeVisit(t, k)
      PROVE Ends(u)
  <2> DEFINE v == IF k \in clients
                  THEN [task[t] EXCEPT !.todo = task[t].todo \ {k}, !.pc = "send", !.cur = {k}]
                  ELSE [task[t] EXCEPT !.todo = task[t].todo \ {k}]
  <2>1. task' = [task EXCEPT ![t] = v] /\ task[t].pc = "range"
    BY <1>21, Zenon DEF RangeVisit, TaskAt
  <2>2. v.pc \in {"range", "send"}
    BY <1>a, <2>1, ZenonT(30) DEF TypeOK, TaskState
  <2> HIDE DEF v
  <2>3. task'[u] = task[u] \/ task'[u].pc \in {"range", "send"}
    BY <1>a, <2>1, <2>2, Zenon DEF TypeOK
  <2> QED
    BY <1>b, <2>3 DEF Ends
<1>22. CASE UNCHANGED vars
  BY <1>b, <1>22 DEF vars
<1> QED
  BY <1>1, <1>2, <1>3, <1>4, <1>5, <1>6, <1>7, <1>8, <1>9, <1>10, <1>11,
     <1>12, <1>13, <1>14, <1>15, <1>16, <1>17, <1>18, <1>19, <1>20, <1>21,
     <1>22, ZenonT(30)
     DEF Next, ConnStep, Input, TaskStep, Terminated

---------------------------------------------------------------------------
(* Theorems.                                                               *)

\* The invariant holds when the program starts.
LEMMA InvInit == Init => Inv
<1> SUFFICES ASSUME Init PROVE Inv
  OBVIOUS
<1>1. TypeOK
  BY TypeInit
<1>2. \A c \in Client : /\ conn[c].pc = "new" /\ conn[c].victim = c
                        /\ conn[c].back = "gone"
  BY DEF Init
<1>3. \A c \in Client : ConnOK(c)
  BY <1>2, ZenonT(30) DEF Init, ConnOK
<1>4. \A t \in Task : task[t].pc = "idle" /\ task[t].due = {} /\ task[t].cur = {}
  BY Zenon DEF Init, Idle
<1>5. \A t \in Task : TaskOK(t)
  BY <1>4 DEF TaskOK
<1>6. clients = {} /\ Joining = {} /\ Leaving = {} /\ online = 0
  BY <1>2 DEF Init, Joining, Leaving
<1>7. OnlineGauge
  BY <1>6, FS_EmptySet DEF OnlineGauge
<1> QED
  BY <1>1, <1>3, <1>5, <1>7 DEF Inv, Init, RegisteredIsOpen

\* Hub keeps its invariant whatever clients do, however kicks, quits, lost
\* connections and broadcasts interleave.
THEOREM Invariance == SafetySpec => []Inv
<1>1. Init => Inv
  BY InvInit
<1>2. Inv /\ [Next]_vars => Inv'
  <2> SUFFICES ASSUME Inv, [Next]_vars PROVE Inv'
    OBVIOUS
  <2>1. TypeOK'
    BY TypeStep DEF Inv
  <2>2. (\A c \in Client : ConnOK(c)') /\ RegisteredIsOpen'
    BY ConnKept
  <2>3. \A t \in Task : TaskOK(t)'
    BY TaskKept
  <2>4. OnlineGauge'
    BY GaugeKept
  <2> QED
    BY <2>1, <2>2, <2>3, <2>4 DEF Inv
<1> QED
  BY <1>1, <1>2, PTL DEF SafetySpec

\* Type correctness; in particular Client.Send never overfills Client.out.
THEOREM TypeCorrect == SafetySpec => []TypeOK
<1>1. Inv => TypeOK
  BY DEF Inv
<1> QED
  BY <1>1, Invariance, PTL

\* The online gauge is exact for any number of clients, same-named or not.
THEOREM GaugeExact == SafetySpec => []OnlineGauge
<1>1. Inv => OnlineGauge
  BY DEF Inv
<1> QED
  BY <1>1, Invariance, PTL

\* A client found in Hub.clients was open when it was found.
THEOREM RegistrationSound == SafetySpec => []RegisteredIsOpen
<1>1. Inv => RegisteredIsOpen
  BY DEF Inv
<1> QED
  BY <1>1, Invariance, PTL

\* A client whose UnregisterClient has returned is out of Hub.clients and
\* closed, whoever else kicked or unregistered it.
THEOREM LeavingComplete == SafetySpec => []GoneIsClosed
<1>1. ASSUME Inv PROVE GoneIsClosed
  <2>1. ASSUME NEW c \in Client, conn[c].pc = "gone"
        PROVE  c \in closed \ clients
    BY <1>1, <2>1 DEF Inv, ConnOK, RegisteredIsOpen
  <2> QED
    BY <2>1 DEF GoneIsClosed
<1> QED
  BY <1>1, Invariance, PTL

\* A broadcast that ends has reached every client that stayed registered,
\* whatever joined and left around it, or has met one that was closed under it.
THEOREM BroadcastReaches == SafetySpec => BroadcastComplete
<1>1. ASSUME Inv, [Next]_vars
      PROVE  [\A t \in Task :
                task[t].pc \in {"range", "send"} /\ task'[t].pc \in {"idle", "start"} =>
                  Missed(t) = {} \/ task[t].cur \cap (closed \ clients) # {}]_vars
  BY <1>1, BroadcastStep, Zenon DEF Ends
<1> QED
  BY <1>1, Invariance, PTL DEF SafetySpec, BroadcastComplete

\* No handler's panic takes the process down: it only dies in a step of a
\* connection goroutine whose command answers a client that is closed.
THEOREM PanicsContained == SafetySpec => HandlerPanicContained
<1>1. ASSUME Inv, [Next]_vars
      PROVE  [~crashed /\ crashed' =>
                /\ UNCHANGED task
                /\ \E c \in closed \ clients : conn[c].pc \in {"ready", "reply"}]_vars
  BY <1>1, PanicStep, Zenon
<1> QED
  BY <1>1, Invariance, PTL DEF SafetySpec, HandlerPanicContained
============================================================================
