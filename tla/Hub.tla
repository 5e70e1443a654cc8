-------------------------------- MODULE Hub --------------------------------
(***************************************************************************)
(* The chat core: Hub keeps the registered clients and the online gauge,   *)
(* Client is a bounded outgoing buffer that can be closed, commands run in *)
(* the goroutine of the client that typed them, and Emit runs every        *)
(* subscriber in a goroutine of its own.  A connection goroutine registers *)
(* its client, runs commands and unregisters the client at the end; the    *)
(* goroutine itself belongs to the transport and is external.              *)
(***************************************************************************)
EXTENDS Integers, FiniteSets

CONSTANTS
  Client,       \* the clients, one connection goroutine each
  Name,         \* the nicknames in use
  NameOf,       \* Client.Name; several clients may share a name
  Task,         \* bound: event handlers that run at the same time
  OutBuffer     \* capacity of Client.out

ASSUME ClientAssumption == IsFiniteSet(Client)
ASSUME NameAssumption ==
  NameOf \in [Client -> Name] /\ "*" \notin Name /\ "" \notin Name
ASSUME BufferAssumption == OutBuffer \in Nat \ {0}

VARIABLES
  clients,      \* Hub.clients: the registered clients
  online,       \* the onlineUsers gauge
  admin,        \* clients whose Meta["level"] is 1
  closed,       \* clients that are closed
  out,          \* number of messages in each Client.out
  conn,         \* the connection goroutines
  task,         \* the event handler goroutines
  crashed       \* a panic nobody recovered has ended the process

vars == <<clients, online, admin, closed, out, conn, task, crashed>>

\* A handler sends to the clients called to, or to all of them ("*"); from is
\* whom to tell when a direct message finds nobody ("" for other events).
\* todo, cur: what Range has still to visit and the client it is at; due:
\* who was registered when Range began; offered: who was sent the message.
Idle == [pc |-> "idle", to |-> "*", from |-> "", todo |-> {}, cur |-> {},
         due |-> {}, offered |-> {}]

\* A connection goroutine unregisters victim and then goes back to where
\* UnregisterClient was called; todo is what KickByName has still to visit.
ConnLabel == {"new", "joined", "online", "ready", "reply", "kick", "unreg",
              "close", "leave", "offline", "gone"}
ConnState == [pc : ConnLabel, victim : Client, back : {"kick", "gone"},
              todo : SUBSET Client]

TaskState ==
  [pc : {"idle", "start", "range", "send"}, to : Name \cup {"*"},
   from : Name \cup {""}, todo : SUBSET Client, cur : SUBSET Client,
   due : SUBSET Client, offered : SUBSET Client]

TypeOK ==
  /\ clients \subseteq Client /\ admin \subseteq Client /\ closed \subseteq Client
  /\ online \in Int
  /\ out \in [Client -> 0..OutBuffer]
  /\ conn \in [Client -> ConnState]
  /\ task \in [Task -> TaskState]
  /\ crashed \in BOOLEAN

Init ==
  /\ clients = {} /\ online = 0 /\ admin = {} /\ closed = {}
  /\ out = [c \in Client |-> 0]
  /\ conn = [c \in Client |-> [pc |-> "new", victim |-> c, back |-> "gone",
                               todo |-> {}]]
  /\ task = [t \in Task |-> Idle]
  /\ crashed = FALSE

\* The clients called n, or all of them.
Called(n) == {k \in Client : n \in {"*", NameOf[k]}}

At(c, l) == ~crashed /\ conn[c].pc = l
Goto(c, l) == conn' = [conn EXCEPT ![c].pc = l]

---------------------------------------------------------------------------
(* Client and Emit.                                                        *)

\* Faulty variant of Push: the sender waits.
PushWaits(c) == out[c] < OutBuffer /\ out' = [out EXCEPT ![c] = @ + 1]

\* Client.Send never waits: a full buffer drops the message.  (On a closed
\* buffer it panics; the callers say what becomes of the panic.)
Push(c) == out' = [out EXCEPT ![c] = IF @ < OutBuffer THEN @ + 1 ELSE @]

\* Hub.Emit starts the event's handler and returns.
Emit(to, from) ==
  \E t \in Task :
    /\ task[t].pc = "idle"
    /\ task' = [task EXCEPT ![t] = [Idle EXCEPT !.pc = "start", !.to = to,
                                                !.from = from]]

\* The transport takes a message from Client.Outgoing().
Drain(c) ==
  /\ ~crashed /\ out[c] > 0
  /\ out' = [out EXCEPT ![c] = @ - 1]
  /\ UNCHANGED <<clients, online, admin, closed, conn, task, crashed>>

---------------------------------------------------------------------------
(* Hub.RegisterClient.                                                     *)

RegisterClient(c) ==
  /\ At(c, "new")
  /\ clients' = clients \cup {c}
  /\ Goto(c, "joined")
  /\ UNCHANGED <<online, admin, closed, out, task, crashed>>

EmitJoined(c) ==
  /\ At(c, "joined")
  /\ Emit("*", "")
  /\ Goto(c, "online")
  /\ UNCHANGED <<clients, online, admin, closed, out, crashed>>

CountJoined(c) ==
  /\ At(c, "online")
  /\ online' = online + 1
  /\ Goto(c, "ready")
  /\ UNCHANGED <<clients, admin, closed, out, task, crashed>>

---------------------------------------------------------------------------
(* Commands, run by Registry.Execute in the client's goroutine.            *)

\* A command's answer, ctx.Client.Send: nothing recovers its panic.
SendSelf(c) ==
  IF c \in closed THEN crashed' = TRUE /\ UNCHANGED out
                  ELSE Push(c) /\ UNCHANGED crashed

\* /help, /who and /ban only answer, and so do the commands that got there.
Reply(c) ==
  /\ At(c, "ready") \/ At(c, "reply")
  /\ SendSelf(c)
  /\ Goto(c, "ready")
  /\ UNCHANGED <<clients, online, admin, closed, task>>

\* /auth <0|1>
Auth(c) ==
  /\ At(c, "ready")
  /\ admin' = admin \cup {c} \/ admin' = admin \ {c}
  /\ Goto(c, "reply")
  /\ UNCHANGED <<clients, online, closed, out, task, crashed>>

\* /notice, and BroadcastLocal: an event for everybody, and no answer.
Announce(c) ==
  /\ At(c, "ready")
  /\ Emit("*", "")
  /\ UNCHANGED <<clients, online, admin, closed, out, conn, crashed>>

\* /msg <to> <text>
Msg(c, to) ==
  /\ At(c, "ready")
  /\ Emit(to, NameOf[c])
  /\ UNCHANGED <<clients, online, admin, closed, out, conn, crashed>>

\* /sendfile tells everybody and then answers; /ping answers after an event
\* whose only handler counts it, which is Reply.
SendFile(c) ==
  /\ At(c, "ready")
  /\ Emit("*", "")
  /\ Goto(c, "reply")
  /\ UNCHANGED <<clients, online, admin, closed, out, crashed>>

\* /kick <name>, for admins: KickByName ranges over the clients and looks at
\* those called n (a name never changes).
Kick(c, n) ==
  /\ At(c, "ready") /\ c \in admin
  /\ conn' = [conn EXCEPT ![c] = [@ EXCEPT !.pc = "kick", !.todo = Called(n)]]
  /\ UNCHANGED <<clients, online, admin, closed, out, task, crashed>>

\* sync.Map's Range skips an entry that is not there when it gets to it, and
\* may or may not see one that is stored meanwhile.
KickVisit(c, k) ==
  /\ At(c, "kick") /\ k \in conn[c].todo
  /\ conn' = [conn EXCEPT ![c] =
       IF k \in clients
       THEN [pc |-> "unreg", victim |-> k, back |-> "kick",
             todo |-> conn[c].todo \ {k}]
       ELSE [@ EXCEPT !.todo = conn[c].todo \ {k}]]
  /\ UNCHANGED <<clients, online, admin, closed, out, task, crashed>>

KickEnd(c) ==
  /\ At(c, "kick") /\ conn[c].todo = {}
  /\ conn' = [conn EXCEPT ![c] = [pc |-> "reply", victim |-> c, back |-> "gone",
                                  todo |-> {}]]
  /\ UNCHANGED <<clients, online, admin, closed, out, task, crashed>>

\* /quit says goodbye and unregisters; a lost connection only unregisters.
Leave(c) ==
  /\ At(c, "ready")
  /\ SendSelf(c) \/ UNCHANGED <<out, crashed>>
  /\ Goto(c, "unreg")
  /\ UNCHANGED <<clients, online, admin, closed, task>>

---------------------------------------------------------------------------
(* Hub.UnregisterClient, of conn[c].victim.                                *)

\* Faulty variants of UnregisterClient: Delete does not say whether it did;
\* the entry is looked up and not deleted; an unknown client is left open.
UnregisterAlways(c) ==
  /\ At(c, "unreg")
  /\ clients' = clients \ {conn[c].victim} /\ Goto(c, "close")
  /\ UNCHANGED <<online, admin, closed, out, task, crashed>>

UnregisterLoads(c) ==
  /\ At(c, "unreg")
  /\ closed' = closed \cup {conn[c].victim}
  /\ Goto(c, IF conn[c].victim \in clients THEN "leave" ELSE conn[c].back)
  /\ UNCHANGED <<clients, online, admin, out, task, crashed>>

UnregisterKnown(c) ==
  /\ At(c, "unreg")
  /\ clients' = clients \ {conn[c].victim}
  /\ Goto(c, IF conn[c].victim \in clients THEN "close" ELSE conn[c].back)
  /\ UNCHANGED <<online, admin, closed, out, task, crashed>>

\* LoadAndDelete; a client somebody else has deleted is only closed.
UnregisterClient(c) ==
  /\ At(c, "unreg")
  /\ LET v == conn[c].victim IN
       IF v \in clients
       THEN clients' = clients \ {v} /\ Goto(c, "close") /\ UNCHANGED closed
       ELSE closed' = closed \cup {v} /\ Goto(c, conn[c].back) /\ UNCHANGED clients
  /\ UNCHANGED <<online, admin, out, task, crashed>>

CloseClient(c) ==
  /\ At(c, "close")
  /\ closed' = closed \cup {conn[c].victim}
  /\ Goto(c, "leave")
  /\ UNCHANGED <<clients, online, admin, out, task, crashed>>

EmitLeave(c) ==
  /\ At(c, "leave")
  /\ Emit("*", "")
  /\ Goto(c, "offline")
  /\ UNCHANGED <<clients, online, admin, closed, out, crashed>>

CountLeave(c) ==
  /\ At(c, "offline")
  /\ online' = online - 1
  /\ Goto(c, conn[c].back)
  /\ UNCHANGED <<clients, admin, closed, out, task, crashed>>

---------------------------------------------------------------------------
(* Event handlers: SendToAll and SendToUser.                               *)

TaskAt(t, l) == ~crashed /\ task[t].pc = l

\* Clients registered since Range began that have not been sent the message.
Missed(t) == (task[t].due \cap clients) \ task[t].offered

Offer(t, k) ==
  task' = [task EXCEPT ![t] = [@ EXCEPT !.pc = "range", !.cur = {},
                                        !.offered = task[t].offered \cup {k}]]

RangeStart(t) ==
  /\ TaskAt(t, "start")
  /\ task' = [task EXCEPT ![t] =
       [@ EXCEPT !.pc = "range", !.todo = Called(task[t].to),
                 !.due = Called(task[t].to) \cap clients]]
  /\ UNCHANGED <<clients, online, admin, closed, out, conn, crashed>>

\* As in KickVisit; the client may be unregistered before it is sent to.
RangeVisit(t, k) ==
  /\ TaskAt(t, "range") /\ k \in task[t].todo
  /\ task' = [task EXCEPT ![t] =
       IF k \in clients
       THEN [@ EXCEPT !.todo = task[t].todo \ {k}, !.pc = "send", !.cur = {k}]
       ELSE [@ EXCEPT !.todo = task[t].todo \ {k}]]
  /\ UNCHANGED <<clients, online, admin, closed, out, conn, crashed>>

\* Faulty variant of RangeSend: Range is told to stop.
RangeSendStops(t) ==
  /\ TaskAt(t, "send")
  /\ task' = [task EXCEPT ![t] = [@ EXCEPT !.pc = "range", !.todo = {},
                                           !.offered = @ \cup task[t].cur]]
  /\ UNCHANGED <<clients, online, admin, closed, out, conn, crashed>>

\* Faulty variant of RangeSend: nothing recovers the handler's panic.
RangeSendUnrecovered(t) ==
  /\ TaskAt(t, "send")
  /\ \E k \in task[t].cur :
       IF k \in closed
       THEN crashed' = TRUE /\ task' = [task EXCEPT ![t] = Idle] /\ UNCHANGED out
       ELSE Push(k) /\ Offer(t, k) /\ UNCHANGED crashed
  /\ UNCHANGED <<clients, online, admin, closed, conn>>

\* Client.Send on a closed client panics; Emit's recover ends the handler,
\* and the clients it was still to reach get nothing.
RangeSend(t) ==
  /\ TaskAt(t, "send")
  /\ \E k \in task[t].cur :
       IF k \in closed THEN task' = [task EXCEPT ![t] = Idle] /\ UNCHANGED out
                       ELSE Push(k) /\ Offer(t, k)
  /\ UNCHANGED <<clients, online, admin, closed, conn, crashed>>

\* A direct message that found nobody is answered to its sender's name.
RangeEnd(t) ==
  /\ TaskAt(t, "range") /\ task[t].todo = {}
  /\ task' = [task EXCEPT ![t] =
       IF task[t].from # "" /\ task[t].offered = {}
       THEN [Idle EXCEPT !.pc = "start", !.to = task[t].from]
       ELSE Idle]
  /\ UNCHANGED <<clients, online, admin, closed, out, conn, crashed>>

---------------------------------------------------------------------------
ConnStep(c) ==
  \/ RegisterClient(c) \/ EmitJoined(c) \/ CountJoined(c)
  \/ UnregisterClient(c) \/ CloseClient(c) \/ EmitLeave(c) \/ CountLeave(c)
  \/ KickEnd(c) \/ \E k \in Client : KickVisit(c, k)
  \/ conn[c].pc = "reply" /\ Reply(c)

Input(c) ==
  \/ conn[c].pc = "ready" /\ Reply(c)
  \/ Auth(c) \/ Announce(c) \/ SendFile(c) \/ Leave(c) \/ Drain(c)
  \/ \E n \in Name : Msg(c, n) \/ Kick(c, n)

TaskStep(t) ==
  \/ RangeStart(t) \/ RangeSend(t) \/ RangeEnd(t)
  \/ \E k \in Client : RangeVisit(t, k)

\* Everybody has left and every handler is through, or the process is dead.
Terminated ==
  /\ crashed \/ /\ \A c \in Client : conn[c].pc = "gone"
                /\ \A t \in Task : task[t].pc = "idle"
  /\ UNCHANGED vars

Next ==
  \/ Terminated
  \/ \E c \in Client : ConnStep(c) \/ Input(c)
  \/ \E t \in Task : TaskStep(t)

\* Goroutines that are running keep running; users need not type anything.
Fairness ==
  /\ \A c \in Client : WF_vars(ConnStep(c))
  /\ \A t \in Task : WF_vars(TaskStep(t))

SafetySpec == Init /\ [][Next]_vars
Spec == SafetySpec /\ Fairness

---------------------------------------------------------------------------
(* Safety.                                                                 *)

Joining == {c \in Client : conn[c].pc \in {"joined", "online"}}
Leaving == {c \in Client : conn[c].pc \in {"close", "leave", "offline"}}

\* The online gauge is exact: it differs from the number of registered
\* clients only by the RegisterClient and UnregisterClient calls under way,
\* however kicks, quits and lost connections of the same client race.
OnlineGauge ==
  online = Cardinality(clients) - Cardinality(Joining) + Cardinality(Leaving)

\* A client that Hub.clients holds is open: Range never finds a client that
\* was closed before Range looked it up.
RegisteredIsOpen == clients \cap closed = {}

\* UnregisterClient has closed its client when it returns, even when another
\* goroutine's UnregisterClient took the entry and has not closed it yet.
GoneIsClosed == \A c \in Client : conn[c].pc = "gone" => c \in closed \ clients

\* A SendToAll or SendToUser ends when it has sent to every client that was
\* registered for the whole of it, or else because a client it had looked up
\* was unregistered and closed before it was sent to.
BroadcastComplete ==
  [][\A t \in Task :
       task[t].pc \in {"range", "send"} /\ task'[t].pc \in {"idle", "start"} =>
         Missed(t) = {} \/ task[t].cur \cap (closed \ clients) # {}]_vars

\* The panic of an event handler that sends to a client closed under it stays
\* in the handler, which Emit recovers.  The only step that takes the process
\* down is none of a handler's: a command answers its own client after that
\* client was unregistered and closed.
HandlerPanicContained ==
  [][~crashed /\ crashed' =>
       /\ UNCHANGED task
       /\ \E c \in closed \ clients : conn[c].pc \in {"ready", "reply"}]_vars

---------------------------------------------------------------------------
(* Liveness, under Fairness.                                               *)

\* Every event handler ends, even if no client's buffer is ever drained.
HandlersEnd ==
  \A t \in Task : task[t].pc # "idle" ~> task[t].pc = "idle" \/ crashed
============================================================================
