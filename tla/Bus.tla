-------------------------------- MODULE Bus --------------------------------
(***************************************************************************)
(* The servers of a cluster and the Redis stream between them: every       *)
(* server publishes its local events and consumes the stream as a member   *)
(* of one consumer group.  The events of a server's own hub are in Hub;    *)
(* here an event is what its bus subscriber makes of it.                   *)
(***************************************************************************)
EXTENDS Integers, Sequences, FiniteSets, Functions

CONSTANTS
  Node,        \* the servers
  Batch,       \* Count of XReadGroup: most entries one read returns
  Fault,       \* what may go wrong: some of the faults below
  MaxEntries,  \* bound: entries ever added to the stream
  MaxTasks,    \* bound: publishing goroutines of a server with the same content
  MaxFaults    \* bound: how many faults happen, each kind once

ASSUME BusAssumption ==
  /\ Batch \in Nat \ {0}
  /\ Fault \subseteq {"ensure", "publish", "read", "ack", "crash"}
  /\ {MaxEntries, MaxTasks, MaxFaults} \subseteq Nat

None == -1

\* What a subscriber publishes; local is history: whether a local event, and
\* not an entry of the stream, was the cause.
Task == [kind : {"message", "direct"}, local : BOOLEAN]

\* An entry of the stream; a foreign writer's is no Message at all.
Foreign == [kind |-> "bad", local |-> TRUE, from |-> "foreign"]
Entry == [kind : {"message", "direct"}, local : BOOLEAN, from : Node] \cup {Foreign}

Id == 1..MaxEntries

VARIABLES
  stream,      \* Redis: the entries, numbered from 1
  group,       \* Redis: the last entry the group delivered, None without a group
  pending,     \* Redis: entries delivered and not acknowledged
  start,       \* history: where the group began
  pc,          \* where each server's bus goroutine is
  batch,       \* the result of its XReadGroup that it has still to go through
  publishing,  \* how many goroutines are about to publish what
  log,         \* history: the entries whose handler ran on each server
  wrong        \* what has gone wrong

redis == <<stream, group, pending, start>>
vars == <<redis, pc, batch, publishing, log, wrong>>

Label == {"down", "ensure", "subMessage", "subDirect", "consume", "ack"}

TypeOK ==
  /\ stream \in Seq(Entry) /\ Len(stream) <= MaxEntries
  /\ group \in {None} \cup 0..Len(stream)
  /\ pending \subseteq 1..Len(stream)
  /\ start \in {None} \cup 0..Len(stream)
  /\ pc \in [Node -> Label]
  /\ batch \in [Node -> Seq(1..Len(stream))]
  /\ publishing \in [Node -> [Task -> 0..MaxTasks]]
  /\ log \in [Node -> Seq(1..Len(stream))]
  /\ wrong \subseteq Fault

Nothing == [t \in Task |-> 0]

Init ==
  /\ stream = <<>> /\ group = None /\ pending = {} /\ start = None
  /\ pc = [n \in Node |-> "down"]
  /\ batch = [n \in Node |-> <<>>]
  /\ publishing = [n \in Node |-> Nothing]
  /\ log = [n \in Node |-> <<>>]
  /\ wrong = {}

Goto(n, a, b) == pc[n] = a /\ pc' = [pc EXCEPT ![n] = b]

GoesWrong(f) ==
  /\ f \in Fault \ wrong /\ Cardinality(wrong) < MaxFaults
  /\ wrong' = wrong \cup {f}

---------------------------------------------------------------------------
(* A server starts its bus.                                                *)

Start(n) ==
  /\ Goto(n, "down", "ensure")
  /\ UNCHANGED <<redis, batch, publishing, log, wrong>>

\* Faulty variant of EnsureGroup: a group that exists begins anew at "$".
EnsureGroupAnew(n) ==
  /\ Goto(n, "ensure", "subMessage")
  /\ group' = Len(stream) /\ start' = Len(stream)
  /\ UNCHANGED <<stream, pending, batch, publishing, log, wrong>>

\* The group begins at "$", the end of the stream; one that exists stays as it is.
EnsureGroup(n) ==
  /\ Goto(n, "ensure", "subMessage")
  /\ IF group = None
     THEN group' = Len(stream) /\ start' = Len(stream)
     ELSE UNCHANGED <<group, start>>
  /\ UNCHANGED <<stream, pending, batch, publishing, log, wrong>>

\* Its error is discarded, and the server goes on without a group.
EnsureFails(n) ==
  /\ GoesWrong("ensure")
  /\ Goto(n, "ensure", "subMessage")
  /\ UNCHANGED <<redis, batch, publishing, log>>

SubscribeMessage(n) ==
  /\ Goto(n, "subMessage", "subDirect")
  /\ UNCHANGED <<redis, batch, publishing, log, wrong>>

SubscribeDirect(n) ==
  /\ Goto(n, "subDirect", "consume")
  /\ UNCHANGED <<redis, batch, publishing, log, wrong>>

---------------------------------------------------------------------------
(* Publishing: every event for a subscriber is a goroutine of its own.     *)

Subscribed(n, kind) ==
  pc[n] \in {"consume", "ack"} \cup (IF kind = "message" THEN {"subDirect"} ELSE {})

\* BroadcastLocal, or /msg: the hub emits an event that is published.
LocalEvent(n, kind) ==
  LET t == [kind |-> kind, local |-> TRUE] IN
  /\ Subscribed(n, kind)
  /\ publishing[n][t] < MaxTasks
  /\ publishing' = [publishing EXCEPT ![n][t] = @ + 1]
  /\ UNCHANGED <<redis, pc, batch, log, wrong>>

Publish(n, t) ==
  /\ publishing[n][t] > 0
  /\ Len(stream) < MaxEntries
  /\ publishing' = [publishing EXCEPT ![n][t] = @ - 1]
  /\ stream' = Append(stream, [kind |-> t.kind, local |-> t.local, from |-> n])
  /\ UNCHANGED <<group, pending, start, pc, batch, log, wrong>>

\* The error of XADD is discarded, and with it the message.
PublishFails(n, t) ==
  /\ GoesWrong("publish")
  /\ publishing[n][t] > 0
  /\ publishing' = [publishing EXCEPT ![n][t] = @ - 1]
  /\ UNCHANGED <<redis, pc, batch, log>>

\* Somebody else adds data that is not a Message.
ForeignAdd ==
  /\ Len(stream) < MaxEntries
  /\ stream' = Append(stream, Foreign)
  /\ UNCHANGED <<group, pending, start, pc, batch, publishing, log, wrong>>

---------------------------------------------------------------------------
(* Consume.                                                                *)

\* The entries XREADGROUP ">" returns, and the last of them.
LastRead == IF Len(stream) - group < Batch THEN Len(stream) ELSE group + Batch

Fresh == [i \in 1..(LastRead - group) |-> group + i]

Readable(n) ==
  /\ pc[n] = "consume" /\ batch[n] = <<>>
  /\ group # None /\ group < Len(stream)

\* Faulty variants of Read: entries need no acknowledgement; every server
\* reads for itself.
ReadNoAck(n) ==
  /\ Readable(n)
  /\ batch' = [batch EXCEPT ![n] = Fresh]
  /\ group' = LastRead
  /\ UNCHANGED <<stream, pending, start, pc, publishing, log, wrong>>
ReadAlone(n) ==
  /\ Readable(n)
  /\ batch' = [batch EXCEPT ![n] = Fresh]
  /\ pending' = pending \cup Range(Fresh)
  /\ UNCHANGED <<stream, group, start, pc, publishing, log, wrong>>

Read(n) ==
  /\ Readable(n)
  /\ batch' = [batch EXCEPT ![n] = Fresh]
  /\ pending' = pending \cup Range(Fresh)
  /\ group' = LastRead
  /\ UNCHANGED <<stream, start, pc, publishing, log, wrong>>

\* The reply is lost: the entries count as delivered, Consume tries again.
ReadFails(n) ==
  /\ GoesWrong("read")
  /\ Readable(n)
  /\ pending' = pending \cup Range(Fresh)
  /\ group' = LastRead
  /\ UNCHANGED <<stream, start, pc, batch, publishing, log>>

\* What the handler does: a message becomes a Remote event, which is only
\* counted; a direct message is emitted as if it were local, and so published
\* (goroutines beyond the bound are left out).
Handler(n, e) ==
  LET t == [kind |-> "direct", local |-> FALSE] IN
  IF e.kind = "direct" /\ publishing[n][t] < MaxTasks
  THEN publishing' = [publishing EXCEPT ![n][t] = @ + 1]
  ELSE UNCHANGED publishing

\* Faulty variant of Handle: an entry that cannot be decoded is an error.
HandleStrict(n) ==
  /\ batch[n] # <<>>
  /\ stream[Head(batch[n])].kind # "bad"
  /\ Goto(n, "consume", "ack")
  /\ Handler(n, stream[Head(batch[n])])
  /\ log' = [log EXCEPT ![n] = Append(@, Head(batch[n]))]
  /\ UNCHANGED <<redis, batch, wrong>>

\* The next entry of the batch; one that cannot be decoded has no handler.
Handle(n) ==
  /\ batch[n] # <<>>
  /\ Goto(n, "consume", "ack")
  /\ IF stream[Head(batch[n])].kind = "bad"
     THEN UNCHANGED <<publishing, log>>
     ELSE /\ Handler(n, stream[Head(batch[n])])
          /\ log' = [log EXCEPT ![n] = Append(@, Head(batch[n]))]
  /\ UNCHANGED <<redis, batch, wrong>>

Ack(n) ==
  /\ Goto(n, "ack", "consume")
  /\ pending' = pending \ {Head(batch[n])}
  /\ batch' = [batch EXCEPT ![n] = Tail(@)]
  /\ UNCHANGED <<stream, group, start, publishing, log, wrong>>

AckFails(n) ==
  /\ GoesWrong("ack")
  /\ Goto(n, "ack", "consume")
  /\ batch' = [batch EXCEPT ![n] = Tail(@)]
  /\ UNCHANGED <<redis, publishing, log>>

\* The server dies with what it had read and was about to publish.
Crash(n) ==
  /\ GoesWrong("crash")
  /\ pc[n] # "down"
  /\ pc' = [pc EXCEPT ![n] = "down"]
  /\ batch' = [batch EXCEPT ![n] = <<>>]
  /\ publishing' = [publishing EXCEPT ![n] = Nothing]
  /\ UNCHANGED <<redis, log>>

---------------------------------------------------------------------------
Serve(n) ==
  \/ EnsureGroup(n) \/ SubscribeMessage(n) \/ SubscribeDirect(n)
  \/ Read(n) \/ Handle(n) \/ Ack(n)

Fail(n) ==
  \/ EnsureFails(n) \/ ReadFails(n) \/ AckFails(n) \/ Crash(n)
  \/ \E t \in Task : PublishFails(n, t)

Next ==
  \/ \E n \in Node : Serve(n) \/ Fail(n) \/ Start(n)
  \/ \E n \in Node, kind \in {"message", "direct"} : LocalEvent(n, kind)
  \/ \E n \in Node, t \in Task : Publish(n, t)
  \/ ForeignAdd

\* A server that is up goes through its loop, and its goroutines run.
Fairness ==
  /\ \A n \in Node : WF_vars(Serve(n))
  /\ \A n \in Node, t \in Task : WF_vars(Publish(n, t))

SafetySpec == Init /\ [][Next]_vars
Spec == SafetySpec /\ Fairness

---------------------------------------------------------------------------
\* When the handler ran for an entry, on any server.
Runs(i) == UNION {{n} \X {k \in DOMAIN log[n] : log[n][k] = i} : n \in Node}

Handled(i) == Runs(i) # {}

\* An entry is handled by one server and once, whatever crashes, restarts or
\* is lost: Consume only asks for entries that nobody has been given.
HandledOnce == \A i \in 1..Len(stream) : \A r, s \in Runs(i) : r = s

\* No entry disappears: one that was delivered has been handled, cannot be
\* decoded, or is still pending in Redis, where it can be found after a crash.
\* Consume acknowledges only after the handler.
Accounted ==
  group # None => \A i \in (start + 1)..group :
    Handled(i) \/ stream[i].kind = "bad" \/ i \in pending

\* Unless EnsureGroup failed, the group sees everything the servers publish:
\* each subscribes only after it has made sure of the group, and no restart
\* moves it.
NothingSkipped ==
  "ensure" \notin wrong =>
    \A i \in 1..Len(stream) : stream[i].kind # "bad" => start # None /\ i > start

\* Whatever a server publishes is eventually handled, whatever else is in the
\* stream, unless a group was not created, a reply was lost or a server died.
EventuallyHandled ==
  \A i \in Id : i <= Len(stream) /\ stream[i].kind # "bad" ~>
    Handled(i) \/ wrong \cap {"ensure", "read", "crash"} # {}

\* "发布本地事件": what a server publishes comes from a local event, and not
\* from an entry it has just consumed.
NoEcho == \A i \in 1..Len(stream) : stream[i].local
============================================================================
