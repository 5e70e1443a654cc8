----------------------------- MODULE BusProofs -----------------------------
(***************************************************************************)
(* What the consumer group gives its servers, for any number of servers    *)
(* and entries, any size of a read, and however many of the faults happen, *)
(* in any order.                                                           *)
(***************************************************************************)
EXTENDS Bus, SequenceTheorems, TLAPS

\* A leaf that names no backend is tried with the SMT solver, then with Zenon,
\* each given more time than it takes on an idle machine.
USE SMTT(30), ZenonT(20)

\* The group begins once, and only entries it has delivered are on a server.
GroupOK ==
  /\ group = None <=> start = None
  /\ start <= group
  /\ \A n \in Node : \A k \in DOMAIN batch[n] : batch[n][k] <= group
  /\ \A n \in Node : \A k \in DOMAIN log[n] : log[n][k] <= group

\* An entry is in one batch only, at one place of it.
GivenOnce ==
  \A m, n \in Node : \A j \in DOMAIN batch[m], k \in DOMAIN batch[n] :
    batch[m][j] = batch[n][k] => m = n /\ j = k

\* An entry has been handled at one place of one server's history only.
LoggedOnce ==
  \A m, n \in Node : \A j \in DOMAIN log[m], k \in DOMAIN log[n] :
    log[m][j] = log[n][k] => m = n /\ j = k

\* An entry that waits in a batch has not been handled yet, save the one
\* whose handler has run and whose acknowledgement is to follow.
NotYet ==
  \A m, n \in Node : \A j \in DOMAIN log[m], k \in DOMAIN batch[n] :
    log[m][j] = batch[n][k] => k = 1 /\ pc[n] = "ack"

\* A server acknowledges what it has handled, or what has no handler.
AckOK ==
  \A n \in Node : pc[n] = "ack" =>
    /\ batch[n] # <<>>
    /\ \A i \in 1..Len(stream) :
         i = Head(batch[n]) => stream[i].kind = "bad" \/ Handled(i)

\* Who has passed EnsureGroup without its failing has a group, and so has
\* everything that was published since.
GroupThere ==
  "ensure" \notin wrong => \A n \in Node :
    /\ pc[n] \notin {"down", "ensure"} => group # None
    /\ \A t \in Task : publishing[n][t] > 0 => group # None

\* Every delivered entry is in one place.
PlacesOK == GroupOK /\ GivenOnce /\ LoggedOnce /\ NotYet

\* The inductive invariant.
Inv ==
  /\ TypeOK /\ PlacesOK
  /\ AckOK /\ Accounted
  /\ GroupThere /\ NothingSkipped

\* What a read takes: the entries after the last one the group delivered, at
\* least one of them and none twice.
LEMMA FreshEntries ==
  ASSUME TypeOK, NEW n \in Node, Readable(n)
  PROVE  /\ LastRead \in group + 1 .. Len(stream)
         /\ Fresh \in Seq(1..Len(stream))
         /\ DOMAIN Fresh = 1..(LastRead - group)
         /\ \A k \in DOMAIN Fresh : Fresh[k] = group + k
         /\ Range(Fresh) = group + 1 .. LastRead
<1>1. group \in 0..Len(stream) /\ Len(stream) \in Nat /\ group < Len(stream)
  BY DEF TypeOK, Readable, None
<1>2. LastRead \in group + 1 .. Len(stream)
  BY <1>1, BusAssumption DEF LastRead
<1>3. LastRead - group \in Nat
  BY <1>1, <1>2
<1>4. Fresh \in [1..(LastRead - group) -> 1..Len(stream)]
  BY <1>1, <1>2, <1>3 DEF Fresh
<1>5. Fresh \in Seq(1..Len(stream))
  BY <1>3, <1>4, SeqDef
<1>6. \A k \in DOMAIN Fresh : Fresh[k] = group + k
  BY DEF Fresh
<1>7. DOMAIN Fresh = 1..(LastRead - group)
  BY DEF Fresh
<1>8. ASSUME NEW i \in group + 1 .. LastRead PROVE i \in Range(Fresh)
  <2>1. i - group \in DOMAIN Fresh /\ Fresh[i - group] = i
    BY <1>1, <1>2, <1>6, <1>7
  <2> QED
    BY <2>1 DEF Range
<1>9. ASSUME NEW i \in Range(Fresh) PROVE i \in group + 1 .. LastRead
  BY <1>1, <1>2, <1>6, <1>7, <1>9 DEF Range
<1> QED
  BY <1>2, <1>5, <1>6, <1>7, <1>8, <1>9, Zenon

\* What was a sequence of entries still is one when the stream has grown.
LEMMA StillEntries ==
  ASSUME NEW k \in Nat, NEW f \in [Node -> Seq(1..k)]
  PROVE  f \in [Node -> Seq(1..(k + 1))]
<1>1. 1..k \subseteq 1..(k + 1)
  OBVIOUS
<1>2. Seq(1..k) \subseteq Seq(1..(k + 1))
  BY <1>1, SeqMonotonic
<1> QED
  BY <1>2

\* An entry at the end of the stream leaves the state well typed.
LEMMA TypeAdd ==
  ASSUME TypeOK, NEW e \in Entry, Len(stream) < MaxEntries,
         stream' = Append(stream, e), publishing' \in [Node -> [Task -> 0..MaxTasks]],
         UNCHANGED <<group, pending, start, pc, batch, log, wrong>>
  PROVE  TypeOK'
<1> DEFINE k == Len(stream)
<1>1. k \in Nat /\ stream' \in Seq(Entry) /\ Len(stream') = k + 1
  BY DEF TypeOK
<1>2. batch \in [Node -> Seq(1..k)] /\ log \in [Node -> Seq(1..k)]
  BY DEF TypeOK
<1> HIDE DEF k
<1>3. batch \in [Node -> Seq(1..(k + 1))] /\ log \in [Node -> Seq(1..(k + 1))]
  BY <1>1, <1>2, StillEntries
<1>4. /\ group \in {None} \cup 0..(k + 1) /\ start \in {None} \cup 0..(k + 1)
      /\ pending \subseteq 1..(k + 1) /\ k + 1 <= MaxEntries
  BY <1>1, BusAssumption DEF TypeOK, None, k
<1> QED
  BY <1>1, <1>3, <1>4 DEF TypeOK

\* Every step keeps the state well typed.
LEMMA TypeStep == ASSUME TypeOK, AckOK, [Next]_vars PROVE TypeOK'
<1> USE BusAssumption DEF Goto, GoesWrong, Label, redis
<1>1. ASSUME NEW n \in Node, Start(n) \/ SubscribeMessage(n) \/ SubscribeDirect(n)
      PROVE  TypeOK'
  BY <1>1, Zenon DEF Start, SubscribeMessage, SubscribeDirect, TypeOK
<1>2. ASSUME NEW n \in Node, EnsureGroup(n) PROVE TypeOK'
  BY <1>2 DEF EnsureGroup, TypeOK
<1>3. ASSUME NEW n \in Node, EnsureFails(n) PROVE TypeOK'
  BY <1>3 DEF EnsureFails, TypeOK
<1>4. ASSUME NEW n \in Node, Read(n) \/ ReadFails(n) PROVE TypeOK'
  <2>1. Readable(n)
    BY <1>4 DEF Read, ReadFails
  <2>2. /\ LastRead \in group + 1 .. Len(stream) /\ Fresh \in Seq(1..Len(stream))
        /\ Range(Fresh) = group + 1 .. LastRead
    BY <2>1, FreshEntries
  <2>3. group \in 0..Len(stream) /\ Len(stream) \in Nat
    BY <2>1 DEF Readable, TypeOK, None
  <2>4. LastRead \in 0..Len(stream) /\ Range(Fresh) \subseteq 1..Len(stream)
    BY <2>2, <2>3
  <2>5. pending' \subseteq 1..Len(stream) /\ group' \in {None} \cup 0..Len(stream)
    BY <1>4, <2>4, Zenon DEF Read, ReadFails, TypeOK
  <2>6. batch' \in [Node -> Seq(1..Len(stream))]
    BY <1>4, <2>2, Zenon DEF Read, ReadFails, TypeOK
  <2>7. wrong' \subseteq Fault
    BY <1>4, Zenon DEF Read, ReadFails, TypeOK
  <2> QED
    BY <1>4, <2>5, <2>6, <2>7 DEF Read, ReadFails, TypeOK
<1>5. ASSUME NEW n \in Node, Handle(n) PROVE TypeOK'
  <2> DEFINE t == [kind |-> "direct", local |-> FALSE]
  <2>0. t \in Task
    BY DEF Task
  <2>1. publishing' \in [Node -> [Task -> 0..MaxTasks]]
    <3>1. \/ UNCHANGED publishing
          \/ /\ publishing[n][t] < MaxTasks
             /\ publishing' = [publishing EXCEPT ![n][t] = @ + 1]
      BY <1>5 DEF Handle, Handler
    <3>2. publishing \in [Node -> [Task -> 0..MaxTasks]] /\ MaxTasks \in Nat
      BY DEF TypeOK
    <3> HIDE DEF t
    <3>3. CASE publishing[n][t] < MaxTasks /\ publishing' = [publishing EXCEPT ![n][t] = @ + 1]
      <4>1. publishing[n][t] + 1 \in 0..MaxTasks
        BY <2>0, <3>2, <3>3
      <4> QED
        BY <2>0, <3>2, <3>3, <4>1
    <3> QED
      BY <3>1, <3>2, <3>3
  <2>2. batch[n] \in Seq(1..Len(stream)) /\ batch[n] # <<>>
    BY <1>5 DEF Handle, TypeOK
  <2>3. Head(batch[n]) \in 1..Len(stream)
    BY <2>2
  <2>4. log' \in [Node -> Seq(1..Len(stream))]
    <3>1. Append(log[n], Head(batch[n])) \in Seq(1..Len(stream))
      BY <2>3 DEF TypeOK
    <3>2. log' = log \/ log' = [log EXCEPT ![n] = Append(log[n], Head(batch[n]))]
      BY <1>5 DEF Handle
    <3> QED
      BY <3>1, <3>2, Zenon DEF TypeOK
  <2> QED
    BY <1>5, <2>1, <2>4, Zenon DEF Handle, TypeOK
<1>6. ASSUME NEW n \in Node, Ack(n) \/ AckFails(n) PROVE TypeOK'
  <2>1. Tail(batch[n]) \in Seq(1..Len(stream))
    BY <1>6 DEF Ack, AckFails, AckOK, TypeOK
  <2>2. batch' \in [Node -> Seq(1..Len(stream))]
    BY <1>6, <2>1, ZenonT(30) DEF Ack, AckFails, TypeOK
  <2>3. wrong' \subseteq Fault /\ pending' \subseteq 1..Len(stream)
    BY <1>6, Zenon DEF Ack, AckFails, TypeOK
  <2>4. pc' \in [Node -> Label]
    BY <1>6, Zenon DEF Ack, AckFails, TypeOK
  <2> QED
    BY <1>6, <2>2, <2>3, <2>4 DEF Ack, AckFails, TypeOK
<1>7. ASSUME NEW n \in Node, Crash(n) PROVE TypeOK'
  BY <1>7 DEF Crash, Nothing, TypeOK
<1>8. ASSUME NEW n \in Node, NEW kind \in {"message", "direct"}, LocalEvent(n, kind)
      PROVE  TypeOK'
  <2>1. [kind |-> kind, local |-> TRUE] \in Task
    BY DEF Task
  <2> DEFINE t == [kind |-> kind, local |-> TRUE]
  <2>2. /\ publishing[n][t] < MaxTasks
        /\ publishing' = [publishing EXCEPT ![n][t] = @ + 1]
        /\ UNCHANGED <<redis, pc, batch, log, wrong>>
    BY <1>8 DEF LocalEvent
  <2>3. t \in Task /\ publishing \in [Node -> [Task -> 0..MaxTasks]] /\ MaxTasks \in Nat
    BY <2>1, BusAssumption DEF TypeOK
  <2> HIDE DEF t
  <2>4. publishing' \in [Node -> [Task -> 0..MaxTasks]]
    BY <2>2, <2>3
  <2> QED
    BY <2>2, <2>4 DEF TypeOK
<1>9. ASSUME NEW n \in Node, NEW t \in Task, PublishFails(n, t) PROVE TypeOK'
  BY <1>9 DEF PublishFails, TypeOK
<1>10. ASSUME NEW n \in Node, NEW t \in Task, Publish(n, t) PROVE TypeOK'
  <2>1. [kind |-> t.kind, local |-> t.local, from |-> n] \in Entry
    BY DEF Entry, Task
  <2>2. publishing' \in [Node -> [Task -> 0..MaxTasks]]
    BY <1>10 DEF Publish, TypeOK
  <2> QED
    BY <1>10, <2>1, <2>2, TypeAdd DEF Publish
<1>11. CASE ForeignAdd
  <2>1. Foreign \in Entry
    BY DEF Entry
  <2> QED
    BY <1>11, <2>1, TypeAdd DEF ForeignAdd, TypeOK
<1>12. CASE UNCHANGED vars
  BY <1>12 DEF vars, TypeOK
<1> QED
  BY <1>1, <1>2, <1>3, <1>4, <1>5, <1>6, <1>7, <1>8, <1>9, <1>10, <1>11, <1>12
  DEF Next, Serve, Fail

\* A step that hands out nothing and handles nothing moves no entry.
LEMMA PlacesKept ==
  ASSUME TypeOK, PlacesOK, UNCHANGED <<group, start, batch, log>>,
         \A n \in Node : pc[n] = "ack" => pc'[n] = "ack"
  PROVE  PlacesOK'
  BY DEF PlacesOK, GroupOK, GivenOnce, LoggedOnce, NotYet

\* Every step keeps every delivered entry in one place.
LEMMA PlacesStep == ASSUME Inv, TypeOK', [Next]_vars PROVE PlacesOK'
<1> USE DEF Goto
<1>1. TypeOK /\ PlacesOK /\ AckOK
  BY DEF Inv
<1>2. /\ \A n \in Node : \A k \in DOMAIN batch[n] : batch[n][k] \in Nat \ {0}
      /\ \A n \in Node : \A k \in DOMAIN log[n] : log[n][k] \in Nat \ {0}
      /\ group \in Int /\ start \in Int /\ Len(stream) \in Nat
      /\ pc \in [Node -> Label]
      /\ \A n \in Node : Len(batch[n]) \in Nat /\ DOMAIN batch[n] = 1..Len(batch[n])
      /\ \A n \in Node : Len(log[n]) \in Nat /\ DOMAIN log[n] = 1..Len(log[n])
  <2>1. batch \in [Node -> Seq(1..Len(stream))] /\ log \in [Node -> Seq(1..Len(stream))]
    BY <1>1 DEF TypeOK
  <2>2. Len(stream) \in Nat /\ group \in Int /\ start \in Int
    BY <1>1 DEF TypeOK, None
  <2>3. ASSUME NEW n \in Node
        PROVE  /\ Len(batch[n]) \in Nat /\ DOMAIN batch[n] = 1..Len(batch[n])
               /\ Len(log[n]) \in Nat /\ DOMAIN log[n] = 1..Len(log[n])
               /\ \A k \in DOMAIN batch[n] : batch[n][k] \in 1..Len(stream)
               /\ \A k \in DOMAIN log[n] : log[n][k] \in 1..Len(stream)
    <3>1. batch[n] \in Seq(1..Len(stream)) /\ log[n] \in Seq(1..Len(stream))
      BY <2>1
    <3> QED
      BY <3>1, LenProperties
  <2>4. \A i \in 1..Len(stream) : i \in Nat \ {0}
    BY <2>2
  <2>5. pc \in [Node -> Label]
    BY <1>1 DEF TypeOK
  <2> QED
    BY <2>2, <2>3, <2>4, <2>5
<1>3. ASSUME NEW n \in Node, \/ Start(n) \/ SubscribeMessage(n) \/ SubscribeDirect(n)
                             \/ EnsureFails(n)
      PROVE  PlacesOK'
  BY <1>1, <1>2, <1>3, PlacesKept
  DEF Start, SubscribeMessage, SubscribeDirect, EnsureFails, redis
<1>4. ASSUME NEW n \in Node, EnsureGroup(n) PROVE PlacesOK'
  <2>1. CASE group = None
    <3>1. start = None
      BY <1>1, <2>1 DEF PlacesOK, GroupOK
    <3>2. \A m \in Node : DOMAIN batch[m] = {} /\ DOMAIN log[m] = {}
      BY <1>1, <1>2, <2>1 DEF PlacesOK, GroupOK, None
    <3>3. group' = Len(stream) /\ start' = Len(stream) /\ UNCHANGED <<batch, log>>
      BY <1>4, <2>1 DEF EnsureGroup
    <3> QED
      BY <1>2, <3>2, <3>3
      DEF PlacesOK, GroupOK, GivenOnce, LoggedOnce, NotYet, None
  <2>2. CASE group # None
    BY <1>1, <1>2, <1>4, <2>2, PlacesKept DEF EnsureGroup
  <2> QED
    BY <2>1, <2>2
<1>5. ASSUME NEW n \in Node, Read(n) PROVE PlacesOK'
  <2>1. /\ LastRead \in group + 1 .. Len(stream)
        /\ DOMAIN Fresh = 1..(LastRead - group)
        /\ \A k \in DOMAIN Fresh : Fresh[k] = group + k
    BY <1>1, <1>5, FreshEntries DEF Read
  <2>2. /\ group' = LastRead /\ UNCHANGED <<start, log, pc>>
        /\ batch'[n] = Fresh
        /\ \A m \in Node \ {n} : batch'[m] = batch[m]
    BY <1>1, <1>5 DEF Read, TypeOK
  <2>3. \A k \in DOMAIN Fresh : Fresh[k] > group /\ Fresh[k] <= LastRead
    BY <1>2, <2>1
  <2>4. \A j, k \in DOMAIN Fresh : Fresh[j] = Fresh[k] => j = k
    BY <1>2, <2>1
  <2>5. LastRead > group /\ group # None /\ LastRead \in Nat
    BY <1>1, <1>2, <1>5, <2>1 DEF Read, Readable, TypeOK, None
  <2> HIDE DEF Fresh, LastRead
  <2>6. GroupOK'
    BY <1>1, <1>2, <2>2, <2>3, <2>5 DEF PlacesOK, GroupOK, None
  <2>7. GivenOnce'
    <3>1. ASSUME NEW k \in DOMAIN Fresh, NEW m \in Node \ {n}, NEW j \in DOMAIN batch[m]
          PROVE  Fresh[k] # batch[m][j]
      <4>1. batch[m][j] <= group /\ batch[m][j] \in Nat
        BY <1>1, <1>2 DEF PlacesOK, GroupOK
      <4>2. Fresh[k] > group /\ Fresh[k] \in Int
        BY <1>2, <2>1, <2>3
      <4> QED
        BY <1>2, <4>1, <4>2
    <3>2. \A l, m \in Node \ {n} : \A j \in DOMAIN batch[l], k \in DOMAIN batch[m] :
            batch[l][j] = batch[m][k] => l = m /\ j = k
      BY <1>1 DEF PlacesOK, GivenOnce
    <3> QED
      BY <2>2, <2>4, <3>1, <3>2 DEF GivenOnce
  <2>8. LoggedOnce'
    BY <1>1, <2>2 DEF PlacesOK, LoggedOnce
  <2>9. NotYet'
    BY <1>1, <1>2, <2>2, <2>3 DEF PlacesOK, GroupOK, NotYet
  <2> QED
    BY <2>6, <2>7, <2>8, <2>9 DEF PlacesOK
<1>6. ASSUME NEW n \in Node, ReadFails(n) PROVE PlacesOK'
  <2>1. LastRead > group /\ LastRead \in Nat /\ group # None
    BY <1>1, <1>2, <1>6, FreshEntries DEF ReadFails, Readable, TypeOK, None
  <2>2. group' = LastRead /\ UNCHANGED <<start, log, pc, batch>>
    BY <1>6 DEF ReadFails
  <2> HIDE DEF LastRead
  <2>3. GroupOK'
    BY <1>1, <1>2, <2>1, <2>2 DEF PlacesOK, GroupOK, None
  <2>4. GivenOnce' /\ LoggedOnce' /\ NotYet'
    BY <1>1, <2>2 DEF PlacesOK, GivenOnce, LoggedOnce, NotYet
  <2> QED
    BY <2>3, <2>4 DEF PlacesOK
<1>7. ASSUME NEW n \in Node, Handle(n) PROVE PlacesOK'
  <2>1. /\ UNCHANGED <<group, start, batch>> /\ pc[n] = "consume" /\ pc'[n] = "ack"
        /\ \A m \in Node \ {n} : pc'[m] = pc[m]
        /\ batch[n] # <<>>
    BY <1>2, <1>7 DEF Handle, redis
  <2>2. CASE log' = log
    BY <1>1, <2>1, <2>2, PlacesKept
  <2>3. CASE log' = [log EXCEPT ![n] = Append(@, Head(batch[n]))]
    <3> DEFINE h == Head(batch[n])
    <3>1. /\ Len(log'[n]) = Len(log[n]) + 1 /\ log'[n][Len(log[n]) + 1] = h
          /\ DOMAIN log'[n] = 1..(Len(log[n]) + 1)
          /\ \A k \in DOMAIN log[n] : log'[n][k] = log[n][k]
          /\ \A m \in Node \ {n} : log'[m] = log[m]
      BY <1>1, <2>3 DEF TypeOK
    <3>2. 1 \in DOMAIN batch[n] /\ h = batch[n][1]
      BY <1>1, <1>2, <2>1 DEF TypeOK
    <3>3. \A m \in Node : \A j \in DOMAIN log[m] : log[m][j] # h
      BY <1>1, <2>1, <3>2 DEF PlacesOK, NotYet
    <3> HIDE DEF h
    <3>4. \A m \in Node : \A j \in DOMAIN log'[m] :
            \/ j \in DOMAIN log[m] /\ log'[m][j] = log[m][j]
            \/ m = n /\ j = Len(log[n]) + 1 /\ log'[m][j] = h
      BY <1>2, <3>1
    <3>5. GroupOK'
      BY <1>1, <2>1, <3>2, <3>4 DEF PlacesOK, GroupOK
    <3>6. LoggedOnce'
      BY <1>1, <3>3, <3>4 DEF PlacesOK, LoggedOnce
    <3>7. GivenOnce'
      BY <1>1, <2>1 DEF PlacesOK, GivenOnce
    <3>8. NotYet'
      BY <1>1, <2>1, <3>2, <3>4 DEF PlacesOK, NotYet, GivenOnce
    <3> QED
      BY <3>5, <3>6, <3>7, <3>8 DEF PlacesOK
  <2> QED
    BY <1>7, <2>2, <2>3 DEF Handle
<1>8. ASSUME NEW n \in Node, Ack(n) \/ AckFails(n) PROVE PlacesOK'
  <2>1. /\ UNCHANGED <<group, start, log>> /\ pc[n] = "ack"
        /\ \A m \in Node \ {n} : pc'[m] = pc[m] /\ batch'[m] = batch[m]
        /\ batch'[n] = Tail(batch[n])
    BY <1>1, <1>8 DEF Ack, AckFails, redis, TypeOK
  <2>2. batch[n] # <<>> /\ batch[n] \in Seq(1..Len(stream))
    BY <1>1, <2>1 DEF AckOK, TypeOK
  <2>3. \A k \in DOMAIN batch'[n] :
          k \in Nat \ {0} /\ k + 1 \in DOMAIN batch[n] /\ batch'[n][k] = batch[n][k + 1]
    BY <2>1, <2>2
  <2>4. GroupOK'
    <3>1. ASSUME NEW m \in Node, NEW k \in DOMAIN batch'[m] PROVE batch'[m][k] <= group
      <4>1. CASE m = n
        BY <1>1, <2>3, <4>1 DEF PlacesOK, GroupOK
      <4>2. CASE m # n
        BY <1>1, <2>1, <4>2 DEF PlacesOK, GroupOK
      <4> QED
        BY <4>1, <4>2
    <3> QED
      BY <1>1, <2>1, <3>1 DEF PlacesOK, GroupOK
  <2>5. LoggedOnce'
    BY <1>1, <2>1 DEF PlacesOK, LoggedOnce
  <2> DEFINE at(m, k) == IF m = n THEN k + 1 ELSE k
  <2>6. \A m \in Node : \A k \in DOMAIN batch'[m] :
          k \in Nat \ {0} /\ at(m, k) \in DOMAIN batch[m] /\ batch'[m][k] = batch[m][at(m, k)]
    <3>1. \A m \in Node \ {n} : batch'[m] = batch[m] /\ \A k \in DOMAIN batch[m] : k \in Nat \ {0}
      BY <1>2, <2>1
    <3> QED
      BY <2>3, <3>1
  <2>7. ASSUME NEW l \in Node, NEW m \in Node, NEW j \in DOMAIN batch'[l],
               NEW k \in DOMAIN batch'[m], batch'[l][j] = batch'[m][k]
        PROVE  l = m /\ j = k
    <3>1. l = m /\ at(l, j) = at(m, k)
      BY <1>1, <2>6, <2>7 DEF PlacesOK, GivenOnce
    <3> QED
      BY <2>6, <3>1
  <2>8. ASSUME NEW l \in Node, NEW m \in Node, NEW j \in DOMAIN log'[l],
               NEW k \in DOMAIN batch'[m], log'[l][j] = batch'[m][k]
        PROVE  k = 1 /\ pc'[m] = "ack"
    <3>1. at(m, k) = 1 /\ pc[m] = "ack"
      BY <1>1, <2>1, <2>6, <2>8 DEF PlacesOK, NotYet
    <3>2. m # n
      BY <2>6, <3>1
    <3> QED
      BY <2>1, <3>1, <3>2
  <2> QED
    BY <2>4, <2>5, <2>7, <2>8 DEF PlacesOK, GivenOnce, NotYet
<1>9. ASSUME NEW n \in Node, Crash(n) PROVE PlacesOK'
  <2>1. /\ UNCHANGED <<group, start, log>> /\ batch'[n] = <<>>
        /\ \A m \in Node \ {n} : pc'[m] = pc[m] /\ batch'[m] = batch[m]
    BY <1>1, <1>9 DEF Crash, redis, TypeOK
  <2>2. \A m \in Node : \A k \in DOMAIN batch'[m] :
          m # n /\ k \in DOMAIN batch[m] /\ batch'[m][k] = batch[m][k]
    BY <2>1
  <2> QED
    BY <1>1, <2>1, <2>2 DEF PlacesOK, GroupOK, GivenOnce, LoggedOnce, NotYet
<1>10. ASSUME NEW n \in Node, NEW t \in Task, Publish(n, t) \/ PublishFails(n, t)
       PROVE  PlacesOK'
  BY <1>1, <1>10, PlacesKept DEF Publish, PublishFails, redis
<1>11. ASSUME NEW n \in Node, NEW kind \in {"message", "direct"}, LocalEvent(n, kind)
       PROVE  PlacesOK'
  BY <1>1, <1>11, PlacesKept DEF LocalEvent, redis
<1>12. CASE ForeignAdd \/ UNCHANGED vars
  BY <1>1, <1>12, PlacesKept DEF ForeignAdd, vars, redis
<1> QED
  BY <1>3, <1>4, <1>5, <1>6, <1>7, <1>8, <1>9, <1>10, <1>11, <1>12 DEF Next, Serve, Fail

\* The entries of a batch are entries of the stream, which only grows.
LEMMA StreamGrows ==
  ASSUME TypeOK, [Next]_vars
  PROVE  /\ Len(stream) \in Nat /\ Len(stream') \in Nat /\ Len(stream) <= Len(stream')
         /\ \A i \in 1..Len(stream) : stream'[i] = stream[i]
         /\ \A i \in 1..Len(stream') :
              i <= Len(stream) \/ stream'[i].kind = "bad"
              \/ \E n \in Node, t \in Task : publishing[n][t] > 0
<1>1. Len(stream) \in Nat
  BY DEF TypeOK
<1>2. ASSUME NEW e \in Entry, stream' = Append(stream, e)
      PROVE  /\ Len(stream') = Len(stream) + 1
             /\ \A i \in 1..Len(stream) : stream'[i] = stream[i]
             /\ stream'[Len(stream) + 1] = e
  BY <1>2 DEF TypeOK
<1>3. ASSUME NEW n \in Node, NEW t \in Task, Publish(n, t) PROVE
        /\ \E e \in Entry : stream' = Append(stream, e)
        /\ publishing[n][t] > 0
  <2>1. [kind |-> t.kind, local |-> t.local, from |-> n] \in Entry
    BY DEF Entry, Task
  <2> QED
    BY <1>3, <2>1 DEF Publish
<1>4. ASSUME ForeignAdd PROVE stream' = Append(stream, Foreign) /\ Foreign \in Entry
  BY <1>4 DEF ForeignAdd, Entry
<1>5. ASSUME ~ForeignAdd, \A n \in Node, t \in Task : ~Publish(n, t)
      PROVE  UNCHANGED stream
  BY <1>5 DEF Next, Serve, Fail, Start, EnsureGroup, EnsureFails, SubscribeMessage,
    SubscribeDirect, LocalEvent, PublishFails, Read, ReadFails, Handle, Ack, AckFails,
    Crash, vars, redis
<1>6. CASE ForeignAdd
  <2>1. Foreign.kind = "bad"
    BY DEF Foreign
  <2> QED
    BY <1>1, <1>2, <1>4, <1>6, <2>1
<1>7. CASE \E n \in Node, t \in Task : Publish(n, t)
  <2>1. PICK n \in Node, t \in Task : Publish(n, t)
    BY <1>7
  <2>2. PICK e \in Entry : stream' = Append(stream, e)
    BY <1>3, <2>1
  <2> QED
    BY <1>1, <1>2, <1>3, <2>1, <2>2
<1> QED
  BY <1>1, <1>5, <1>6, <1>7

\* The first of a batch is an entry.
LEMMA FirstOf == ASSUME NEW S, NEW q \in Seq(S), q # <<>> PROVE Head(q) \in S
  OBVIOUS

\* What has been handled stays handled.
LEMMA StaysHandled ==
  ASSUME TypeOK, AckOK, [Next]_vars, NEW i, Handled(i) PROVE Handled(i)'
<1>1. CASE UNCHANGED log
  BY <1>1 DEF Handled, Runs
<1>2. CASE \E n \in Node : Handle(n) /\ log' # log
  <2>1. PICK n \in Node : Handle(n) /\ log' = [log EXCEPT ![n] = Append(@, Head(batch[n]))]
    BY <1>2 DEF Handle
  <2>2. Head(batch[n]) \in 1..Len(stream) /\ log[n] \in Seq(1..Len(stream))
    <3>1. batch[n] \in Seq(1..Len(stream)) /\ log[n] \in Seq(1..Len(stream)) /\ batch[n] # <<>>
      BY <2>1, Zenon DEF Handle, TypeOK
    <3> QED
      BY <3>1, FirstOf
  <2>3. \A k \in DOMAIN log[n] : k \in DOMAIN log'[n] /\ log'[n][k] = log[n][k]
    BY <2>1, <2>2 DEF TypeOK
  <2>4. \A m \in Node : \A k \in DOMAIN log[m] : k \in DOMAIN log'[m] /\ log'[m][k] = log[m][k]
    BY <2>1, <2>3 DEF TypeOK
  <2> QED
    BY <2>4 DEF Handled, Runs
<1> QED
  BY <1>1, <1>2, ZenonT(30) DEF Next, Serve, Fail, Start, EnsureGroup, EnsureFails, SubscribeMessage,
    SubscribeDirect, LocalEvent, Publish, PublishFails, ForeignAdd, Read, ReadFails, Ack,
    AckFails, Crash, vars

\* Every step keeps a server from acknowledging what it has not handled.
LEMMA AckStep == ASSUME Inv, TypeOK', [Next]_vars PROVE AckOK'
<1> USE DEF Goto
<1>1. TypeOK /\ AckOK
  BY DEF Inv
<1>2. SUFFICES ASSUME NEW n \in Node, pc'[n] = "ack"
               PROVE  /\ batch'[n] # <<>>
                      /\ \A i \in 1..Len(stream') : i = Head(batch'[n]) =>
                           stream'[i].kind = "bad" \/ Handled(i)'
  BY DEF AckOK
<1>3. CASE pc[n] = "ack"
  <2>1. batch'[n] = batch[n]
    BY <1>1, <1>2, <1>3, ZenonT(30) DEF Next, Serve, Fail, Start, EnsureGroup, EnsureFails,
      SubscribeMessage, SubscribeDirect, LocalEvent, Publish, PublishFails, ForeignAdd, Read,
      Readable, ReadFails, Handle, Ack, AckFails, Crash, vars, TypeOK
  <2>2. batch[n] # <<>> /\ Head(batch[n]) \in 1..Len(stream)
    <3>1. batch[n] # <<>>
      BY <1>1, <1>3 DEF AckOK
    <3>2. batch[n] \in Seq(1..Len(stream))
      BY <1>1 DEF TypeOK
    <3> QED
      BY <3>1, <3>2, FirstOf
  <2>3. ASSUME NEW i \in 1..Len(stream'), i = Head(batch'[n])
        PROVE  stream'[i].kind = "bad" \/ Handled(i)'
    <3>1. i \in 1..Len(stream) /\ (stream[i].kind = "bad" \/ Handled(i))
      BY <1>1, <1>3, <2>1, <2>2, <2>3 DEF AckOK
    <3> QED
      BY <1>1, <3>1, StreamGrows, StaysHandled
  <2> QED
    BY <2>1, <2>2, <2>3
<1>4. CASE pc[n] # "ack"
  <2>1. Handle(n)
    BY <1>1, <1>2, <1>4, ZenonT(30) DEF Next, Serve, Fail, Start, EnsureGroup, EnsureFails,
      SubscribeMessage, SubscribeDirect, LocalEvent, Publish, PublishFails, ForeignAdd, Read,
      ReadFails, Handle, Ack, AckFails, Crash, vars, TypeOK
  <2>2. batch'[n] = batch[n] /\ batch[n] # <<>> /\ stream' = stream
    BY <2>1 DEF Handle, redis
  <2>3. ASSUME NEW i \in 1..Len(stream'), i = Head(batch'[n])
        PROVE  stream'[i].kind = "bad" \/ Handled(i)'
    <3>1. CASE stream[i].kind # "bad"
      <4>1. log' = [log EXCEPT ![n] = Append(@, i)] /\ i \in 1..Len(stream)
        BY <2>1, <2>2, <2>3, <3>1 DEF Handle
      <4>2. Len(log[n]) + 1 \in DOMAIN log'[n] /\ log'[n][Len(log[n]) + 1] = i
        BY <1>1, <4>1 DEF TypeOK
      <4>3. <<n, Len(log[n]) + 1>> \in {n} \X {k \in DOMAIN log'[n] : log'[n][k] = i}
        BY <4>2
      <4>4. <<n, Len(log[n]) + 1>> \in Runs(i)'
        BY <4>3 DEF Runs
      <4> QED
        BY <4>4 DEF Handled
    <3> QED
      BY <2>2, <3>1
  <2> QED
    BY <2>2, <2>3
<1> QED
  BY <1>3, <1>4

\* Every step accounts for every delivered entry: the group moves with what
\* becomes pending, and only an acknowledgement takes something from there.
LEMMA AccountedStep == ASSUME Inv, TypeOK', [Next]_vars PROVE Accounted'
<1> USE DEF Goto, None
<1>1. TypeOK /\ AckOK /\ Accounted /\ PlacesOK
  BY DEF Inv
<1>2. /\ group \in Int /\ start \in Int /\ group <= Len(stream) /\ Len(stream) \in Nat
      /\ group # None => start >= 0
  BY <1>1 DEF TypeOK, PlacesOK, GroupOK
<1>3. ASSUME UNCHANGED <<group, start>>, pending \subseteq pending' PROVE Accounted'
  <2> SUFFICES ASSUME group' # None, NEW i \in (start' + 1)..group'
               PROVE  Handled(i)' \/ stream'[i].kind = "bad" \/ i \in pending'
    BY DEF Accounted
  <2>1. i \in 1..Len(stream) /\ (Handled(i) \/ stream[i].kind = "bad" \/ i \in pending)
    BY <1>1, <1>2, <1>3 DEF Accounted
  <2> QED
    BY <1>1, <1>3, <2>1, StaysHandled, StreamGrows
<1>4. ASSUME NEW n \in Node, EnsureGroup(n) PROVE Accounted'
  <2>1. CASE group = None
    BY <1>2, <1>4, <2>1 DEF EnsureGroup, Accounted
  <2> QED
    BY <1>3, <1>4, <2>1 DEF EnsureGroup
<1>5. ASSUME NEW n \in Node, Read(n) \/ ReadFails(n) PROVE Accounted'
  <2>1. /\ LastRead \in group + 1 .. Len(stream) /\ Range(Fresh) = group + 1 .. LastRead
        /\ group # None
    BY <1>1, <1>5, FreshEntries DEF Read, ReadFails, Readable
  <2>2. /\ group' = LastRead /\ pending' = pending \cup Range(Fresh)
        /\ UNCHANGED <<start, stream, log>>
    BY <1>5 DEF Read, ReadFails
  <2> SUFFICES ASSUME NEW i \in (start' + 1)..group'
               PROVE  Handled(i)' \/ stream'[i].kind = "bad" \/ i \in pending'
    BY DEF Accounted
  <2>3. CASE i <= group
    <3>1. Handled(i) \/ stream[i].kind = "bad" \/ i \in pending
      BY <1>1, <1>2, <2>1, <2>2, <2>3 DEF Accounted
    <3> QED
      BY <2>2, <3>1 DEF Handled, Runs
  <2>4. CASE i > group
    BY <1>2, <2>1, <2>2, <2>4
  <2> QED
    BY <1>2, <2>1, <2>2, <2>3, <2>4
<1>6. ASSUME NEW n \in Node, Ack(n) PROVE Accounted'
  <2>1. /\ pc[n] = "ack" /\ pending' = pending \ {Head(batch[n])}
        /\ UNCHANGED <<group, start, stream, log>>
    BY <1>6 DEF Ack
  <2> SUFFICES ASSUME group' # None, NEW i \in (start' + 1)..group'
               PROVE  Handled(i)' \/ stream'[i].kind = "bad" \/ i \in pending'
    BY DEF Accounted
  <2>2. i \in 1..Len(stream) /\ (Handled(i) \/ stream[i].kind = "bad" \/ i \in pending)
    BY <1>1, <1>2, <2>1 DEF Accounted
  <2>3. i = Head(batch[n]) => stream[i].kind = "bad" \/ Handled(i)
    BY <1>1, <2>1, <2>2 DEF AckOK
  <2> QED
    BY <2>1, <2>2, <2>3 DEF Handled, Runs
<1> QED
  BY <1>3, <1>4, <1>5, <1>6, Zenon DEF Next, Serve, Fail, Start, EnsureFails, SubscribeMessage,
    SubscribeDirect, LocalEvent, Publish, PublishFails, ForeignAdd, Handle, AckFails, Crash,
    vars, redis

\* Every step keeps the group in place for what is published.
LEMMA SkipStep ==
  ASSUME Inv, TypeOK', [Next]_vars PROVE GroupThere' /\ NothingSkipped'
<1> USE DEF Goto, GoesWrong
<1>1. TypeOK /\ PlacesOK /\ GroupThere /\ NothingSkipped
  BY DEF Inv
<1>2. start \in Int /\ group \in Int /\ (group = None <=> start = None) /\ start <= group
      /\ group <= Len(stream) /\ Len(stream) \in Nat
  BY <1>1 DEF TypeOK, None, PlacesOK, GroupOK
<1>3. wrong \subseteq wrong'
  BY Zenon DEF Next, Serve, Fail, Start, EnsureGroup, EnsureFails, SubscribeMessage,
    SubscribeDirect, LocalEvent, Publish, PublishFails, ForeignAdd, Read, ReadFails, Handle,
    Ack, AckFails, Crash, vars
<1>4. group # None => group' # None /\ start' = start
  <2>1. ASSUME NEW n \in Node, Read(n) \/ ReadFails(n) PROVE group' # None /\ start' = start
    <3>1. LastRead \in group + 1 .. Len(stream) /\ group \in Nat
      BY <1>1, <2>1, FreshEntries DEF Read, ReadFails, Readable, TypeOK, None
    <3> QED
      BY <2>1, <3>1 DEF Read, ReadFails, None
  <2> QED
    BY <2>1, ZenonT(30) DEF Next, Serve, Fail, Start, EnsureGroup, EnsureFails, SubscribeMessage,
      SubscribeDirect, LocalEvent, Publish, PublishFails, ForeignAdd, Handle, Ack, AckFails,
      Crash, vars, redis
<1>5. ASSUME "ensure" \notin wrong', NEW n \in Node, pc'[n] \notin {"down", "ensure"}
      PROVE  group' # None
  <2>1. CASE pc[n] \notin {"down", "ensure"}
    BY <1>1, <1>3, <1>4, <1>5, <2>1 DEF GroupThere
  <2>2. CASE pc[n] \in {"down", "ensure"}
    <3>1. EnsureGroup(n) \/ EnsureFails(n)
      <4>1. pc \in [Node -> Label] /\ pc'[n] # pc[n]
        BY <1>1, <1>5, <2>2 DEF TypeOK
      <4>2. PICK m \in Node : \/ Start(m) \/ EnsureGroup(m) \/ EnsureFails(m) \/ Handle(m)
                              \/ SubscribeMessage(m) \/ SubscribeDirect(m) \/ Crash(m)
                              \/ Ack(m) \/ AckFails(m)
        BY <4>1, Zenon DEF Next, Serve, Fail, LocalEvent, Publish, PublishFails, ForeignAdd, Read,
          ReadFails, vars
      <4>3. /\ pc[m] \in {"down", "ensure"} =>
                 pc'[m] \in {"down", "ensure"} \/ EnsureGroup(m) \/ EnsureFails(m)
            /\ \A k \in Node \ {m} : pc'[k] = pc[k]
        BY <4>1, <4>2, Zenon DEF Start, EnsureGroup, EnsureFails, Handle, SubscribeMessage,
          SubscribeDirect, Crash, Ack, AckFails
      <4> QED
        BY <1>5, <2>2, <4>1, <4>3
    <3>2. EnsureGroup(n)
      BY <1>5, <3>1 DEF EnsureFails
    <3> QED
      BY <1>2, <1>4, <3>2 DEF EnsureGroup, None
  <2> QED
    BY <2>1, <2>2
<1>6. ASSUME "ensure" \notin wrong', NEW n \in Node, NEW t \in Task, publishing'[n][t] > 0
      PROVE  group' # None
  <2>1. CASE publishing[n][t] > 0
    BY <1>1, <1>3, <1>4, <1>6, <2>1 DEF GroupThere
  <2>2. CASE ~(publishing[n][t] > 0)
    <3>1. publishing[n][t] = 0 /\ publishing'[n][t] # publishing[n][t]
      BY <1>1, <1>6, <2>2, BusAssumption DEF TypeOK
    <3>2. ASSUME NEW m \in Node, NEW s \in Task, Publish(m, s) \/ PublishFails(m, s)
          PROVE  FALSE
      <4>1. publishing[m][s] > 0 /\ publishing' = [publishing EXCEPT ![m][s] = @ - 1]
        BY <3>2 DEF Publish, PublishFails
      <4>2. m # n \/ s # t
        BY <3>1, <4>1
      <4> QED
        BY <1>1, <3>1, <4>1, <4>2 DEF TypeOK
    <3>3. ASSUME NEW m \in Node, Crash(m) PROVE FALSE
      BY <1>1, <1>6, <3>1, <3>3 DEF Crash, Nothing, TypeOK
    <3>4. ASSUME NEW m \in Node, NEW kind \in {"message", "direct"}, LocalEvent(m, kind)
          PROVE  group # None
      <4>1. pc[m] \in {"consume", "ack", "subDirect"}
        BY <3>4 DEF LocalEvent, Subscribed
      <4> QED
        BY <1>1, <1>3, <1>6, <4>1 DEF GroupThere
    <3>5. ASSUME NEW m \in Node, Handle(m) PROVE group # None
      BY <1>1, <1>3, <1>6, <3>5 DEF Handle, GroupThere
    <3> QED
      BY <1>4, <3>1, <3>2, <3>3, <3>4, <3>5 DEF Next, Serve, Fail, Start, EnsureGroup,
        EnsureFails, SubscribeMessage, SubscribeDirect, ForeignAdd, Read, ReadFails, Ack,
        AckFails, vars
  <2> QED
    BY <2>1, <2>2
<1>7. ASSUME "ensure" \notin wrong', NEW i \in 1..Len(stream'), stream'[i].kind # "bad"
      PROVE  start' # None /\ i > start'
  <2>1. CASE i <= Len(stream)
    <3>1. i \in 1..Len(stream) /\ stream[i].kind # "bad"
      BY <1>1, <1>7, <2>1, StreamGrows
    <3> QED
      BY <1>1, <1>2, <1>3, <1>4, <1>7, <3>1 DEF NothingSkipped
  <2>2. CASE i > Len(stream)
    <3>1. PICK n \in Node, t \in Task : publishing[n][t] > 0
      BY <1>1, <1>2, <1>7, <2>2, StreamGrows
    <3>2. group # None
      BY <1>1, <1>3, <1>7, <3>1 DEF GroupThere
    <3> QED
      BY <1>2, <1>4, <2>2, <3>2
  <2> QED
    BY <1>2, <2>1, <2>2
<1> QED
  BY <1>5, <1>6, <1>7 DEF GroupThere, NothingSkipped

\* Every step keeps the invariant.
LEMMA InvStep == ASSUME Inv, [Next]_vars PROVE Inv'
<1>1. TypeOK'
  BY TypeStep DEF Inv
<1> QED
  BY <1>1, PlacesStep, AckStep, AccountedStep, SkipStep DEF Inv

\* The servers start with no group, and nothing to account for.
LEMMA InvInit == Init => Inv
<1> SUFFICES ASSUME Init PROVE Inv
  OBVIOUS
<1>1. TypeOK
  <2>1. <<>> \in Seq(Entry) /\ <<>> \in Seq(1..Len(stream)) /\ Len(stream) = 0
    BY DEF Init
  <2> QED
    BY <2>1, BusAssumption DEF Init, TypeOK, Label, Nothing, None
<1>2. PlacesOK
  BY DEF Init, PlacesOK, GroupOK, GivenOnce, LoggedOnce, NotYet, None
<1>3. AckOK /\ GroupThere /\ Accounted /\ NothingSkipped
  BY DEF Init, AckOK, GroupThere, Accounted, NothingSkipped, Nothing
<1> QED
  BY <1>1, <1>2, <1>3 DEF Inv

\* The invariant holds always.
LEMMA InvAlways == SafetySpec => []Inv
  BY InvInit, InvStep, PTL DEF SafetySpec

\* The values of the bus stay within their types, whatever fails.
THEOREM TypeCorrect == SafetySpec => []TypeOK
<1>1. Inv => TypeOK
  BY DEF Inv
<1> QED
  BY <1>1, InvAlways, PTL

\* An entry is handled by one server and once, whatever crashes, restarts or
\* is lost: Consume asks for entries that nobody has been given.
THEOREM OnceOnly == SafetySpec => []HandledOnce
<1>1. Inv => HandledOnce
  BY DEF Inv, PlacesOK, LoggedOnce, HandledOnce, Runs
<1> QED
  BY <1>1, InvAlways, PTL

\* An entry that was delivered has been handled, cannot be decoded, or is
\* pending: Consume acknowledges only after the handler.
THEOREM NothingLost == SafetySpec => []Accounted
<1>1. Inv => Accounted
  BY DEF Inv
<1> QED
  BY <1>1, InvAlways, PTL

\* Unless EnsureGroup failed, the group begins before the first entry that a
\* server publishes, and no restart moves it.
THEOREM GroupSeesAll == SafetySpec => []NothingSkipped
<1>1. Inv => NothingSkipped
  BY DEF Inv
<1> QED
  BY <1>1, InvAlways, PTL
============================================================================
