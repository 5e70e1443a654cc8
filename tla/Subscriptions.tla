--------------------------- MODULE Subscriptions ---------------------------
(***************************************************************************)
(* The handlers of one event type of the hub: SubscribeCancelable, the     *)
(* cancel function it returns, and Emit.  The list of handlers is a Go     *)
(* slice, a length and a backing array that other slices may share, and    *)
(* cancel filters the array in place.  The lists of different event types  *)
(* have nothing in common but the source of their numbers.                 *)
(***************************************************************************)
EXTENDS Naturals, Sequences, FiniteSets, Functions

CONSTANTS
  Emitter,   \* goroutines that call Emit
  MaxHID     \* bound: subscriptions made

ASSUME SubscriptionAssumption == IsFiniteSet(Emitter) /\ MaxHID \in Nat

HID == 1..MaxHID

\* Arrays are told apart by numbers; one that no slice refers to any more is
\* given out again.  Array 0 belongs to the nil slice.
Array == 0..(Cardinality(Emitter) + 2)
Slice == [array : Array, len : 0..MaxHID]
Nil == [array |-> 0, len |-> 0]

VARIABLES
  memory,     \* the contents of every array, over its whole capacity
  handlers,   \* Hub.handlers of the event type
  nextHID,    \* Hub.nextHID
  emit,       \* what each Emit is doing: the slice it walks, the next index
  running,    \* emitters some of whose handler goroutines have not ended
  called,     \* history: the handlers each Emit has started
  stay,       \* history: the handlers subscribed since it was called
  seen        \* history: the handlers subscribed at some time since

subsVars == <<memory, handlers, nextHID, emit, running, called, stay, seen>>

EmitState == [pc : {"idle", "lookup", "start"}, slice : Slice, next : 1..(MaxHID + 1)]

SubsTypeOK ==
  /\ memory \in [Array -> Seq(0..MaxHID)]
  /\ handlers \in Slice
  /\ nextHID \in 0..MaxHID
  /\ emit \in [Emitter -> EmitState]
  /\ running \subseteq Emitter
  /\ called \in [Emitter -> Seq(HID)]
  /\ stay \in [Emitter -> SUBSET HID] /\ seen \in [Emitter -> SUBSET HID]

Quiet == [pc |-> "idle", slice |-> Nil, next |-> 1]

SubsInit ==
  /\ memory = [a \in Array |-> <<>>]
  /\ handlers = Nil /\ nextHID = 0
  /\ emit = [e \in Emitter |-> Quiet]
  /\ running = {}
  /\ called = [e \in Emitter |-> <<>>]
  /\ stay = [e \in Emitter |-> {}] /\ seen = [e \in Emitter |-> {}]

---------------------------------------------------------------------------
(* Slices.                                                                 *)

Elements(m, s) == SubSeq(m[s.array], 1, s.len)

Subscribed == Range(Elements(memory, handlers))

\* An array nobody refers to; there always is one.
Free == CHOOSE a \in Array \ {0} :
          a # handlers.array /\ \A e \in Emitter : emit[e].slice.array # a

\* What no slice refers to after a step is garbage.
Collect(m) ==
  [a \in Array |->
     IF a = handlers'.array \/ \E e \in Emitter : emit'[e].slice.array = a
     THEN m[a] ELSE <<>>]

Zeros(n) == [i \in 1..n |-> 0]

\* append(nil, q...): an array of its own, without room to spare.
Copied(q) == [array |-> IF q = <<>> THEN 0 ELSE Free, len |-> Len(q)]

\* append(s, h): in place while the array has room, or else in a new array of
\* twice the size.
Room(s) == s.len < Len(memory[s.array])
Appended(s) == [array |-> IF Room(s) THEN s.array ELSE Free, len |-> s.len + 1]
AppendedTo(s, h) ==
  IF Room(s)
  THEN [memory EXCEPT ![s.array][s.len + 1] = h]
  ELSE [memory EXCEPT ![Free] =
          Append(Elements(memory, s), h) \o Zeros(IF s.len = 0 THEN 0 ELSE s.len - 1)]

---------------------------------------------------------------------------
(* SubscribeCancelable and cancel, each under the write lock.              *)

Subscribe ==
  /\ nextHID < MaxHID
  /\ nextHID' = nextHID + 1
  /\ handlers' = Appended(handlers)
  /\ UNCHANGED <<emit, running, called, stay>>
  /\ memory' = Collect(AppendedTo(handlers, nextHID'))
  /\ seen' = [e \in Emitter |->
                IF emit[e].pc = "idle" THEN {} ELSE seen[e] \cup {nextHID'}]

RemoveAt(q, i) == SubSeq(q, 1, i - 1) \o SubSeq(q, i + 1, Len(q))

\* What passes the filter e.id != id.  No two subscriptions have the same
\* number, so at most one entry does not pass.
Kept(q, h) ==
  IF h \in Range(q) THEN RemoveAt(q, CHOOSE i \in DOMAIN q : q[i] = h) ELSE q

\* entries[:0] filled with what passes the filter: the array's front is
\* overwritten and the rest of it stays as it was.
Filtered(keep) ==
  [memory EXCEPT ![handlers.array] = keep \o SubSeq(@, Len(keep) + 1, Len(@))]

\* The cancel function of subscription h, however often it is called: the
\* array is filtered in place, and then copied.
Cancel(h) ==
  /\ h <= nextHID
  /\ LET keep == Kept(Elements(memory, handlers), h) IN
       /\ handlers' = Copied(keep)
       /\ UNCHANGED <<nextHID, emit, running, called, seen>>
       /\ memory' = Collect([Filtered(keep) EXCEPT ![handlers'.array] = keep])
  /\ stay' = [e \in Emitter |-> stay[e] \ {h}]

---------------------------------------------------------------------------
(* Emit.                                                                   *)

Call(e) ==
  /\ emit[e].pc = "idle"
  /\ emit' = [emit EXCEPT ![e].pc = "lookup"]
  /\ stay' = [stay EXCEPT ![e] = Subscribed]
  /\ seen' = [seen EXCEPT ![e] = Subscribed]
  /\ UNCHANGED <<memory, handlers, nextHID, running, called>>

Walk(e, s) ==
  emit' = [emit EXCEPT ![e] = [pc |-> "start", slice |-> s, next |-> 1]]

\* Faulty variant of Lookup: the slice itself is used after the unlock.
LookupShared(e) ==
  /\ emit[e].pc = "lookup"
  /\ Walk(e, handlers)
  /\ UNCHANGED <<memory, handlers, nextHID, running, called, stay, seen>>

\* The entries are copied under the read lock.
Lookup(e) ==
  /\ emit[e].pc = "lookup"
  /\ LET q == Elements(memory, handlers) IN
       /\ Walk(e, Copied(q))
       /\ UNCHANGED <<handlers, nextHID, running, called, stay, seen>>
       /\ memory' = [memory EXCEPT ![emit'[e].slice.array] = q]

\* Faulty variant of StartHandler: the handler is called, not started.
StartHandlerWaits(e) ==
  /\ emit[e].pc = "start" /\ emit[e].next <= emit[e].slice.len
  /\ e \notin running
  /\ LET h == memory[emit[e].slice.array][emit[e].next] IN
       called' = [called EXCEPT ![e] = Append(@, h)]
  /\ running' = running \cup {e}
  /\ emit' = [emit EXCEPT ![e].next = @ + 1]
  /\ UNCHANGED <<memory, handlers, nextHID, stay, seen>>

\* go func: the handler runs on its own.
StartHandler(e) ==
  /\ emit[e].pc = "start" /\ emit[e].next <= emit[e].slice.len
  /\ LET h == memory[emit[e].slice.array][emit[e].next] IN
       called' = [called EXCEPT ![e] = Append(@, h)]
  /\ running' = running \cup {e}
  /\ emit' = [emit EXCEPT ![e].next = @ + 1]
  /\ UNCHANGED <<memory, handlers, nextHID, stay, seen>>

Done(e) == emit[e].pc = "start" /\ emit[e].next > emit[e].slice.len

Return(e) ==
  /\ Done(e)
  /\ emit' = [emit EXCEPT ![e] = Quiet]
  /\ UNCHANGED <<handlers, nextHID, running>>
  /\ memory' = Collect(memory)
  /\ called' = [called EXCEPT ![e] = <<>>]
  /\ stay' = [stay EXCEPT ![e] = {}] /\ seen' = [seen EXCEPT ![e] = {}]

\* The last of them returns, or panics and is recovered; it need do neither.
HandlersEnd(e) ==
  /\ e \in running
  /\ running' = running \ {e}
  /\ UNCHANGED <<memory, handlers, nextHID, emit, called, stay, seen>>

EmitStep(e) == Lookup(e) \/ StartHandler(e) \/ Return(e)

---------------------------------------------------------------------------
\* A handler that is subscribed for the whole of an Emit is started by it,
\* none is started twice, and none that was cancelled before the call: the
\* in-place filter of a cancel never reaches an Emit that has begun.
EmitComplete ==
  \A e \in Emitter : Done(e) =>
    /\ stay[e] \subseteq Range(called[e]) /\ Range(called[e]) \subseteq seen[e]
    /\ IsInjective(called[e])

Events == INSTANCE EventBus WITH
  subs <- Elements(memory, handlers),
  last <- nextHID,
  todo <- [e \in Emitter |->
             SubSeq(memory[emit[e].slice.array], emit[e].next, emit[e].slice.len)]

\* "Emit 异步分发事件给所有 handler,非阻塞返回": slices that are shared, filtered in
\* place and copied amount to one list of subscriptions, each Emit works on a
\* snapshot of it, and no handler keeps an Emit from its end.
ImplementsEventBus == Events!Spec
============================================================================
