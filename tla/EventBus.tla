------------------------------ MODULE EventBus ------------------------------
(***************************************************************************)
(* What Hub.Subscribe, the cancel functions and Hub.Emit promise for one   *)
(* event type: every Emit starts, once each and in the order in which they *)
(* were subscribed, the handlers that were subscribed at one moment of the *)
(* call, whatever is subscribed and cancelled while it does so.            *)
(***************************************************************************)
EXTENDS Naturals, Sequences

CONSTANTS
  Emitter,   \* goroutines that call Emit
  MaxHID     \* bound: subscriptions made

VARIABLES
  subs,      \* the subscriptions, oldest first
  last,      \* the number of the latest subscription
  todo       \* the handlers each Emit has still to start

vars == <<subs, last, todo>>

Init ==
  /\ subs = <<>> /\ last = 0
  /\ todo = [e \in Emitter |-> <<>>]

Subscribe ==
  /\ last < MaxHID
  /\ last' = last + 1
  /\ subs' = Append(subs, last')
  /\ UNCHANGED todo

RemoveAt(q, i) == SubSeq(q, 1, i - 1) \o SubSeq(q, i + 1, Len(q))

Cancel(h) ==
  /\ \E i \in DOMAIN subs : subs[i] = h /\ subs' = RemoveAt(subs, i)
  /\ UNCHANGED <<last, todo>>

Emit(e) ==
  /\ todo[e] = <<>>
  /\ todo' = [todo EXCEPT ![e] = subs]
  /\ UNCHANGED <<subs, last>>

Start(e) ==
  /\ todo[e] # <<>>
  /\ todo' = [todo EXCEPT ![e] = Tail(@)]
  /\ UNCHANGED <<subs, last>>

Next ==
  \/ Subscribe
  \/ \E h \in 1..MaxHID : Cancel(h)
  \/ \E e \in Emitter : Emit(e) \/ Start(e)

Safety == Init /\ [][Next]_vars

\* Emit does not wait for handlers, so nothing keeps it from starting them all.
Spec == Safety /\ \A e \in Emitter : WF_vars(Start(e))
============================================================================
