------------------------- MODULE SessionLifecycle -------------------------
(***************************************************************************)
(* What the transport layer promises about a session, whatever the         *)
(* transport: a connection is registered with the session manager once,    *)
(* it leaves the manager only after the server has closed its connection,  *)
(* and it never comes back.  A closed session does leave the manager.      *)
(***************************************************************************)
CONSTANT Session    \* session ids; the code draws a fresh uuid per connection

VARIABLES
  live,     \* the sessions the session manager holds
  closed,   \* the sessions whose connection the server has closed
  gone      \* the sessions that have been removed from the manager

vars == <<live, closed, gone>>

Init == live = {} /\ closed = {} /\ gone = {}

Register(s) ==
  /\ s \notin live \cup closed \cup gone
  /\ live' = live \cup {s}
  /\ UNCHANGED <<closed, gone>>

Close(s) ==
  /\ s \in live \ closed
  /\ closed' = closed \cup {s}
  /\ UNCHANGED <<live, gone>>

Unregister(s) ==
  /\ s \in live \cap closed
  /\ live' = live \ {s}
  /\ gone' = gone \cup {s}
  /\ UNCHANGED closed

Next == \E s \in Session : Register(s) \/ Close(s) \/ Unregister(s)

Safety == Init /\ [][Next]_vars

Spec == Safety /\ \A s \in Session : WF_vars(Unregister(s))
============================================================================
