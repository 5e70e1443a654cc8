\* Two clients with names of their own, one event handler at a time.
CONSTANTS
  a = a
  b = b
  t1 = t1
  Client = {a, b}
  Name = {"alice", "bob"}
  NameOf <- OwnNames
  Task = {t1}
  OutBuffer = 1
SPECIFICATION Spec
INVARIANTS OnlineGauge RegisteredIsOpen GoneIsClosed
PROPERTIES BroadcastComplete HandlerPanicContained HandlersEnd
