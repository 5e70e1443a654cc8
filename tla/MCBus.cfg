\* Two servers, two entries that one read may return, one fault of any kind.
CONSTANTS
  n1 = n1
  n2 = n2
  Node = {n1, n2}
  Batch = 2
  Fault = {"ensure", "publish", "read", "ack", "crash"}
  MaxEntries = 2
  MaxTasks = 1
  MaxFaults = 1
SPECIFICATION Spec
INVARIANTS HandledOnce Accounted NothingSkipped
PROPERTY EventuallyHandled
CHECK_DEADLOCK FALSE
