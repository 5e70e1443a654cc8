\* Nothing fails.
CONSTANTS
  n1 = n1
  n2 = n2
  Node = {n1, n2}
  Batch = 2
  Fault = {}
  MaxEntries = 2
  MaxTasks = 1
  MaxFaults = 0
SPECIFICATION SafetySpec
INVARIANT NoEcho
CHECK_DEADLOCK FALSE
