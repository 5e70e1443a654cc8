\* One connection with its three goroutines, heartbeat checks and deadlines.
CONSTANTS
  s1 = s1
  Session = {s1}
  HeartbeatTimeout = 2
  ReadTimeout = TRUE
  MaxIn = 1
  SockBuf = 1
SPECIFICATION Spec
INVARIANTS NoDoubleClose NoResurrection
PROPERTIES ClosedUnwinds SilentReaped WriteUnblocks ShutdownDrains ImplementsLifecycle
