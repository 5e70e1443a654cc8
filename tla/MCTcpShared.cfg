\* Two connections that share the gateway, without heartbeat checks.
CONSTANTS
  s1 = s1
  s2 = s2
  Session = {s1, s2}
  HeartbeatTimeout = 0
  ReadTimeout = FALSE
  MaxIn = 1
  SockBuf = 1
SYMMETRY SessionSymmetry
SPECIFICATION SafetySpec
INVARIANTS TypeOK DispatcherReady RemovedIsClosed
