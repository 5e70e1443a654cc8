\* One connection that opens and closes.
CONSTANTS
  s1 = s1
  Session = {s1}
  HeartbeatTimeout = 0
  ReadTimeout = FALSE
  MaxIn = 1
  SockBuf = 1
SPECIFICATION SafetySpec
INVARIANT CountExact
