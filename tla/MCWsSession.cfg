\* One connection, the deadline two ping intervals away (the defaults).
CONSTANTS
  s1 = s1
  Session = {s1}
  Timeout = 2
  MaxIn = 2
  SockBuf = 2
SPECIFICATION Spec
INVARIANTS CountExact PromptStays
PROPERTIES SilentReaped PingerStops ImplementsLifecycle
