\* Two writers, bits for bytes; buffers of the pool that are too small, and used.
CONSTANTS
  w1 = w1
  w2 = w2
  Writer = {w1, w2}
  Byte = {0, 1}
  Header = 2
  PutUint32 <- MCPutUint32
  Uint32 <- MCUint32
  MaxSize = 2
  PoolSize = 1
  Capacity = 2
  MaxFrames = 2
SPECIFICATION Spec
INVARIANTS FramesIntact RefusesOnlyEmpty
PROPERTY WritersReturn
CHECK_DEADLOCK FALSE
