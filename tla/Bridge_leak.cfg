\* A write of no bytes, and nothing else out of the ordinary.
SPECIFICATION Spec
CONSTANTS
  Clients = {c1, c2}
  Files = {f1}
  NoClient = NoClient
  NoFile = NoFile
  NData = 2
  Frames = 4
  IdSpan = 3
  MaxOps = 2
  MaxEmptyWrites = 1
INVARIANT EveryBufferRecycled
CHECK_DEADLOCK FALSE
