\* Enough frames for every message: the pool alone is to blame.
SPECIFICATION Spec
CONSTANTS
  Clients = {c1, c2}
  Files = {f1}
  NoClient = NoClient
  NoFile = NoFile
  NData = 2
  Frames = 4
  IdSpan = 3
  MaxOps = 4
  MaxEmptyWrites = 0
INVARIANT ReadIsMine
CHECK_DEADLOCK FALSE
