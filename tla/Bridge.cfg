\* Two clients, two files, two buffers; the third message in a row is lost.
SPECIFICATION Spec
CONSTANTS
  Clients = {c1, c2}
  Files = {f1, f2}
  NoClient = NoClient
  NoFile = NoFile
  NData = 2
  Frames = 2
  IdSpan = 3
  MaxOps = 4
  MaxEmptyWrites = 1
SYMMETRY Interchange
INVARIANTS TypeOK RepliesMatch PoolSound
PROPERTIES FileHoldsWrites ReadsTheFile
CHECK_DEADLOCK FALSE
