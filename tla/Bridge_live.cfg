\* Every call of two clients on one file, with a frame for one message at a time.
SPECIFICATION FairSpec
CONSTANTS
  Clients = {c1, c2}
  Files = {f1}
  NoClient = NoClient
  NoFile = NoFile
  NData = 2
  Frames = 1
  IdSpan = 3
  MaxOps = 3
  MaxEmptyWrites = 1
PROPERTIES EveryCallReturns
CHECK_DEADLOCK FALSE
