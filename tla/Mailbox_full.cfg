\* Every class of code, a host that may give up early, a local setArm.
SPECIFICATION FairSpec
CONSTANTS
  Clients = {c1}
  NoClient = NoClient
  ShortCommand <- MCNone
  LongCommand <- MCArm
  ShortQuery <- MCShortQuery
  LongQuery <- MCLongQuery
  Unknown <- MCUnknown
  EarlyAck <- MCEarlyAck
  WithArgs <- MCNone
  MaxSends = 3
  MaxEarlyTimeouts = 1
  MaxLocalArms = 1
INVARIANTS TypeOK
PROPERTIES InOrderOnce EveryCallReturns
