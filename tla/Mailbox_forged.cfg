\* setArm followed by another command, nothing else.
SPECIFICATION Spec
CONSTANTS
  Clients = {c1}
  NoClient = NoClient
  ShortCommand <- MCShortCommand
  LongCommand <- MCArm
  ShortQuery <- MCNone
  LongQuery <- MCNone
  Unknown <- MCNone
  EarlyAck <- MCArm
  WithArgs <- MCNone
  MaxSends = 2
  MaxEarlyTimeouts = 0
  MaxLocalArms = 0
INVARIANT AckIsEarned
