\* Early acknowledgements, early timeouts, a local setArm, two clients.
SPECIFICATION Spec
CONSTANTS
  Clients = {c1, c2}
  NoClient = NoClient
  ShortCommand <- MCNone
  LongCommand <- MCLongArm
  ShortQuery <- MCShortQuery
  LongQuery <- MCLongQuery
  Unknown <- MCNone
  EarlyAck <- MCEarlyAck
  WithArgs <- MCWithArgs
  MaxSends = 3
  MaxEarlyTimeouts = 1
  MaxLocalArms = 1
INVARIANTS AckMeansDone ReplyIsMine RunsAsSent TimeoutMeansUndone
