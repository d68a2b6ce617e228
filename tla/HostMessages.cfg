\* Two processes that ask, one that commands, one that reads the stream.
SPECIFICATION FairSpec
CONSTANTS
  Askers = {a1, a2}
  Callers = {p1}
  NoProcess = NoProcess
  NoFrame = NoFrame
  Frames = 3
  UpRoom = 2
  DownRoom = 2
  MinRead = 2
  MaxRoom = 2
  MaxNaps = 1
  Plans <- MCPlans
INVARIANTS TypeOK FramesConserved AuxNeverOverwritten AnswersMine BottomHalfFollows StreamInOrder
PROPERTIES CommandAnswered EveryReadReturns
\* A plan may be used up.
CHECK_DEADLOCK FALSE
