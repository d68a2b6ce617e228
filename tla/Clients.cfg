\* Three readers of the status node for two slots, one other client.
SPECIFICATION FairSpec
CONSTANTS
  s1 = s1
  s2 = s2
  s3 = s3
  m1 = m1
  StatusClients = {s1, s2, s3}
  OtherClients = {m1}
  Nobody = Nobody
  MaxCosPaths = 2
  StatusRoom = 2
  PathRoom = 1
  Plans <- MCPlans
INVARIANTS TypeOK IrqHeld SlotsSound OwnSlot
PROPERTIES Told
\* A plan may be used up.
CHECK_DEADLOCK FALSE
