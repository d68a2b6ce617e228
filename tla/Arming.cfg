\* Two processes that arm and abort, one of them blocking; two managers.
SPECIFICATION FairSpec
CONSTANTS
  Managers = {g1, g2}
  Mbox = Mbox
  Local = Local
  Armers = {p, q}
  Blocking = {p}
  Plans <- MCPlans
INVARIANTS TypeOK StopMeansStopped OneArmer DoubleTapTrue TaskHasWaiter FlagsOwned
PROPERTIES StatusFollows
\* A plan may be used up.
CHECK_DEADLOCK FALSE
