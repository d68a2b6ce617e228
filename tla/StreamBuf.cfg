\* A ring of four slots, three frames that may be queued any number of times.
SPECIFICATION Spec
CONSTANTS
  Data = {d1, d2, d3}
  Invalid = Invalid
  NBUF = 4
INVARIANT TypeOK
PROPERTY IsQueue
