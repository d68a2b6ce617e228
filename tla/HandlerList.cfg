\* Two handlers of the bridge and two of the fetch path.
SPECIFICATION Spec
CONSTANTS
  Handlers = {h1, h2, f1, f2}
  Fetchers = {f1, f2}
  First = First
  Nil = Nil
SYMMETRY Interchange
INVARIANTS TypeOK ListSound NoNullStore RepliesFound
\* A null pointer stops the machine.
CHECK_DEADLOCK FALSE
