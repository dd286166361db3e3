SPECIFICATION Spec
CONSTANTS
  c1 = c1
  c2 = c2
  c3 = c3
  c4 = c4
  Calls = {c1, c2, c3, c4}
  Ops <- McOps
  None = None
INVARIANTS NoOrphan WaitsForRunning
PROPERTIES RefusedForCause AllAnswered
\* no call is made again
CHECK_DEADLOCK FALSE
