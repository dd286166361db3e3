SPECIFICATION Spec
CONSTANTS
  a1 = a1
  a2 = a2
  ann = ann
  bob = bob
  cat = cat
  general = general
  hello = hello
  quiet = quiet
  k1 = k1
  None = None
  System = System
  Removed = Removed
  Actors <- MCActors
  People <- MCTwo
  Slugs = {general}
  Bodies = {hello, quiet}
  Mentioned <- MCMentioned
  Keys = {k1}
  Ops <- MCMessageOps
  Serial <- MCPosting
  MaxCalls = 3
  MaxCrashes = 1
  Ledgers <- MCTalks
CHECK_DEADLOCK FALSE
SYMMETRY Processes
INVARIANTS RedactionSticks PostedOnce AttentionKept
