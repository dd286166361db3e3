SPECIFICATION Spec
CONSTANTS
  a1 = a1
  a2 = a2
  ann = ann
  bob = bob
  cat = cat
  general = general
  hello = hello
  quiet = quiet
  k1 = k1
  None = None
  System = System
  Removed = Removed
  Actors <- MCActors
  People <- MCThree
  Slugs = {general}
  Bodies = {hello}
  Mentioned <- MCMentioned
  Keys = {k1}
  Ops <- MCRoomOps
  Serial <- MCRewriting
  MaxCalls = 2
  MaxCrashes = 1
  Ledgers <- MCLedgers
CHECK_DEADLOCK FALSE
SYMMETRY Processes
INVARIANTS RemovedHasNoRole RevocationSticks
PROPERTIES JoinKept ArchivedForGood ManagerKept
