SPECIFICATION FairSpec
CONSTANTS
  a1 = a1
  a2 = a2
  a3 = a3
  None = None
  s1 = s1
  Attempts <- MCAttempts
  Sweepers <- MCSweepers
  Owners <- MCOwners
  OwnerOf <- MCOwnerOf
  StaleAfter = 2
  MaxTime = 2
  InvalidIsStale = FALSE
  Timely = TRUE
  Solo = TRUE
INVARIANTS TypeOK 
PROPERTIES StaleIsReplaced 
\* attempts are not started again and the clock is bounded
CHECK_DEADLOCK FALSE
