SPECIFICATION FairSpec
CONSTANTS
  s1 = s1
  s2 = s2
  None = None
  Sessions <- MCPair
  Dues <- MCDues
  StaleAfter = 2
  MaxTime = 3
  Timely = TRUE
  Solo = TRUE
INVARIANTS TypeOK EntriesKept
PROPERTY StaleIsRetired
\* failed and dead callers do nothing more, and the clock is bounded
CHECK_DEADLOCK FALSE
