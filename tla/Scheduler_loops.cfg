SPECIFICATION Spec
CONSTANTS
  s1 = s1
  s2 = s2
  l1 = l1
  l2 = l2
  Sessions = {s1, s2}
  Loops = {l1, l2}
  Rank <- McRank
  Urgency <- McUrgency
  Modes <- McModes
  Arrivals <- McArrivals
  Mortal = {l2}
  None = None
INVARIANTS CycleSweeps NoLostWakeup
PROPERTY NoStarvation
CHECK_DEADLOCK FALSE
