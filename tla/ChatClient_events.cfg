SPECIFICATION ClientSpec
CONSTANTS
  a1 = a1
  ann = ann
  bob = bob
  general = general
  hello = hello
  bye = bye
  None = None
  System = System
  Removed = Removed
  Actors = {a1}
  People = {ann, bob}
  Slugs = {general}
  Bodies = {hello, bye}
  Keys = {}
  Ops = {"post", "edit", "mark"}
  Serial = {"post", "edit", "mark"}
  MaxCalls = 3
  MaxCrashes = 0
  Ledgers <- MCLedgers
  Viewer = ann
  Limit = 2
  MaxLines = 6
CHECK_DEADLOCK FALSE
INVARIANTS FeedComplete
PROPERTIES CaughtUp
