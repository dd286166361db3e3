SPECIFICATION Spec
CONSTANTS
  s1 = s1
  s2 = s2
  f1 = f1
  c1 = c1
  c2 = c2
  Sessions = {s1, s2}
  Files = {f1}
  Contents = {c1, c2}
  None = None
  Empty = Empty
  NoFile = NoFile
  MaxRequests = 2
  MaxVersions = 2
  Calls <- SubstrateCalls
  Drafts <- McDrafts
  Uses <- McUses
INVARIANTS ConfirmedOnly WithdrawnStays LeaseHeldInside ExpectedReplaced LatestIsLive
PROPERTY CreatesOnly
