SPECIFICATION Spec
CONSTANTS
  c1 = c1
  c2 = c2
  c3 = c3
  msg = msg
  yes = yes
  no = no
  result = result
  confirm1 = confirm1
  custom1 = custom1
  None = None
  Clients <- MCTrio
  Events <- MCEvents
  Answers <- MCAnswers
  RequestOf <- MCRequestOf
  Requests <- MCRequests
  Custom <- MCCustom
  BackoffBase = 1
  BackoffMax = 2
  MaxStreak = 2
  MaxUntil = 1
  Overlaps = FALSE
  HalfEmits = FALSE
SYMMETRY Callers
INVARIANTS TypeOK  IndexComplete
