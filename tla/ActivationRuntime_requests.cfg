SPECIFICATION Spec
CONSTANTS
  u = u
  a = a
  b = b
  msg = msg
  more = more
  stop = stop
  yes = yes
  result = result
  confirm1 = confirm1
  custom1 = custom1
  w1 = w1
  w2 = w2
  w3 = w3
  revisit = revisit
  check = check
  revisitKey = revisitKey
  retryKey = retryKey
  None = None
  NoKey = NoKey
  NoDue = NoDue
  NoWake = NoWake
  Workers <- Two
  Queuers <- Two
  Clients <- TwoClients
  Events <- Asking
  Answers <- Answers2
  RequestOf <- AnswerOf2
  Requests <- Requests2
  Custom <- Customs
  Interrupts <- Stop
  Wakes <- TwoWakes
  Intents <- Revisit
  Keys <- MCKeys
  KeyOf <- RevisitKeyOf
  RetryKeyOf <- RevisitRetryKeyOf
  Outcomes = {"ok", "confirm", "custom", "retryable", "fatal", "throw"}
  RetryDelay = 1
  ReplayDelay = 1
  RenewFails = TRUE
  CrashAt <- NotFinishing
  MaxTime = 1
  BackoffBase = 1
  BackoffMax = 2
  MaxStreak = 2
SYMMETRY IdsAndWorkers
INVARIANTS EventOnce NoStrandedRequest
\* with no work left and the clock at its bound, the system is idle
CHECK_DEADLOCK FALSE
