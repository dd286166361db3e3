SPECIFICATION Spec
CONSTANTS
  u = u
  a = a
  b = b
  msg = msg
  more = more
  stop = stop
  yes = yes
  result = result
  confirm1 = confirm1
  custom1 = custom1
  w1 = w1
  w2 = w2
  w3 = w3
  revisit = revisit
  check = check
  revisitKey = revisitKey
  retryKey = retryKey
  None = None
  NoKey = NoKey
  NoDue = NoDue
  NoWake = NoWake
  Workers <- Two
  Queuers <- Two
  Clients <- TwoClients
  Events <- Plain
  Answers = {}
  RequestOf <- NoneOf
  Requests = {}
  Custom = {}
  Interrupts = {}
  Wakes <- ThreeWakes
  Intents <- Both
  Keys <- MCKeys
  KeyOf <- MCKeyOf
  RetryKeyOf <- MCRetryKeyOf
  Outcomes = {"ok", "queue", "throw"}
  RetryDelay = 1
  ReplayDelay = 1
  RenewFails = FALSE
  CrashAt = {}
  MaxTime = 1
  BackoffBase = 1
  BackoffMax = 2
  MaxStreak = 2
SYMMETRY IdsAndWorkers3
INVARIANTS TypeOK IntentKept WakesIndexed
\* with no work left and the clock at its bound, the system is idle
CHECK_DEADLOCK FALSE
