SPECIFICATION FairSpec
CONSTANTS
  u = u
  a = a
  b = b
  msg = msg
  more = more
  stop = stop
  yes = yes
  result = result
  confirm1 = confirm1
  custom1 = custom1
  w1 = w1
  w2 = w2
  w3 = w3
  revisit = revisit
  check = check
  revisitKey = revisitKey
  retryKey = retryKey
  None = None
  NoKey = NoKey
  NoDue = NoDue
  NoWake = NoWake
  Workers <- One
  Queuers <- One
  Clients <- OneClients
  Events <- Plain
  Answers = {}
  RequestOf <- NoneOf
  Requests = {}
  Custom = {}
  Interrupts = {}
  Wakes <- TwoWakes
  Intents <- Revisit
  Keys <- MCKeys
  KeyOf <- RevisitKeyOf
  RetryKeyOf <- RevisitRetryKeyOf
  Outcomes = {"ok", "queue", "retryable"}
  RetryDelay = 1
  ReplayDelay = 1
  RenewFails = FALSE
  CrashAt = {}
  MaxTime = 1
  BackoffBase = 1
  BackoffMax = 2
  MaxStreak = 2
PROPERTIES EventsHandled WakesRun
\* with no work left and the clock at its bound, the system is idle
CHECK_DEADLOCK FALSE
