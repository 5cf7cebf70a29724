\* Two workers, one of them started with --once, batches of two, tries,
\* a crash, an unregistered function and two requests that
\* retry failed jobs.
CONSTANTS
  mail = mail
  order = order
  broken = broken
  default = default
  orders = orders
  w1 = w1
  w2 = w2
  a1 = a1
  a2 = a2
  JobIds = {1, 2, 3}
  Calls = {mail, broken}
  Home <- MCHome
  Unregistered = {broken}
  Keys = {}
  Default = default
  Workers = {w1, w2}
  Options <- BothQueues
  Once = {w2}
  Batch = 2
  MaxTries = 2
  RetryJobs = TRUE
  Delay <- MCDelay
  Admins = {a1, a2}
  MaxCrashes = 1
  MaxTime = 1
  None = None
SPECIFICATION Spec
SYMMETRY Requests
INVARIANTS
  OneWorker
  NoRerun
  FailureAccounted
CHECK_DEADLOCK FALSE
