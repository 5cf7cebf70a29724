\* One order, paid at the start or not, two scans, two tries of every job and a
\* crash; the scan and the handling of the order may share a batch.
CONSTANTS
  default = default
  handling = handling
  o1 = o1
  w1 = w1
  None = None
  Check = Check
  Orders = {o1}
  PaidAtStart = {o1}
  PendingTimeout = 1
  Calls <- SweepCalls
  Keys <- SweepKeys
  Home <- MCHome
  JobIds = {1, 2, 3}
  Unregistered = {}
  Default = default
  Workers = {w1}
  Options <- BothQueues
  Once = {}
  Batch = 2
  MaxTries = 2
  RetryJobs = TRUE
  Delay <- MCDelay
  Admins = {}
  MaxCrashes = 1
  MaxTime = 1
SPECIFICATION FairSweepSpec
PROPERTIES
  SweptOnSight
  JobsSettle
CHECK_DEADLOCK FALSE
