\* Two sessions, three or four requests of one menu, two ticks, a crash of the database.
CONSTANTS
  None = None
  Sessions = {s1, s2}
  Keys <- MCKeys
  MaxTime = 2
  MaxRequests = 4
  MaxCrashes = 1
  CleanAt = {2}
  Users = {u1}
  Newcomers = {e1, e2}
  Invites = {i1}
  Ttl <- MCTtl
  Budget <- MCBudget
  Limit = 1
  RateLimit = 1
  Values = {0, 1}
  Secrets <- MCSecrets
  Limited = {d1, d2}
  Nodes = {n1, n2}
  Addresses = {a1}
  UniqueIp = FALSE
  AliveTtl = 2
  StaleAfter = 1
  ListTtl = 1
SPECIFICATION Spec
INVARIANTS
  SingleUse
  LimitKept
  OtpPaired
  SettingFresh
  DevicesCurrent
SYMMETRY Symmetry
CHECK_DEADLOCK FALSE
