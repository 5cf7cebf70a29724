\* Two reports of one node, two jobs at a time, one fault: every order of
\* increments and flushes, and what the nodes are told.
CONSTANTS
  n1 = n1
  first = first
  second = second
  None = None
  Users = {1, 2}
  Nodes = {n1}
  Rate <- MCRate
  Members <- MCMembers
  Quota <- MCQuota
  Pushes = {first, second}
  Report <- MCReport
  Runners = {r1, r2}
  Managed = {2}
  MaxEvents = 1
SPECIFICATION Spec
INVARIANTS
  Conserved
CHECK_DEADLOCK FALSE
PROPERTIES
  ImplementsContract
  QuotaEnforced
  ReportsAreBilled
