\* Two reports, two jobs at a time, two midnights.
CONSTANTS
  n1 = n1
  None = None
  Users = {1}
  Nodes = {n1}
  Rate <- MCRate
  Reports = {1, 2}
  Report <- MCReport
  Runners = {r1, r2}
  Cron = {0, 1}
  MaxDay = 2
  MaxFails = 1
SPECIFICATION Spec
SYMMETRY Symmetry
INVARIANTS
  RecordExact
  AggregateFinal
CHECK_DEADLOCK FALSE
