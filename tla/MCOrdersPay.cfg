\* Two sessions, one user, two orders, one of them imported with status 1:
\* every way to pay for, open and cancel an order.
CONSTANTS
  u1 = u1
  u2 = u2
  u3 = u3
  p1 = p1
  p2 = p2
  c1 = c1
  o1 = o1
  o2 = o2
  m1 = m1
  m2 = m2
  None = None
  Sessions = {s1, s2}
  Users = {u1}
  Plans = {p1}
  Coupons = {}
  OrderIds = {o1, o2}
  Methods = {m1, m2}
  Price <- PayPrice
  PeriodTicks <- MCPeriodTicks
  OddPeriods = {"weekly"}
  Never <- MCNever
  Shown = {p1}
  Renewable = {p1}
  Capacity <- Unlimited
  Tiers <- PayTiers
  CouponInfo <- NoRows
  Inviter <- NoInviter
  FirstTimeOnly = FALSE
  Rate = 50
  StartRows <- PayRows
  StartStock <- NoRows
  StartValue <- NoRows
  CouponValues = {}
  Imported <- PayImported
  Deposits = {3}
  Assignments <- PayAssignments
  Fees <- MCFees
  CommissionEdits = {}
  PendingTimeout = 1
  MaxTime = 1
SPECIFICATION Spec
SYMMETRY Symmetry
INVARIANTS
  TypeOK
  OpenedOnce
  BalanceLedger
PROPERTIES
  StatusMoves
  AnsweredIsSettled
CHECK_DEADLOCK FALSE
