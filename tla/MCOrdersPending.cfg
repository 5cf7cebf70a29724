\* Two requests of one user place an order at the same time.
CONSTANTS
  u1 = u1
  u2 = u2
  u3 = u3
  p1 = p1
  p2 = p2
  c1 = c1
  o1 = o1
  o2 = o2
  m1 = m1
  m2 = m2
  None = None
  Sessions = {s1, s2}
  Users = {u1}
  Plans = {p1}
  Coupons = {}
  OrderIds = {o1, o2}
  Methods = {m2}
  Price <- PayPrice
  PeriodTicks <- MCPeriodTicks
  OddPeriods = {}
  Never <- MCNever
  Shown = {p1}
  Renewable = {p1}
  Capacity <- Unlimited
  Tiers = {}
  CouponInfo <- NoRows
  Inviter <- NoInviter
  FirstTimeOnly = FALSE
  Rate = 50
  StartRows <- PayRows
  StartStock <- NoRows
  StartValue <- NoRows
  CouponValues = {}
  Imported <- NoRows
  Deposits = {}
  Assignments = {}
  Fees <- MCFees
  CommissionEdits = {}
  PendingTimeout = 1
  MaxTime = 0
SPECIFICATION Spec
SYMMETRY Symmetry
INVARIANTS
  OnePendingOrder
CHECK_DEADLOCK FALSE
