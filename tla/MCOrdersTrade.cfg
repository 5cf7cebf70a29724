\* Two users compete for the one seat of a plan while a subscription lapses, and
\* for the one unit of a coupon; purchases covered by the balance are opened by
\* a checkout, the others by hand.
CONSTANTS
  u1 = u1
  u2 = u2
  u3 = u3
  p1 = p1
  p2 = p2
  c1 = c1
  o1 = o1
  o2 = o2
  m1 = m1
  m2 = m2
  None = None
  Sessions = {s1, s2}
  Users = {u1, u2}
  Plans = {p1, p2}
  Coupons = {c1}
  OrderIds = {o1, o2}
  Methods = {m2}
  Price <- SellPrice
  PeriodTicks <- MCPeriodTicks
  OddPeriods = {}
  Never <- MCNever
  Shown = {p2}
  Renewable = {p1}
  Capacity <- SellCapacity
  Tiers = {}
  CouponInfo <- MCCouponInfo
  Inviter <- NoInviter
  FirstTimeOnly = FALSE
  Rate = 50
  StartRows <- SellRows
  StartStock <- OneUnit
  StartValue <- Half
  CouponValues = {25}
  Imported <- NoRows
  Deposits = {}
  Assignments <- SellAssignments
  Fees <- MCFees
  CommissionEdits = {}
  PendingTimeout = 9
  MaxTime = 2
SPECIFICATION Spec
SYMMETRY Symmetry
INVARIANTS
  CouponLedger
PROPERTIES
  ImplementsContract
CHECK_DEADLOCK FALSE
