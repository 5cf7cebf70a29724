\* An invited user and the inviter, two orders: whose first order pays a
\* commission, who has used the coupon, and who waits for whose rows.  The
\* commission job may look at any order, and edits may reopen it.
CONSTANTS
  u1 = u1
  u2 = u2
  u3 = u3
  p1 = p1
  p2 = p2
  c1 = c1
  o1 = o1
  o2 = o2
  m1 = m1
  m2 = m2
  None = None
  Sessions = {s1, s2}
  Users = {u1, u2}
  Plans = {p1, p2}
  Coupons = {c1}
  OrderIds = {o1, o2}
  Methods = {}
  Price <- CommissionPrice
  PeriodTicks <- MCPeriodTicks
  OddPeriods = {}
  Never <- MCNever
  Shown = {p1, p2}
  Renewable = {p1}
  Capacity <- Unlimited
  Tiers = {}
  CouponInfo <- MCPerUserInfo
  Inviter <- InvitedBy1
  FirstTimeOnly = TRUE
  Rate = 50
  StartRows <- CommissionRows
  StartStock <- OneUnit
  StartValue <- OneUnit
  CouponValues = {}
  Imported <- NoRows
  Deposits = {}
  Assignments = {}
  Fees <- MCFees
  CommissionEdits = {0}
  PendingTimeout = 1
  MaxTime = 0
SPECIFICATION FairSpec
INVARIANTS
  CouponPerUser
  CommissionRight
PROPERTIES
  OperationsEnd
CHECK_DEADLOCK FALSE
