SPECIFICATION Spec
CHECK_DEADLOCK FALSE
CONSTANTS
  Sessions = {s1, s2}
  Forms = {f1}
  u1 = u1
  u2 = u2
  cash = cash
  days = days
  pack = pack
  life = life
  k1 = k1
  p1 = p1
  Users = {u1, u2}
  Cards = {cash, days, pack, life}
  Coupons = {k1}
  Plans = {p1}
  None = None
  CardInfo <- MCInfo
  Capacity <- MCCapacity
  StartRows <- MCStart
  Never = 9
  Purchases <- MCPurchases
  Deposits = {1}
  Amounts = {1}
  Edits <- MCEdits
  NamesLimit = 2
  MaxTime = 2
  MaxRequests = 4
INVARIANTS Ledger OncePerCard SeatsSold
PROPERTIES CardsNeverShorten
