\* Two sessions, two tickets, two mails, two nodes and four writes of them, a row or two of every table.
CONSTANTS
  None = None
  a1 = a1
  u1 = u1
  c1 = c1
  g1 = g1
  r1 = r1
  p1 = p1
  y1 = y1
  n1 = n1
  v1 = v1
  v2 = v2
  o1 = o1
  t1 = t1
  m1 = m1
  i1 = i1
  Desks = {s1, s2}
  Clients = {u1, a1}
  Team = {a1}
  Payers = {u1}
  Earners = {u1}
  Chats = {c1, c2, c3}
  WideChats = {c3}
  StartChat <- MCChat
  TicketStatus = 1
  Tickets = {k1, k2}
  MaxMessages = 4
  Mails = {e1, e2}
  Direct = {e2}
  Categories <- MCCategories
  Protected = {"audit"}
  Retention <- MCRetention
  MaxTries = 2
  MaxEvents = 5
  MaxDay = 4
  Nodes = {1, 2}
  Readers = {b1}
  NewNodes <- MCNewNodes
  Patches <- MCPatches
  FormEdits <- MCFormEdits
  Quota = 2
  MaxWrites = 4
  MaxClock = 2
  Clerks = {s3, s4}
  Rows = {g1, r1, p1, y1, n1, v1, v2, o1, t1, m1, i1}
  KindOf <- MCKindOf
  MaxNow = 1
SPECIFICATION Spec
INVARIANTS
  TicketsKept
  MailTold
  
  NotModifiedIsTrue
  NoDangling
PROPERTIES
  
  SecretsSurvive
SYMMETRY Symmetry
CHECK_DEADLOCK FALSE
