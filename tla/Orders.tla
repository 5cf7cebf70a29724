-------------------------------- MODULE Orders --------------------------------
(***************************************************************************)
(* The order life cycle as concurrent PostgreSQL transactions.             *)
(*                                                                         *)
(* A session is one database session at work: an HTTP request of a user,   *)
(* of an administrator or of a payment gateway, or a queue job.  Every     *)
(* session runs one operation at a time, step by step: a read sees the     *)
(* rows committed so far (READ COMMITTED), SELECT ... FOR UPDATE and       *)
(* UPDATE wait for the row's lock, and nothing a session writes is visible *)
(* before its Commit step, which also releases its locks.                  *)
(*                                                                         *)
(* get_db commits after the response has been sent (the exit code of a     *)
(* FastAPI dependency runs then), so where somebody acts on the response   *)
(* the answer is a step of its own before the commit.                      *)
(***************************************************************************)
EXTENDS OrderRows, Functions

CONSTANTS
  Sessions,        \* concurrent database sessions
  StartRows,       \* users at the start
  StartStock,      \* limit_use of the coupons at the start
  StartValue,      \* value of the coupons at the start
  CouponValues,    \* values an administrator may give a coupon
  Imported,        \* rows the orders table holds at the start, status 1
  Deposits,        \* amounts users deposit
  Assignments,     \* orders administrators assign: [user, plan, period, total]
  Fees,            \* handling fee of each payment method
  CommissionEdits, \* commission_status values administrators set
  PendingTimeout,  \* the two hours of order_handle
  MaxTime          \* bound on the clock

ASSUME OrdersAssumption ==
  /\ None \notin Sessions
  /\ IsFiniteSet(Users) /\ IsFiniteSet(OrderIds)
  /\ Users \cap Plans = {} /\ Users \cap Coupons = {} /\ Users \cap OrderIds = {}
  /\ Plans \cap Coupons = {} /\ Plans \cap OrderIds = {}
  /\ Coupons \cap OrderIds = {}
  /\ StartRows \in [Users -> UserRow]
  /\ StartStock \in [Coupons -> Nat]
  /\ StartValue \in [Coupons -> Nat \ {0}]
  /\ CouponValues \subseteq Nat \ {0}
  /\ DOMAIN Imported \subseteq OrderIds
  /\ Imported \in [DOMAIN Imported -> OrderRow]
  /\ Deposits \subseteq Nat \ {0}
  /\ Assignments \subseteq [user : Users, plan : Plans, period : Periods, total : Nat]
  /\ Fees \in [Methods -> [fixed : Nat, percent : Nat]]
  /\ CommissionEdits \subseteq 0..3
  /\ PendingTimeout \in Nat
  /\ MaxTime \in Nat

VARIABLES
  \* committed rows
  status,     \* orders.status, "absent" before the row exists
  orders,     \* the columns of an order fixed at its insertion
  invoice,    \* orders.payment_id and orders.handling_amount
  commission, \* orders.commission_status
  users,      \* users: balance, plan_id, expired_at
  earned,     \* users.commission_balance
  stock,      \* coupon.limit_use
  value,      \* coupon.value
  logs,       \* commission_log
  \* the sessions
  holder,     \* holder[r] is the session that holds the lock of row r
  pc,         \* the next step of a session, "idle" between operations
  cur,        \* the order a session works on
  via,        \* the operation that opens an order: "notify", "request"
  work,       \* what a session has read or decided and not yet written
  \* the world
  now,        \* the clock
  bills,      \* payment pages handed out: what a gateway may notify
  acked,      \* orders a gateway has been answered "success" for
  grants      \* how often an order has been opened and committed

rows == <<status, orders, invoice, commission, users, earned, stock, value, logs>>
session == <<holder, pc, cur, via, work>>
world == <<now, bills, acked, grants>>
vars == <<rows, session, world>>

Rows == OrderIds \cup Users \cup Plans \cup Coupons

Bill == [method : Methods, amount : Nat]

LogRow == [order : OrderIds, user : Users, inviter : Users, amount : Nat]

\* What a session that opens an order carries from the checks to its commit:
\* the new user row, the commission decision and the amount it pays, and the
\* commission balance of the inviter as it was read.
Outcomes == {"keep", "valid", "invalid", "credit"}
Opening == [row : UserRow \cup {None}, outcome : Outcomes,
            seen : Nat, amount : Nat]

Steps == {"idle", "create", "assign", "cancel", "bill", "billed",
          "order", "user", "plan", "coupon", "settle",
          "calc", "inviter", "reply", "commit"}

\* The steps at which a session holds the lock of the order it opens.
Holding == {"user", "plan", "coupon", "settle", "inviter", "reply", "commit"}

Init ==
  /\ status = [o \in OrderIds |-> IF o \in DOMAIN Imported THEN "opening" ELSE "absent"]
  /\ orders = [o \in OrderIds |-> IF o \in DOMAIN Imported THEN Imported[o] ELSE None]
  /\ invoice = [o \in OrderIds |-> [method |-> None, fee |-> 0]]
  /\ commission = [o \in OrderIds |-> 0]
  /\ users = StartRows
  /\ earned = [u \in Users |-> 0]
  /\ stock = StartStock
  /\ value = StartValue
  /\ logs = {}
  /\ holder = [r \in Rows |-> None]
  /\ pc = [s \in Sessions |-> "idle"]
  /\ cur = [s \in Sessions |-> None]
  /\ via = [s \in Sessions |-> "request"]
  /\ work = [s \in Sessions |-> None]
  /\ now = 0
  /\ bills = [o \in OrderIds |-> {}]
  /\ acked = [o \in OrderIds |-> FALSE]
  /\ grants = [o \in OrderIds |-> 0]

-----------------------------------------------------------------------------
(***************************************************************************)
(* Sessions and row locks.                                                 *)
(***************************************************************************)
Free(r) == holder[r] = None

Released(s) == [r \in Rows |-> IF holder[r] = s THEN None ELSE holder[r]]

GoTo(s, step) == pc' = [pc EXCEPT ![s] = step]

\* The session takes the lock of row r and goes on to the next step.
Acquire(s, r, step) ==
  /\ Free(r)
  /\ holder' = [holder EXCEPT ![r] = s]
  /\ GoTo(s, step)

\* The operation is over, committed or rolled back.
Finish(s) ==
  /\ holder' = Released(s)
  /\ GoTo(s, "idle")
  /\ cur' = [cur EXCEPT ![s] = None]
  /\ via' = [via EXCEPT ![s] = "request"]
  /\ work' = [work EXCEPT ![s] = None]

\* A request leaves "idle" for the first step of operation on order o.
Start(s, o, step, how, carry) ==
  /\ pc[s] = "idle"
  /\ GoTo(s, step)
  /\ cur' = [cur EXCEPT ![s] = o]
  /\ via' = [via EXCEPT ![s] = how]
  /\ work' = [work EXCEPT ![s] = carry]
  /\ UNCHANGED <<rows, holder, world>>

\* Mutant: the session is given back to the pool without a rollback.
RollbackLeaks(s) ==
  /\ GoTo(s, "idle")
  /\ cur' = [cur EXCEPT ![s] = None]
  /\ via' = [via EXCEPT ![s] = "request"]
  /\ work' = [work EXCEPT ![s] = None]
  /\ UNCHANGED <<rows, holder, world>>

\* The exception of a failed check rolls the transaction back.
Rollback(s) == Finish(s) /\ UNCHANGED <<rows, world>>

-----------------------------------------------------------------------------
(***************************************************************************)
(* Placing an order.                                                       *)
(***************************************************************************)
HasPendingOrder(u) ==
  \E o \in OrderIds : status[o] = "pending" /\ orders[o].user = u

\* Orders of user u other than o that count as uses of coupon c.
UsesOf(c, u, o) ==
  {x \in OrderIds \ {o} : /\ status[x] \in {"opening", "completed"}
                          /\ orders[x].coupon = c
                          /\ orders[x].user = u}

\* _validate_coupon for an order of user u, o being the order itself or None.
CouponUsable(c, u, p, period, o) ==
  /\ CouponInfo[c].limited => stock[c] > 0
  /\ now <= CouponInfo[c].ends
  /\ <<p, period>> \in CouponInfo[c].offers
  /\ Cardinality(UsesOf(c, u, o)) < CouponInfo[c].perUser

Insert(o, row) ==
  /\ status' = [status EXCEPT ![o] = "pending"]
  /\ orders' = [orders EXCEPT ![o] = row]
  /\ UNCHANGED <<invoice, commission, users, earned, stock, value, logs, world>>

\* create_order: the only look at the user's other orders.
CreateOrder(s, u) ==
  /\ ~HasPendingOrder(u)
  /\ Start(s, None, "create", "request", u)

\* create_order, a deposit.
InsertDeposit(s, o, amount) ==
  /\ pc[s] = "create" /\ status[o] = "absent"
  /\ Insert(o, [user |-> work[s], plan |-> None, period |-> "deposit",
                total |-> amount, balance |-> 0,
                coupon |-> None, discount |-> 0, created |-> now])
  /\ Finish(s)

\* create_order, a plan: the coupon applies first, the balance to the rest.
InsertPurchase(s, o, p, period, c) ==
  LET u == work[s]
      price == Price[<<p, period>>]
      discount == IF c = None THEN 0 ELSE Discount(c, value[c], price)
      covered == FromBalance(users[u], price - discount)
  IN  /\ pc[s] = "create" /\ status[o] = "absent"
      /\ MayBuy(users[u], p, period, now)
      /\ RequiresSlot(users[u], p, period, now) => HasSeat(users, p, now)
      /\ c # None => CouponUsable(c, u, p, period, None) /\ discount > 0
      /\ Insert(o, [user |-> u, plan |-> p, period |-> period,
                    total |-> price - discount - covered, balance |-> covered,
                    coupon |-> c, discount |-> discount, created |-> now])
      /\ Finish(s)

\* create_order raises: no such offer, sold out, coupon refused.
\* (An assignment that finds no key left ends here too: OrderIds is finite.)
CreateRejected(s) ==
  /\ \/ pc[s] = "create"
     \/ pc[s] = "assign" /\ \A o \in OrderIds : status[o] # "absent"
  /\ Rollback(s)

\* admin_assign_order: no capacity check, any amount, any period.
AssignOrder(s, a) ==
  /\ ~HasPendingOrder(a.user)
  /\ Start(s, None, "assign", "request", a)

InsertAssigned(s, o) ==
  LET a == work[s] IN
  /\ pc[s] = "assign" /\ status[o] = "absent"
  /\ Insert(o, [user |-> a.user, plan |-> a.plan, period |-> a.period,
                total |-> a.total, balance |-> 0,
                coupon |-> None, discount |-> 0, created |-> now])
  /\ Finish(s)

-----------------------------------------------------------------------------
(***************************************************************************)
(* Cancelling: the status is read without a lock, and the UPDATE that      *)
(* follows names the row only by its key.                                  *)
(***************************************************************************)
CancelOrder(s, o) ==
  /\ status[o] = "pending"
  /\ Start(s, o, "cancel", "request", None)

AdminCancelOrder(s, o) ==
  /\ status[o] = "pending"
  /\ Start(s, o, "cancel", "request", None)

\* The order_handle job: a stale order is cancelled, a paid one opened.
OrderHandle(s, o) ==
  \/ /\ status[o] = "pending"
     /\ orders[o].created + PendingTimeout <= now
     /\ Start(s, o, "cancel", "request", None)
  \/ /\ status[o] = "opening"
     /\ Start(s, o, "order", "request", None)

CancelWrite(s) ==
  /\ pc[s] = "cancel" /\ Free(cur[s])
  /\ status' = [status EXCEPT ![cur[s]] = "cancelled"]
  /\ Finish(s)
  /\ UNCHANGED <<orders, invoice, commission, users, earned, stock, value,
                 logs, world>>

-----------------------------------------------------------------------------
(***************************************************************************)
(* Paying: checkout hands out a payment page, the gateway calls back.      *)
(***************************************************************************)
HandlingFee(o, m) == Fees[m].fixed + (orders[o].total * Fees[m].percent) \div 100

\* checkout: an order that costs nothing is opened at once.
Checkout(s, o, m) ==
  /\ status[o] = "pending"
  /\ \/ /\ orders[o].total = 0
        /\ Start(s, o, "order", "request", None)
     \/ /\ orders[o].total > 0
        /\ Start(s, o, "bill", "request", m)

\* checkout's UPDATE waits for the row; a fee of zero leaves the old fee.  The
\* page for the resulting amount leaves with the response.
CheckoutBill(s) ==
  LET o == cur[s]
      fee == IF HandlingFee(o, work[s]) > 0 THEN HandlingFee(o, work[s])
                                            ELSE invoice[o].fee
      due == [method |-> work[s], fee |-> fee]
  IN  /\ pc[s] = "bill"
      /\ Acquire(s, o, "billed")
      /\ work' = [work EXCEPT ![s] = due]
      /\ bills' = [bills EXCEPT ![o] =
                     @ \cup {[method |-> due.method, amount |-> orders[o].total + fee]}]
      /\ UNCHANGED <<rows, cur, via, now, acked, grants>>

CheckoutCommit(s) ==
  /\ pc[s] = "billed"
  /\ invoice' = [invoice EXCEPT ![cur[s]] = work[s]]
  /\ Finish(s)
  /\ UNCHANGED <<status, orders, commission, users, earned, stock, value, logs, world>>

\* handle_payment_notify answers "fail" unless the page still matches the order.
Matches(o, b) ==
  /\ invoice[o].method = b.method
  /\ orders[o].total + invoice[o].fee = b.amount

Answer(o) == acked' = [acked EXCEPT ![o] = TRUE]

\* Mutant: the gateway is answered before the order is opened.
NotifyEager(s, o, b) ==
  /\ b \in bills[o] /\ Matches(o, b) /\ pc[s] = "idle"
  /\ IF status[o] \in OpenStatuses
     THEN /\ GoTo(s, "order")
          /\ cur' = [cur EXCEPT ![s] = o]
          /\ UNCHANGED <<holder, via, work>>
     ELSE UNCHANGED session
  /\ Answer(o)
  /\ UNCHANGED <<rows, now, bills, grants>>

\* handle_payment_notify, for a payment page somebody paid; gateways repeat
\* their calls until they are answered "success".
Notify(s, o, b) ==
  /\ b \in bills[o] /\ Matches(o, b)
  /\ \/ /\ status[o] \in OpenStatuses
        /\ Start(s, o, "order", "notify", None)
     \/ /\ status[o] \notin OpenStatuses
        /\ pc[s] = "idle"
        /\ Answer(o)
        /\ UNCHANGED <<rows, session, now, bills, grants>>

AdminMarkPaid(s, o) ==
  /\ status[o] = "pending"
  /\ Start(s, o, "order", "request", None)

-----------------------------------------------------------------------------
(***************************************************************************)
(* Opening a paid order: _process_paid_order.                              *)
(***************************************************************************)
\* Mutant: only a completed order is taken for settled.
OpenUnlessCompleted(o) == status[o] # "completed"

Open(o) == status[o] \in OpenStatuses

\* Mutant: the status read before the lock is trusted.
LockOrderUnchecked(s) ==
  /\ pc[s] = "order"
  /\ Acquire(s, cur[s], "user")
  /\ UNCHANGED <<rows, cur, via, work, world>>

\* The order row is locked and read again; an order that is no longer open
\* ends the operation without an error.
LockOrder(s) ==
  LET o == cur[s] IN
  /\ pc[s] = "order"
  /\ \/ /\ Open(o)
        /\ Acquire(s, o, "user")
        /\ UNCHANGED <<rows, cur, via, work, world>>
     \/ /\ ~Open(o) /\ Free(o)
        /\ IF via[s] = "notify" THEN Answer(o) ELSE UNCHANGED acked
        /\ Finish(s)
        /\ UNCHANGED <<rows, now, bills, grants>>

\* Mutant: the user row is read without FOR UPDATE.
LockUserUnlocked(s) ==
  /\ pc[s] = "user"
  /\ GoTo(s, IF IsDeposit(orders[cur[s]]) THEN "settle" ELSE "plan")
  /\ UNCHANGED <<rows, holder, cur, via, work, world>>

LockUser(s) ==
  /\ pc[s] = "user"
  /\ Acquire(s, orders[cur[s]].user, IF IsDeposit(orders[cur[s]]) THEN "settle" ELSE "plan")
  /\ UNCHANGED <<rows, cur, via, work, world>>

\* Mutant: the seats are counted without locking the plan.
LockPlanUnlocked(s) ==
  LET ord == orders[cur[s]] IN
  /\ pc[s] = "plan"
  /\ RequiresSlot(users[ord.user], ord.plan, ord.period, now) => HasSeat(users, ord.plan, now)
  /\ GoTo(s, IF Consumes(ord) THEN "coupon" ELSE "settle")
  /\ UNCHANGED <<rows, holder, cur, via, work, world>>

\* The plan row serializes the openings that may need one of its seats.
LockPlan(s) ==
  LET ord == orders[cur[s]]
      fits == RequiresSlot(users[ord.user], ord.plan, ord.period, now)
                => HasSeat(users, ord.plan, now)
  IN  /\ pc[s] = "plan"
      /\ \/ /\ fits
            /\ Acquire(s, ord.plan, IF Consumes(ord) THEN "coupon" ELSE "settle")
            /\ UNCHANGED <<rows, cur, via, work, world>>
         \/ /\ ~fits /\ Free(ord.plan)
            /\ Rollback(s)

\* Mutant: the coupon is validated without locking it.
LockCouponUnlocked(s) ==
  LET ord == orders[cur[s]] IN
  /\ pc[s] = "coupon"
  /\ CouponUsable(ord.coupon, ord.user, ord.plan, ord.period, cur[s])
  /\ GoTo(s, "settle")
  /\ UNCHANGED <<rows, holder, cur, via, work, world>>

\* Mutant: the coupon was validated when the order was placed, once for all.
LockCouponUnchecked(s) ==
  /\ pc[s] = "coupon"
  /\ Acquire(s, orders[cur[s]].coupon, "settle")
  /\ UNCHANGED <<rows, cur, via, work, world>>

\* consume_for_paid_order: the coupon must still be good for the same discount.
LockCoupon(s) ==
  LET o == cur[s]
      ord == orders[o]
      good == /\ CouponUsable(ord.coupon, ord.user, ord.plan, ord.period, o)
              /\ Discount(ord.coupon, value[ord.coupon],
                          ord.total + ord.balance + ord.discount) = ord.discount
  IN  /\ pc[s] = "coupon"
      /\ \/ /\ good
            /\ Acquire(s, ord.coupon, "settle")
            /\ UNCHANGED <<rows, cur, via, work, world>>
         \/ /\ ~good /\ Free(ord.coupon)
            /\ Rollback(s)

\* Completed plan orders of the user, this one included.
CompletedPlanOrders(o) ==
  {x \in OrderIds : status[x] = "completed" /\ orders[x].user = orders[o].user
                    /\ orders[x].plan # None} \cup {o}

\* Mutant: commission_status alone says whether a commission was paid.
OutcomeWithoutLog(o) ==
  LET inv == Inviter[orders[o].user] IN
  IF orders[o].plan = None \/ orders[o].total = 0 \/ commission[o] \in {2, 3}
  THEN "keep"
  ELSE IF \/ inv \in {None, orders[o].user}
          \/ FirstTimeOnly /\ Cardinality(CompletedPlanOrders(o)) > 1
          \/ CommissionOn(orders[o].total) = 0
       THEN "invalid"
  ELSE "credit"

\* calculate_for_order: what becomes of the commission of a completed order.
Outcome(o) ==
  LET inv == Inviter[orders[o].user] IN
  IF orders[o].plan = None \/ orders[o].total = 0 \/ commission[o] \in {2, 3}
  THEN "keep"
  ELSE IF \E l \in logs : l.order = o THEN "valid"
  ELSE IF \/ inv \in {None, orders[o].user}
          \/ FirstTimeOnly /\ Cardinality(CompletedPlanOrders(o)) > 1
          \/ CommissionOn(orders[o].total) = 0
       THEN "invalid"
  ELSE "credit"

\* The commission decision as the session will carry it: the balance of the
\* inviter is read here, without a lock.
Decision(o, row) ==
  LET credit == Outcome(o) = "credit" IN
  [row |-> row, outcome |-> Outcome(o),
   seen |-> IF credit THEN earned[Inviter[orders[o].user]] ELSE 0,
   amount |-> IF credit THEN CommissionOn(orders[o].total) ELSE 0]

AfterDecision(s, o) ==
  IF Outcome(o) = "credit" THEN "inviter"
  ELSE IF via[s] = "notify" THEN "reply" ELSE "commit"

Supported(ord) ==
  IsDeposit(ord) \/ ord.period \in SoldPeriods

\* Mutant: the balance set aside when the order was placed is not checked again.
PayableUnchecked(row, ord) == Supported(ord)

Payable(row, ord) == row.balance >= ord.balance /\ Supported(ord)

\* The balance is checked and the subscription computed on the locked rows.
Settle(s) ==
  LET o == cur[s]
      ord == orders[o]
      payable == Payable(users[ord.user], ord)
  IN  /\ pc[s] = "settle"
      /\ \/ /\ payable
            /\ work' = [work EXCEPT ![s] = Decision(o, Fulfilled(users[ord.user], ord, now))]
            /\ GoTo(s, AfterDecision(s, o))
            /\ UNCHANGED <<rows, holder, cur, via, world>>
         \/ /\ ~payable
            /\ Rollback(s)

\* The UPDATE of the inviter's commission balance, an absolute value.
LockInviter(s) ==
  /\ pc[s] = "inviter"
  /\ Acquire(s, Inviter[orders[cur[s]].user], IF via[s] = "notify" THEN "reply" ELSE "commit")
  /\ UNCHANGED <<rows, cur, via, work, world>>

\* The gateway is answered "success" before the transaction commits.
Reply(s) ==
  /\ pc[s] = "reply"
  /\ Answer(cur[s])
  /\ GoTo(s, "commit")
  /\ UNCHANGED <<rows, holder, cur, via, work, now, bills, grants>>

\* The writes of calculate_for_order.
CommissionWrites(o, w) ==
  LET inv == Inviter[orders[o].user] IN
  /\ commission' = [commission EXCEPT ![o] =
       CASE w.outcome = "keep" -> @ [] w.outcome = "invalid" -> 3 [] OTHER -> 2]
  /\ IF w.outcome = "credit"
     THEN /\ earned' = [earned EXCEPT ![inv] = w.seen + w.amount]
          /\ logs' = logs \cup {[order |-> o, user |-> orders[o].user,
                                 inviter |-> inv, amount |-> w.amount]}
     ELSE UNCHANGED <<earned, logs>>

\* One unit of a limited coupon is used up.
StockWrites(ord) ==
  IF Consumes(ord) /\ CouponInfo[ord.coupon].limited
  THEN stock' = [stock EXCEPT ![ord.coupon] = @ - 1]
  ELSE UNCHANGED stock

Commit(s) ==
  LET o == cur[s] IN
  /\ pc[s] = "commit" /\ via[s] # "calc"
  /\ status' = [status EXCEPT ![o] = "completed"]
  /\ users' = [users EXCEPT ![orders[o].user] = work[s].row]
  /\ StockWrites(orders[o])
  /\ CommissionWrites(o, work[s])
  /\ grants' = [grants EXCEPT ![o] = @ + 1]
  /\ Finish(s)
  /\ UNCHANGED <<orders, invoice, value, now, bills, acked>>

-----------------------------------------------------------------------------
(***************************************************************************)
(* The commission job and the administrators' edits.                       *)
(***************************************************************************)
\* calc_commission: recomputes the commission of any order.
CalcCommission(s, o) ==
  /\ status[o] # "absent"
  /\ Start(s, o, "calc", "calc", None)

\* calculate_for_order under the lock of the order; what touches only the
\* order row is written and committed at once.
CalcLock(s) ==
  LET o == cur[s]
      w == Decision(o, None)
  IN  /\ pc[s] = "calc" /\ Free(o)
      /\ \/ /\ status[o] = "completed" /\ w.outcome = "credit"
            /\ Acquire(s, o, "inviter")
            /\ work' = [work EXCEPT ![s] = w]
            /\ UNCHANGED <<rows, cur, via, world>>
         \/ /\ status[o] = "completed" /\ w.outcome # "credit"
            /\ CommissionWrites(o, w)
            /\ Finish(s)
            /\ UNCHANGED <<status, orders, invoice, users, stock, value, world>>
         \/ /\ status[o] # "completed"
            /\ Rollback(s)

CalcCommit(s) ==
  /\ pc[s] = "commit" /\ via[s] = "calc"
  /\ CommissionWrites(cur[s], work[s])
  /\ Finish(s)
  /\ UNCHANGED <<status, orders, invoice, users, stock, value, world>>

\* admin_update_order: the one column its request body may set.
AdminUpdateOrder(o, c) ==
  /\ status[o] # "absent" /\ Free(o)
  /\ commission' = [commission EXCEPT ![o] = c]
  /\ UNCHANGED <<status, orders, invoice, users, earned, stock, value, logs, session, world>>

\* The coupon form of the administration, its value field.
AdminUpdateCoupon(c, v) ==
  /\ Free(c)
  /\ value' = [value EXCEPT ![c] = v]
  /\ UNCHANGED <<status, orders, invoice, commission, users, earned, stock, logs,
                 session, world>>

-----------------------------------------------------------------------------
(***************************************************************************)
(* Failures and time.                                                      *)
(***************************************************************************)
\* The process dies, or the connection is lost: an open transaction is rolled
\* back by the database.
Abort(s) == pc[s] # "idle" /\ Rollback(s)

\* The row lock a session needs for its next step, None if it needs none.
Wanted(s) ==
  CASE pc[s] \in {"cancel", "bill", "order", "calc"} -> cur[s]
    [] pc[s] = "user"    -> orders[cur[s]].user
    [] pc[s] = "plan"    -> orders[cur[s]].plan
    [] pc[s] = "coupon"  -> orders[cur[s]].coupon
    [] pc[s] = "inviter" -> Inviter[orders[cur[s]].user]
    [] OTHER -> None

Waits(s) == Wanted(s) # None /\ ~Free(Wanted(s))

\* A set of sessions each of which waits for a lock another one of them holds.
DeadlockCycle(D) ==
  /\ \A s \in D : Waits(s)
  /\ {holder[Wanted(s)] : s \in D} = D

\* PostgreSQL aborts a session that waits on a cycle it is part of.
DeadlockVictim(s) ==
  /\ \E D \in SUBSET Sessions : s \in D /\ DeadlockCycle(D)
  /\ Rollback(s)

Tick ==
  /\ now < MaxTime
  /\ now' = now + 1
  /\ UNCHANGED <<rows, session, bills, acked, grants>>

-----------------------------------------------------------------------------
Requests(s) ==
  \/ \E u \in Users : CreateOrder(s, u)
  \/ \E a \in Assignments : AssignOrder(s, a)
  \/ \E o \in OrderIds :
       \/ CancelOrder(s, o)
       \/ AdminCancelOrder(s, o)
       \/ OrderHandle(s, o)
       \/ \E m \in Methods : Checkout(s, o, m)
       \/ \E b \in bills[o] : Notify(s, o, b)
       \/ AdminMarkPaid(s, o)
       \/ CalcCommission(s, o)

\* The steps that end the placing of an order.
Inserts(s) ==
  \/ \E o \in OrderIds, amount \in Deposits : InsertDeposit(s, o, amount)
  \/ \E o \in OrderIds, offer \in Offers, c \in Coupons \cup {None} :
       InsertPurchase(s, o, offer[1], offer[2], c)
  \/ \E o \in OrderIds : InsertAssigned(s, o)
  \/ CreateRejected(s)

\* The steps of an operation under way, which the server takes by itself.
Work(s) ==
  \/ CancelWrite(s)
  \/ CheckoutBill(s)
  \/ CheckoutCommit(s)
  \/ LockOrder(s)
  \/ LockUser(s)
  \/ LockPlan(s)
  \/ LockCoupon(s)
  \/ Settle(s)
  \/ LockInviter(s)
  \/ Reply(s)
  \/ Commit(s)
  \/ CalcLock(s)
  \/ CalcCommit(s)

Admin ==
  \/ \E o \in OrderIds, c \in CommissionEdits : AdminUpdateOrder(o, c)
  \/ \E c \in Coupons, v \in CouponValues : AdminUpdateCoupon(c, v)

Next ==
  \/ \E s \in Sessions :
       Requests(s) \/ Inserts(s) \/ Work(s) \/ Abort(s) \/ DeadlockVictim(s)
  \/ Admin
  \/ Tick

Spec == Init /\ [][Next]_vars

(***************************************************************************)
(* Fairness.  A session's statements are executed as long as they are not  *)
(* blocked; a row lock is granted in the order of the requests, so a lock  *)
(* that is free again and again is obtained; the deadlock detector runs    *)
(* after deadlock_timeout.  Users, administrators, gateways, jobs and the  *)
(* clock owe nothing.                                                      *)
(***************************************************************************)
Fairness ==
  \A s \in Sessions : /\ SF_vars(Work(s))
                      /\ WF_vars(Inserts(s))
                      /\ WF_vars(DeadlockVictim(s))

FairSpec == Spec /\ Fairness

-----------------------------------------------------------------------------
(***************************************************************************)
(* Properties.                                                             *)
(***************************************************************************)
\* What the next step of a session finds in its work area.
WorkOK(s) ==
  CASE pc[s] = "create" -> work[s] \in Users
    [] pc[s] = "assign" -> work[s] \in Assignments
    [] pc[s] = "bill"   -> work[s] \in Methods
    [] pc[s] = "billed" -> work[s] \in Invoice
    [] pc[s] \in {"inviter", "reply", "commit"} -> work[s] \in Opening
    [] OTHER -> work[s] = None

RowsOK ==
  /\ status \in [OrderIds -> Statuses]
  /\ orders \in [OrderIds -> OrderRow \cup {None}]
  /\ \A o \in OrderIds : status[o] # "absent" => orders[o] \in OrderRow
  /\ invoice \in [OrderIds -> Invoice]
  /\ commission \in [OrderIds -> 0..3]
  /\ users \in [Users -> UserRow]
  /\ earned \in [Users -> Nat]
  /\ stock \in [Coupons -> Nat]
  /\ value \in [Coupons -> Nat]
  /\ logs \subseteq LogRow

SessionOK ==
  /\ holder \in [Rows -> Sessions \cup {None}]
  /\ pc \in [Sessions -> Steps]
  /\ cur \in [Sessions -> OrderIds \cup {None}]
  /\ via \in [Sessions -> {"notify", "request", "calc"}]
  /\ DOMAIN work = Sessions
  /\ \A s \in Sessions :
       /\ WorkOK(s)
       /\ pc[s] \notin {"idle", "create", "assign"}
            => cur[s] \in OrderIds /\ status[cur[s]] # "absent"

WorldOK ==
  /\ now \in Nat
  /\ bills \in [OrderIds -> SUBSET Bill]
  /\ acked \in [OrderIds -> BOOLEAN]
  /\ grants \in [OrderIds -> Nat]

\* Every variable has its type (no balance or stock below zero), and every
\* session works on a row that exists.
TypeOK == RowsOK /\ SessionOK /\ WorldOK

\* _process_paid_order promises that concurrent callbacks, the scan and manual
\* operations never open the same order twice; and an order is shown as
\* completed exactly when it has been opened, unless a cancellation that had
\* read it as pending overwrote the status later.
OpenedOnce ==
  \A o \in OrderIds :
    /\ grants[o] <= 1
    /\ status[o] = "completed" => grants[o] = 1
    /\ status[o] \in OpenStatuses => grants[o] = 0

Opened == {o \in OrderIds : grants[o] > 0}

\* An opened order whose status a stale cancellation overwrote.
Overwritten == {o \in Opened : status[o] = "cancelled"}

\* The opened orders of a user that bring money, and those that take it.
PaidIn(u) == {o \in Opened : orders[o].user = u /\ IsDeposit(orders[o])}
Bought(u) == {o \in Opened : orders[o].user = u /\ ~IsDeposit(orders[o])}

\* The balance of a user is what it was, plus the deposits and bonuses of the
\* opened orders, minus what the opened orders took from it: no opening loses
\* the update of another one, none deducts twice or what was not there.
BalanceLedger ==
  \A u \in Users :
    users[u].balance
      + SumFunction([o \in Bought(u) |-> grants[o] * orders[o].balance])
    = StartRows[u].balance
      + SumFunction([o \in PaidIn(u) |-> grants[o] * (orders[o].total
                                            + DepositBonus(orders[o].total))])

\* Every opened order that used a limited coupon took one unit of its stock,
\* and nothing else did, so it is never used more often than its limit.
CouponLedger ==
  \A c \in Coupons : CouponInfo[c].limited =>
    LET uses == Cardinality({o \in Opened : Consumes(orders[o]) /\ orders[o].coupon = c}) IN
    stock[c] + uses = StartStock[c] /\ uses <= StartStock[c]

\* The opened orders of a user that used a coupon.
UsedBy(c, u) ==
  {o \in Opened : Consumes(orders[o]) /\ orders[o].coupon = c /\ orders[o].user = u}

\* A user's opened orders respect the coupon's limit per user -- as long as no
\* stale cancellation has hidden one of them from the count.
CouponPerUser ==
  \A c \in Coupons, u \in Users :
    UsedBy(c, u) \cap Overwritten = {} => Cardinality(UsedBy(c, u)) <= CouponInfo[c].perUser

\* With commission_first_time_enable only one order of a user ever pays a
\* commission, again unless a stale cancellation hid a completed order.
FirstOrderOnly ==
  FirstTimeOnly =>
    \A l, other \in logs :
      /\ l.user = other.user
      /\ \A o \in Overwritten : orders[o].user # l.user
      => l = other

LoggedFor(u) == {l \in logs : l.inviter = u}

\* An inviter's commission balance never exceeds what was logged for it, and
\* only an opened order is logged: whatever the commission job and the edits of
\* commission_status do, no order pays its commission twice or too early.
CommissionBacked ==
  /\ \A u \in Users : earned[u] <= SumFunction([l \in LoggedFor(u) |-> l.amount])
  /\ \A l \in logs : grants[l.order] = 1

\* What process_order_commission promises: paid once, backed by a log, and with
\* the first-order setting for one order of a user only.
CommissionRight == CommissionBacked /\ FirstOrderOnly

\* create_order and admin_assign_order refuse a user who has an unpaid order:
\* a user has at most one.
OnePendingOrder ==
  \A o, x \in OrderIds :
    status[o] = "pending" /\ status[x] = "pending" /\ orders[o].user = orders[x].user
      => o = x

\* A gateway that hears "success" stops calling, so it may hear it only when the
\* order is settled or when the answering session holds the order and has
\* nothing left to do but commit: no failed check, no race with a cancellation
\* and no other opening can still come between the answer and the opening.
AnsweredIsSettled ==
  [][\A o \in OrderIds :
       acked'[o] /\ ~acked[o] =>
         \/ status[o] \notin OpenStatuses
         \/ \E s \in Sessions : pc'[s] = "commit" /\ cur'[s] = o /\ holder'[o] = s]_acked

\* What an operation may do to the status of an order.  A cancelled order stays
\* cancelled and is never opened: a cancellation that commits first wins over
\* every payment, and a completed order is never opened again.
StatusMoves ==
  [][\A o \in OrderIds :
       /\ status[o] = "cancelled" => status'[o] = "cancelled" /\ grants'[o] = grants[o]
       /\ status[o] = "completed" => status'[o] \in {"completed", "cancelled"}
                                     /\ grants'[o] = grants[o]
       /\ status[o] \in OpenStatuses => status'[o] # "absent"]_<<status, grants>>

\* Every operation ends: openings that wait for each other's order, user, plan,
\* coupon and inviter rows are not stuck forever.
OperationsEnd == \A s \in Sessions : pc[s] # "idle" ~> pc[s] = "idle"

\* The concurrent transactions implement the contract: seen through committed
\* rows, every opening is one indivisible step out of the current state.
Contract == INSTANCE OrderContract

ImplementsContract == Contract!Spec
=============================================================================
