----------------------------- MODULE OrdersProofs -----------------------------
(***************************************************************************)
(* Theorems about Orders for every value of its constants.                 *)
(***************************************************************************)
EXTENDS Orders, SumTheorems

(***************************************************************************)
(* The inductive invariant.  TypeOK and OpenedOnce are not inductive: that  *)
(* an order is opened once rests on the order row being locked, and still   *)
(* open, from the check to the commit; that a stock stays a natural number  *)
(* rests on the coupon row being locked from the validation to the commit.  *)
(***************************************************************************)
\* A session that opens an order holds its row, and finds it still open.
OrderHeld(s) ==
  pc[s] \in Holding => holder[cur[s]] = s /\ (via[s] # "calc" => Open(cur[s]))

\* From the validation of the coupon to the commit its row is locked and has a
\* unit left.
CouponHeld(s) ==
  LET ord == orders[cur[s]] IN
  pc[s] \in {"settle", "inviter", "reply", "commit"} /\ via[s] # "calc" /\ Consumes(ord) =>
    /\ holder[ord.coupon] = s
    /\ CouponInfo[ord.coupon].limited => stock[ord.coupon] > 0

\* What a session is about to commit: a user row, and a commission only to an
\* inviter that exists.
WorkSound(s) ==
  pc[s] \in {"inviter", "reply", "commit"} =>
    /\ via[s] # "calc" => work[s].row \in UserRow
    /\ work[s].outcome = "credit" => Inviter[orders[cur[s]].user] \in Users

SessionInv(s) ==
  /\ OrderHeld(s)
  /\ CouponHeld(s)
  /\ WorkSound(s)
  /\ pc[s] = "calc" => via[s] = "calc"

AbsentUnopened == \A o \in OrderIds : status[o] = "absent" => grants[o] = 0

IInv ==
  /\ TypeOK
  /\ \A s \in Sessions : SessionInv(s)
  /\ OpenedOnce
  /\ AbsentUnopened

\* _deposit_bonus gives an amount, whatever the tiers.
LEMMA DepositBonusType ==
  ASSUME NEW total \in Nat PROVE DepositBonus(total) \in Nat
<1> DEFINE reached == {tier \in Tiers : total >= tier[1]}
<1>1. CASE reached = {}
  BY <1>1 DEF DepositBonus
<1>2. CASE reached # {}
  <2>1. reached \in SUBSET Tiers
    OBVIOUS
  <2>2. \E x \in reached : \A y \in reached : y[2] <= x[2]
    BY <1>2, <2>1, RowsAssumption
  <2>3. (CHOOSE x \in reached : \A y \in reached : y[2] <= x[2]) \in Nat \X Nat
    BY <2>1, <2>2, RowsAssumption
  <2> QED BY <1>2, <2>3 DEF DepositBonus
<1> QED BY <1>1, <1>2

\* calculate_discount never takes off more than the amount.
LEMMA DiscountType ==
  ASSUME NEW c \in Coupons, NEW v \in Nat, NEW amount \in Nat
  PROVE  Discount(c, v, amount) \in Nat /\ Discount(c, v, amount) <= amount
<1>1. (amount * v) \in Nat
  OBVIOUS
<1>2. (amount * v) \div 100 \in Nat
  BY <1>1
<1> QED BY <1>2 DEF Discount, Least

\* The opening of an order whose balance is covered leaves a sound user row.
LEMMA FulfilledType ==
  ASSUME NEW row \in UserRow, NEW ord \in OrderRow, NEW t \in Nat,
         Payable(row, ord)
  PROVE  Fulfilled(row, ord, t) \in UserRow
<1>1. CASE IsDeposit(ord)
  <2>1. ord.total \in Nat /\ row.balance \in Nat
    BY DEF OrderRow, UserRow
  <2>2. row.balance + ord.total + DepositBonus(ord.total) \in Nat
    BY <2>1, DepositBonusType
  <2> QED BY <1>1, <2>2 DEF Fulfilled, UserRow
<1>2. CASE ~IsDeposit(ord)
  <2>1. /\ row.balance - ord.balance \in Nat
        /\ ord.plan \in Plans \cup {None}
        /\ row.expired \in Nat /\ Never \in Nat
    BY RowsAssumption DEF Payable, UserRow, OrderRow
  <2>2. CASE ord.period \in {"reset_price", "onetime_price"}
    BY <1>2, <2>1, <2>2 DEF Fulfilled, UserRow
  <2>3. CASE ord.period \notin {"reset_price", "onetime_price"}
    <3>1. PeriodTicks[ord.period] \in Nat
      BY <1>2, <2>3, RowsAssumption DEF Payable, Supported, SoldPeriods, RecurringPeriods
    <3>2. AddPeriod(row.expired, ord.period, t) \in Nat
      BY <2>1, <3>1 DEF AddPeriod
    <3> QED BY <1>2, <2>1, <2>3, <3>2 DEF Fulfilled, UserRow
  <2> QED BY <2>2, <2>3
<1> QED BY <1>1, <1>2
-----------------------------------------------------------------------------
(***************************************************************************)
(* What the steps of a session have in common.                             *)
(***************************************************************************)
\* A lock that is free is held by no session.
LEMMA NobodyIsNone == None \notin Sessions
BY OrdersAssumption

\* An operation that begins touches nothing but its session.
LEMMA StartKeeps ==
  ASSUME IInv, NEW s \in Sessions, NEW o, NEW step, NEW how, NEW carry,
         Start(s, o, step, how, carry),
         how \in {"notify", "request", "calc"},
         \/ o = None /\ step = "create" /\ carry \in Users
         \/ o = None /\ step = "assign" /\ carry \in Assignments
         \/ /\ o \in OrderIds /\ status[o] # "absent"
            /\ \/ step = "bill" /\ carry \in Methods
               \/ step \in {"cancel", "order"} /\ carry = None
               \/ step = "calc" /\ how = "calc" /\ carry = None
  PROVE  IInv'
<1>1. /\ UNCHANGED <<rows, holder, world>>
      /\ pc' = [pc EXCEPT ![s] = step] /\ cur' = [cur EXCEPT ![s] = o]
      /\ via' = [via EXCEPT ![s] = how] /\ work' = [work EXCEPT ![s] = carry]
      /\ step \in Steps /\ o \in OrderIds \cup {None}
  BY DEF Start, GoTo, Steps
<1>2. RowsOK' /\ WorldOK'
  BY <1>1 DEF IInv, TypeOK, RowsOK, WorldOK, rows, world
<1>3. SessionOK'
  <2>1. SessionOK
    BY DEF IInv, TypeOK
  <2>2. ASSUME NEW x \in Sessions
        PROVE  /\ WorkOK(x)'
               /\ pc'[x] \notin {"idle", "create", "assign"}
                    => cur'[x] \in OrderIds /\ status'[cur'[x]] # "absent"
    <3>1. CASE x = s
      BY <1>1, <2>1, <3>1 DEF SessionOK, WorkOK, rows
    <3>2. CASE x # s
      BY <1>1, <2>1, <3>2 DEF SessionOK, WorkOK, rows
    <3> QED BY <3>1, <3>2
  <2> QED BY <1>1, <2>1, <2>2 DEF SessionOK
<1>4. ASSUME NEW x \in Sessions PROVE SessionInv(x)'
  <2>1. SessionInv(x) /\ SessionOK
    BY DEF IInv, TypeOK
  <2>2. CASE x = s
    BY <1>1, <2>1, <2>2
       DEF SessionOK, SessionInv, OrderHeld, CouponHeld, WorkSound, Holding
  <2>3. CASE x # s
    BY <1>1, <2>1, <2>3
       DEF SessionOK, SessionInv, OrderHeld, CouponHeld, WorkSound, Open, rows
  <2> QED BY <2>2, <2>3
<1>5. OpenedOnce' /\ AbsentUnopened'
  BY <1>1 DEF IInv, OpenedOnce, AbsentUnopened, rows, world
<1> QED BY <1>2, <1>3, <1>4, <1>5 DEF IInv, TypeOK

\* An operation that ends may write rows nobody else has locked; what the
\* other sessions rely on stays.
LEMMA FinishKeeps ==
  ASSUME IInv, NEW s \in Sessions, Finish(s), RowsOK', WorldOK',
         \A x \in OrderIds : status[x] # "absent" =>
           /\ status'[x] # "absent" /\ orders'[x] = orders[x]
           /\ holder[x] \notin {s, None} => status'[x] = status[x],
         \A c \in Coupons : holder[c] \notin {s, None} => stock'[c] = stock[c],
         OpenedOnce', AbsentUnopened'
  PROVE  IInv'
<1>1. /\ holder' = Released(s)
      /\ pc' = [pc EXCEPT ![s] = "idle"] /\ cur' = [cur EXCEPT ![s] = None]
      /\ via' = [via EXCEPT ![s] = "request"] /\ work' = [work EXCEPT ![s] = None]
  BY DEF Finish, GoTo
<1>2. SessionOK
  BY DEF IInv, TypeOK
<1>3. holder' \in [Rows -> Sessions \cup {None}]
  BY <1>1, <1>2 DEF SessionOK, Released
<1>4. ASSUME NEW x \in Sessions
      PROVE  /\ WorkOK(x)'
             /\ pc'[x] \notin {"idle", "create", "assign"}
                  => cur'[x] \in OrderIds /\ status'[cur'[x]] # "absent"
  <2>1. CASE x = s
    BY <1>1, <1>2, <2>1 DEF SessionOK, WorkOK
  <2>2. CASE x # s
    BY <1>1, <1>2, <2>2 DEF SessionOK, WorkOK
  <2> QED BY <2>1, <2>2
<1>5. SessionOK'
  BY <1>1, <1>2, <1>3, <1>4 DEF SessionOK, Steps
<1>6. ASSUME NEW x \in Sessions PROVE SessionInv(x)'
  <2>1. CASE pc'[x] = "idle"
    BY <2>1 DEF SessionInv, OrderHeld, CouponHeld, WorkSound, Holding
  <2>2. CASE pc'[x] # "idle"
    <3>1. /\ x # s /\ pc'[x] = pc[x] /\ cur'[x] = cur[x] /\ via'[x] = via[x]
          /\ work'[x] = work[x]
      BY <1>1, <1>2, <2>2 DEF SessionOK
    <3>2. pc[x] \notin {"create", "assign"} =>
            /\ cur[x] \in OrderIds /\ status[cur[x]] # "absent"
            /\ orders[cur[x]] \in OrderRow /\ orders'[cur[x]] = orders[cur[x]]
      BY <1>2, <2>2, <3>1 DEF SessionOK, IInv, TypeOK, RowsOK
    <3>3. \A r \in Rows : holder[r] = x => holder'[r] = x /\ holder[r] \notin {s, None}
      BY <1>1, <3>1, NobodyIsNone DEF Released
    <3>4. SessionInv(x)
      BY DEF IInv
    <3>5. OrderHeld(x)'
      BY <3>1, <3>2, <3>3, <3>4 DEF SessionInv, OrderHeld, Open, Rows, Holding
    <3>6. CouponHeld(x)'
      <4>1. Consumes(orders[cur[x]]) /\ orders[cur[x]] \in OrderRow
              => orders[cur[x]].coupon \in Coupons
        BY DEF Consumes, OrderRow
      <4> QED BY <3>1, <3>2, <3>3, <3>4, <4>1 DEF SessionInv, CouponHeld, Rows
    <3>7. WorkSound(x)' /\ (pc'[x] = "calc" => via'[x] = "calc")
      BY <3>1, <3>2, <3>4 DEF SessionInv, WorkSound
    <3> QED BY <3>5, <3>6, <3>7 DEF SessionInv
  <2> QED BY <2>1, <2>2
<1> QED BY <1>5, <1>6 DEF IInv, TypeOK

\* A rollback only frees locks.
LEMMA RollbackKeeps ==
  ASSUME IInv, NEW s \in Sessions, Rollback(s) PROVE IInv'
<1>1. Finish(s) /\ UNCHANGED <<rows, world>>
  BY DEF Rollback
<1>2. RowsOK' /\ WorldOK' /\ OpenedOnce' /\ AbsentUnopened'
  BY <1>1 DEF IInv, TypeOK, RowsOK, WorldOK, OpenedOnce, AbsentUnopened, rows, world
<1>3. UNCHANGED <<status, orders, stock>>
  BY <1>1 DEF rows
<1> QED BY <1>1, <1>2, <1>3, FinishKeeps

\* A session goes on to its next lock or to its answer.
LEMMA MoveKeeps ==
  ASSUME IInv, NEW s \in Sessions, NEW step \in Steps, GoTo(s, step),
         pc[s] \notin {"idle", "create", "assign"},
         UNCHANGED <<rows, cur, via>>, WorldOK', UNCHANGED grants,
         \/ UNCHANGED holder
         \/ \E r : Free(r) /\ holder' = [holder EXCEPT ![r] = s],
         DOMAIN work' = Sessions, \A x \in Sessions \ {s} : work'[x] = work[x],
         WorkOK(s)', SessionInv(s)'
  PROVE  IInv'
<1>1. SessionOK /\ pc' = [pc EXCEPT ![s] = step]
  BY DEF IInv, TypeOK, GoTo
<1>2. holder' \in [Rows -> Sessions \cup {None}]
  BY <1>1 DEF SessionOK
<1>3. SessionOK'
  <2>1. ASSUME NEW x \in Sessions
        PROVE  /\ WorkOK(x)'
               /\ pc'[x] \notin {"idle", "create", "assign"}
                    => cur'[x] \in OrderIds /\ status'[cur'[x]] # "absent"
    <3>1. CASE x = s
      BY <1>1, <3>1 DEF SessionOK, rows
    <3>2. CASE x # s
      BY <1>1, <3>2 DEF SessionOK, WorkOK, rows
    <3> QED BY <3>1, <3>2
  <2> QED BY <1>1, <1>2, <2>1 DEF SessionOK
<1>4. ASSUME NEW x \in Sessions, x # s PROVE SessionInv(x)'
  <2>1. SessionInv(x) /\ pc'[x] = pc[x] /\ work'[x] = work[x]
    BY <1>1, <1>4 DEF IInv, SessionOK
  <2>2. \A r \in Rows : holder[r] = x => holder'[r] = x
    BY <1>1, NobodyIsNone DEF Free, SessionOK
  <2>3. pc[x] \notin {"idle", "create", "assign"} =>
          cur[x] \in OrderIds /\ orders[cur[x]] \in OrderRow
    BY <1>1 DEF SessionOK, IInv, TypeOK, RowsOK
  <2>4. OrderHeld(x)'
    BY <2>1, <2>2, <2>3 DEF SessionInv, OrderHeld, Open, Rows, rows, Holding
  <2>5. CouponHeld(x)'
    <3>1. Consumes(orders[cur[x]]) /\ orders[cur[x]] \in OrderRow
            => orders[cur[x]].coupon \in Coupons
      BY DEF Consumes, OrderRow
    <3> QED BY <2>1, <2>2, <2>3, <3>1 DEF SessionInv, CouponHeld, Rows, rows
  <2>6. WorkSound(x)' /\ (pc'[x] = "calc" => via'[x] = "calc")
    BY <2>1 DEF SessionInv, WorkSound, rows
  <2> QED BY <2>4, <2>5, <2>6 DEF SessionInv
<1>5. RowsOK' /\ OpenedOnce' /\ AbsentUnopened'
  BY DEF IInv, TypeOK, RowsOK, OpenedOnce, AbsentUnopened, rows
<1> QED BY <1>3, <1>4, <1>5 DEF IInv, TypeOK

\* What is done outside the sessions.
LEMMA OutsideKeeps ==
  ASSUME IInv, RowsOK', WorldOK', UNCHANGED <<session, status, orders, stock, grants>>
  PROVE  IInv'
<1>1. SessionOK'
  BY DEF IInv, TypeOK, SessionOK, WorkOK, session
<1>2. \A s \in Sessions : SessionInv(s)'
  BY DEF IInv, SessionInv, OrderHeld, CouponHeld, WorkSound, Open, session
<1>3. OpenedOnce' /\ AbsentUnopened'
  BY DEF IInv, OpenedOnce, AbsentUnopened
<1> QED BY <1>1, <1>2, <1>3 DEF IInv, TypeOK

-----------------------------------------------------------------------------
(***************************************************************************)
(* The steps, one lemma per group of actions.                              *)
(***************************************************************************)
\* A request that begins keeps the invariant.
LEMMA RequestsKeep ==
  ASSUME IInv, NEW s \in Sessions, Requests(s) PROVE IInv'
<1>1. ASSUME NEW u \in Users, CreateOrder(s, u) PROVE IInv'
  BY <1>1, StartKeeps DEF CreateOrder
<1>2. ASSUME NEW a \in Assignments, AssignOrder(s, a) PROVE IInv'
  BY <1>2, StartKeeps DEF AssignOrder
<1>3. ASSUME NEW o \in OrderIds, CancelOrder(s, o) \/ AdminCancelOrder(s, o) PROVE IInv'
  BY <1>3, StartKeeps DEF CancelOrder, AdminCancelOrder
<1>4. ASSUME NEW o \in OrderIds, OrderHandle(s, o) PROVE IInv'
  BY <1>4, StartKeeps DEF OrderHandle
<1>5. ASSUME NEW o \in OrderIds, NEW m \in Methods, Checkout(s, o, m) PROVE IInv'
  BY <1>5, StartKeeps DEF Checkout
<1>6. ASSUME NEW o \in OrderIds, NEW b \in bills[o], Notify(s, o, b) PROVE IInv'
  <2>1. CASE status[o] \in OpenStatuses
    BY <1>6, <2>1, StartKeeps DEF Notify, OpenStatuses
  <2>2. CASE status[o] \notin OpenStatuses
    <3>1. Answer(o) /\ UNCHANGED <<rows, session, now, bills, grants>>
      BY <1>6, <2>2 DEF Notify
    <3>2. RowsOK' /\ WorldOK'
      BY <3>1 DEF IInv, TypeOK, RowsOK, WorldOK, rows, Answer
    <3> QED BY <3>1, <3>2, OutsideKeeps DEF rows
  <2> QED BY <2>1, <2>2
<1>7. ASSUME NEW o \in OrderIds, AdminMarkPaid(s, o) PROVE IInv'
  BY <1>7, StartKeeps DEF AdminMarkPaid
<1>8. ASSUME NEW o \in OrderIds, CalcCommission(s, o) PROVE IInv'
  BY <1>8, StartKeeps DEF CalcCommission
<1> QED BY <1>1, <1>2, <1>3, <1>4, <1>5, <1>6, <1>7, <1>8 DEF Requests

\* A new order row is nobody's yet.
LEMMA InsertKeeps ==
  ASSUME IInv, NEW s \in Sessions, NEW o \in OrderIds, NEW row \in OrderRow,
         status[o] = "absent", Insert(o, row), Finish(s)
  PROVE  IInv'
<1>1. RowsOK' /\ WorldOK'
  BY DEF Insert, IInv, TypeOK, RowsOK, WorldOK, world, Statuses
<1>2. OpenedOnce' /\ AbsentUnopened'
  BY DEF Insert, IInv, TypeOK, RowsOK, OpenedOnce, AbsentUnopened, world, OpenStatuses
<1>3. \A x \in OrderIds : status[x] # "absent" =>
        status'[x] = status[x] /\ orders'[x] = orders[x]
  BY DEF Insert, IInv, TypeOK, RowsOK
<1>4. UNCHANGED stock
  BY DEF Insert
<1> QED BY <1>1, <1>2, <1>3, <1>4, FinishKeeps

\* create_order and admin_assign_order keep the invariant, rejected or not.
LEMMA InsertsKeep ==
  ASSUME IInv, NEW s \in Sessions, Inserts(s) PROVE IInv'
<1>1. /\ now \in Nat /\ WorkOK(s) /\ users \in [Users -> UserRow]
      /\ value \in [Coupons -> Nat]
  BY DEF IInv, TypeOK, SessionOK, WorldOK, RowsOK
<1>2. ASSUME NEW o \in OrderIds, NEW amount \in Deposits, InsertDeposit(s, o, amount)
      PROVE  IInv'
  <2>1. work[s] \in Users /\ amount \in Nat
    BY <1>1, <1>2, OrdersAssumption DEF InsertDeposit, WorkOK
  <2>2. [user |-> work[s], plan |-> None, period |-> "deposit", total |-> amount,
         balance |-> 0, coupon |-> None, discount |-> 0, created |-> now] \in OrderRow
    <3>1. "deposit" \in Periods
      BY DEF Periods
    <3> QED BY <1>1, <2>1, <3>1 DEF OrderRow
  <2> QED BY <1>2, <2>2, InsertKeeps DEF InsertDeposit
<1>3. ASSUME NEW o \in OrderIds, NEW offer \in Offers, NEW c \in Coupons \cup {None},
             InsertPurchase(s, o, offer[1], offer[2], c)
      PROVE  IInv'
  <2> DEFINE u == work[s]
             p == offer[1]
             period == offer[2]
             price == Price[<<p, period>>]
             discount == IF c = None THEN 0 ELSE Discount(c, value[c], price)
             covered == FromBalance(users[u], price - discount)
             row == [user |-> u, plan |-> p, period |-> period,
                     total |-> price - discount - covered, balance |-> covered,
                     coupon |-> c, discount |-> discount, created |-> now]
  <2>1. u \in Users /\ users[u].balance \in Nat
    BY <1>1, <1>3 DEF InsertPurchase, WorkOK, UserRow
  <2>2. <<p, period>> = offer /\ p \in Plans /\ period \in Periods /\ price \in Nat
    <3>1. offer \in Plans \X SoldPeriods
      BY RowsAssumption
    <3>2. <<p, period>> = offer /\ p \in Plans /\ period \in SoldPeriods
      BY <3>1
    <3>3. Price[offer] \in Nat
      BY RowsAssumption
    <3> QED BY <3>2, <3>3 DEF Periods
  <2>3. discount \in Nat /\ discount <= price
    <3> HIDE DEF price
    <3> QED BY <1>1, <2>2, DiscountType
  <2>4. covered \in Nat /\ covered <= price - discount
    <3> HIDE DEF price, discount
    <3> QED BY <2>1, <2>2, <2>3 DEF FromBalance, Least
  <2>5. row \in OrderRow
    <3> HIDE DEF price, discount, covered, u, p, period
    <3>1. price - discount - covered \in Nat
      BY <2>2, <2>3, <2>4
    <3> QED BY <1>1, <2>1, <2>2, <2>3, <2>4, <3>1 DEF OrderRow
  <2>6. status[o] = "absent" /\ Insert(o, row) /\ Finish(s)
    BY <1>3 DEF InsertPurchase
  <2> QED BY <2>5, <2>6, InsertKeeps
<1>4. ASSUME NEW o \in OrderIds, InsertAssigned(s, o) PROVE IInv'
  <2>1. work[s] \in Assignments
    BY <1>1, <1>4 DEF InsertAssigned, WorkOK
  <2>2. [user |-> work[s].user, plan |-> work[s].plan, period |-> work[s].period,
         total |-> work[s].total, balance |-> 0, coupon |-> None, discount |-> 0,
         created |-> now] \in OrderRow
    BY <1>1, <2>1, OrdersAssumption DEF OrderRow
  <2> QED BY <1>4, <2>2, InsertKeeps DEF InsertAssigned
<1>5. CASE CreateRejected(s)
  BY <1>5, RollbackKeeps DEF CreateRejected
<1> QED BY <1>2, <1>3, <1>4, <1>5 DEF Inserts

\* The edits of an administrator and the clock keep the invariant.
LEMMA OutsideSteps ==
  ASSUME IInv, Admin \/ Tick PROVE IInv'
<1>1. ASSUME NEW o \in OrderIds, NEW c \in CommissionEdits, AdminUpdateOrder(o, c)
      PROVE  IInv'
  <2>1. RowsOK' /\ WorldOK'
    BY <1>1, OrdersAssumption DEF AdminUpdateOrder, IInv, TypeOK, RowsOK, WorldOK, world
  <2> QED BY <1>1, <2>1, OutsideKeeps DEF AdminUpdateOrder, world
<1>2. ASSUME NEW c \in Coupons, NEW v \in CouponValues, AdminUpdateCoupon(c, v)
      PROVE  IInv'
  <2>1. RowsOK' /\ WorldOK'
    BY <1>2, OrdersAssumption DEF AdminUpdateCoupon, IInv, TypeOK, RowsOK, WorldOK, world
  <2> QED BY <1>2, <2>1, OutsideKeeps DEF AdminUpdateCoupon, world
<1>3. CASE Tick
  <2>1. RowsOK' /\ WorldOK'
    BY <1>3 DEF Tick, IInv, TypeOK, RowsOK, WorldOK, rows
  <2> QED BY <1>3, <2>1, OutsideKeeps DEF Tick, rows
<1> QED BY <1>1, <1>2, <1>3 DEF Admin

\* Facts about a session in the middle of an operation.
LEMMA AtWork ==
  ASSUME IInv, NEW s \in Sessions, pc[s] \notin {"idle", "create", "assign"}
  PROVE  /\ SessionInv(s) /\ WorkOK(s) /\ DOMAIN work = Sessions
         /\ cur[s] \in OrderIds /\ cur[s] \in Rows /\ status[cur[s]] # "absent"
         /\ orders[cur[s]] \in OrderRow /\ orders[cur[s]].user \in Users
         /\ users[orders[cur[s]].user] \in UserRow
         /\ via[s] \in {"notify", "request", "calc"}
<1>1. RowsOK /\ SessionOK /\ SessionInv(s)
  BY DEF IInv, TypeOK
<1>2. cur[s] \in OrderIds /\ status[cur[s]] # "absent"
  BY <1>1 DEF SessionOK
<1>3. orders[cur[s]] \in OrderRow
  BY <1>1, <1>2 DEF RowsOK
<1>4. orders[cur[s]].user \in Users
  BY <1>3 DEF OrderRow
<1> QED BY <1>1, <1>2, <1>3, <1>4 DEF RowsOK, SessionOK, Rows

\* What calculate_for_order decides is something the commit can write.
LEMMA DecisionType ==
  ASSUME IInv, NEW s \in Sessions, pc[s] \notin {"idle", "create", "assign"},
         NEW row \in UserRow \cup {None}
  PROVE  LET w == Decision(cur[s], row) IN
         /\ w \in Opening /\ w.row = row
         /\ w.outcome = "credit" => Inviter[orders[cur[s]].user] \in Users
<1> DEFINE o == cur[s]
           inv == Inviter[orders[o].user]
<1>1. orders[o] \in OrderRow /\ orders[o].user \in Users /\ inv \in Users \cup {None}
  BY AtWork, RowsAssumption
<1>2. Outcome(o) \in Outcomes /\ (Outcome(o) = "credit" => inv # None)
  BY DEF Outcome, Outcomes
<1>3. CommissionOn(orders[o].total) \in Nat
  <2>1. orders[o].total \in Nat /\ Rate \in Nat
    BY <1>1, RowsAssumption DEF OrderRow
  <2>2. orders[o].total * Rate \in Nat
    BY <2>1
  <2> QED BY <2>2 DEF CommissionOn
<1>4. Outcome(o) = "credit" => earned[inv] \in Nat
  BY <1>1, <1>2 DEF IInv, TypeOK, RowsOK
<1> DEFINE w == Decision(o, row)
<1>5. w.row = row /\ w.outcome = Outcome(o)
  BY DEF Decision
<1>6. w \in Opening
  BY <1>2, <1>3, <1>4 DEF Decision, Opening
<1> QED BY <1>1, <1>2, <1>5, <1>6

\* A late cancellation waits for the order row, so it never hits an opening
\* under way.
LEMMA CancelKeeps ==
  ASSUME IInv, NEW s \in Sessions, CancelWrite(s) PROVE IInv'
<1>1. /\ cur[s] \in OrderIds /\ holder[cur[s]] = None /\ Finish(s)
      /\ status[cur[s]] # "absent"
      /\ status' = [status EXCEPT ![cur[s]] = "cancelled"]
      /\ UNCHANGED <<orders, invoice, commission, users, earned, stock, value, logs, world>>
  BY AtWork DEF CancelWrite, Free
<1>2. RowsOK' /\ WorldOK'
  BY <1>1 DEF IInv, TypeOK, RowsOK, WorldOK, world, Statuses
<1>3. OpenedOnce' /\ AbsentUnopened'
  BY <1>1 DEF IInv, TypeOK, RowsOK, OpenedOnce, AbsentUnopened, world, OpenStatuses
<1>4. \A x \in OrderIds : status[x] # "absent" =>
        /\ status'[x] # "absent" /\ orders'[x] = orders[x]
        /\ holder[x] # None => status'[x] = status[x]
  BY <1>1 DEF IInv, TypeOK, RowsOK
<1> QED BY <1>1, <1>2, <1>3, <1>4, FinishKeeps

\* checkout keeps the invariant: it holds the order row while it bills.
LEMMA CheckoutKeeps ==
  ASSUME IInv, NEW s \in Sessions, CheckoutBill(s) \/ CheckoutCommit(s) PROVE IInv'
<1>1. CASE CheckoutBill(s)
  <2> DEFINE o == cur[s]
             fee == IF HandlingFee(o, work[s]) > 0 THEN HandlingFee(o, work[s])
                                                   ELSE invoice[o].fee
             due == [method |-> work[s], fee |-> fee]
  <2>1. /\ pc[s] = "bill" /\ Acquire(s, o, "billed")
        /\ work' = [work EXCEPT ![s] = due]
        /\ bills' = [bills EXCEPT ![o] =
             @ \cup {[method |-> due.method, amount |-> orders[o].total + fee]}]
        /\ UNCHANGED <<rows, cur, via, now, acked, grants>>
    BY <1>1 DEF CheckoutBill
  <2>2. work[s] \in Methods /\ o \in OrderIds /\ orders[o].total \in Nat
    BY <2>1, AtWork DEF WorkOK, OrderRow
  <2>3. fee \in Nat
    <3>1. invoice[o].fee \in Nat
      BY <2>2 DEF IInv, TypeOK, RowsOK, Invoice
    <3>2. Fees[work[s]].fixed \in Nat /\ Fees[work[s]].percent \in Nat
      BY <2>2, OrdersAssumption
    <3>3. orders[o].total * Fees[work[s]].percent \in Nat
      BY <2>2, <3>2
    <3>4. HandlingFee(o, work[s]) \in Nat
      BY <3>2, <3>3 DEF HandlingFee
    <3> QED BY <3>1, <3>4
  <2> HIDE DEF fee
  <2>4. due \in Invoice /\ [method |-> due.method, amount |-> orders[o].total + fee] \in Bill
    BY <2>2, <2>3 DEF Invoice, Bill
  <2> HIDE DEF due
  <2>5. WorldOK'
    BY <2>1, <2>2, <2>4 DEF IInv, TypeOK, WorldOK
  <2>6. WorkOK(s)' /\ SessionInv(s)'
    BY <2>1, <2>4, AtWork DEF Acquire, GoTo, WorkOK, SessionInv, OrderHeld, CouponHeld,
       WorkSound, Holding, IInv, TypeOK, SessionOK
  <2>7. DOMAIN work' = Sessions /\ \A x \in Sessions \ {s} : work'[x] = work[x]
    BY <2>1, AtWork
  <2> QED BY <2>1, <2>5, <2>6, <2>7, MoveKeeps DEF Acquire, Steps
<1>2. CASE CheckoutCommit(s)
  <2>1. pc[s] = "billed" /\ cur[s] \in OrderIds /\ work[s] \in Invoice
    BY <1>2, AtWork DEF CheckoutCommit, WorkOK
  <2>2. RowsOK' /\ WorldOK'
    BY <1>2, <2>1 DEF CheckoutCommit, IInv, TypeOK, RowsOK, WorldOK, world
  <2>3. OpenedOnce' /\ AbsentUnopened'
    BY <1>2 DEF CheckoutCommit, IInv, OpenedOnce, AbsentUnopened, world
  <2>4. Finish(s) /\ UNCHANGED <<status, orders, stock>>
    BY <1>2 DEF CheckoutCommit
  <2> QED BY <2>2, <2>3, <2>4, FinishKeeps
<1> QED BY <1>1, <1>2

\* A lock step that carries nothing: the order stays held, nothing is decided.
LEMMA LockKeeps ==
  ASSUME IInv, NEW s \in Sessions, NEW r, NEW step \in {"user", "plan", "coupon", "settle"},
         pc[s] \in {"order", "user", "plan", "coupon"}, Acquire(s, r, step),
         UNCHANGED <<rows, cur, via, work, world>>,
         pc[s] = "order" => r = cur[s] /\ Open(cur[s]),
         step = "settle" /\ Consumes(orders[cur[s]]) =>
           /\ r = orders[cur[s]].coupon
           /\ CouponInfo[r].limited => stock[r] > 0
  PROVE  IInv'
<1>1. /\ Free(r) /\ holder' = [holder EXCEPT ![r] = s] /\ GoTo(s, step)
      /\ pc' = [pc EXCEPT ![s] = step] /\ step \in Steps
      /\ pc \in [Sessions -> Steps] /\ holder \in [Rows -> Sessions \cup {None}]
  BY DEF Acquire, GoTo, Steps, IInv, TypeOK, SessionOK
<1>2. WorldOK'
  BY DEF IInv, TypeOK, WorldOK, world
<1>3. WorkOK(s)'
  BY <1>1, AtWork DEF WorkOK
<1>4. OrderHeld(s)'
  <2>1. CASE pc[s] = "order"
    BY <1>1, <2>1, AtWork DEF OrderHeld, Open, rows
  <2>2. CASE pc[s] # "order"
    <3>1. holder[cur[s]] = s /\ (via[s] # "calc" => Open(cur[s]))
      BY <2>2, AtWork DEF SessionInv, OrderHeld, Holding
    <3>2. holder'[cur[s]] = s
      BY <1>1, <3>1, AtWork DEF Free
    <3> QED BY <1>1, <3>1, <3>2 DEF OrderHeld, Open, rows
  <2> QED BY <2>1, <2>2
<1>5. CouponHeld(s)'
  <2>1. Consumes(orders[cur[s]]) => orders[cur[s]].coupon \in Rows
    BY AtWork DEF Consumes, OrderRow, Rows
  <2> QED BY <1>1, <2>1 DEF CouponHeld, rows
<1>6. SessionInv(s)'
  BY <1>1, <1>4, <1>5 DEF SessionInv, WorkSound
<1>7. DOMAIN work' = Sessions /\ \A x \in Sessions \ {s} : work'[x] = work[x]
  BY AtWork
<1> QED BY <1>1, <1>2, <1>3, <1>6, <1>7, MoveKeeps DEF world

\* Taking the order, user, plan and coupon rows keeps the invariant.
LEMMA LocksKeep ==
  ASSUME IInv, NEW s \in Sessions,
         LockOrder(s) \/ LockUser(s) \/ LockPlan(s) \/ LockCoupon(s)
  PROVE  IInv'
<1>1. CASE LockOrder(s)
  <2>1. CASE Open(cur[s])
    BY <1>1, <2>1, LockKeeps DEF LockOrder
  <2>2. CASE ~Open(cur[s])
    <3>1. /\ Finish(s) /\ UNCHANGED <<rows, now, bills, grants>>
          /\ Answer(cur[s]) \/ UNCHANGED acked
      BY <1>1, <2>2 DEF LockOrder
    <3>2. RowsOK' /\ WorldOK' /\ OpenedOnce' /\ AbsentUnopened'
      BY <3>1 DEF IInv, TypeOK, RowsOK, WorldOK, OpenedOnce, AbsentUnopened, rows, Answer
    <3>3. UNCHANGED <<status, orders, stock>>
      BY <3>1 DEF rows
    <3> QED BY <3>1, <3>2, <3>3, FinishKeeps
  <2> QED BY <2>1, <2>2
<1>2. CASE LockUser(s)
  <2>1. IsDeposit(orders[cur[s]]) => ~Consumes(orders[cur[s]])
    BY DEF Consumes
  <2> QED BY <1>2, <2>1, LockKeeps DEF LockUser
<1>3. CASE LockPlan(s)
  <2>1. CASE Rollback(s)
    BY <2>1, RollbackKeeps
  <2>2. CASE ~Rollback(s)
    BY <1>3, <2>2, LockKeeps DEF LockPlan
  <2> QED BY <2>1, <2>2
<1>4. CASE LockCoupon(s)
  <2>1. CASE Rollback(s)
    BY <2>1, RollbackKeeps
  <2>2. CASE ~Rollback(s)
    BY <1>4, <2>2, LockKeeps DEF LockCoupon, CouponUsable
  <2> QED BY <2>1, <2>2
<1> QED BY <1>1, <1>2, <1>3, <1>4

\* The check of the balance leaves a sound row to commit, or rolls back.
LEMMA SettleKeeps ==
  ASSUME IInv, NEW s \in Sessions, Settle(s) PROVE IInv'
<1> DEFINE o == cur[s]
           ord == orders[o]
           row == Fulfilled(users[ord.user], ord, now)
<1>1. CASE Rollback(s)
  BY <1>1, RollbackKeeps
<1>2. CASE ~Rollback(s)
  <2>1. /\ pc[s] = "settle" /\ Payable(users[ord.user], ord)
        /\ work' = [work EXCEPT ![s] = Decision(o, row)]
        /\ GoTo(s, AfterDecision(s, o)) /\ UNCHANGED <<rows, holder, cur, via, world>>
    BY <1>2 DEF Settle
  <2>2. AfterDecision(s, o) \in {"inviter", "reply", "commit"}
    BY DEF AfterDecision
  <2>3. pc' = [pc EXCEPT ![s] = AfterDecision(s, o)] /\ s \in DOMAIN pc
    BY <2>1 DEF GoTo, IInv, TypeOK, SessionOK
  <2>4. now \in Nat /\ ord \in OrderRow /\ users[ord.user] \in UserRow
    BY <2>1, AtWork DEF IInv, TypeOK, WorldOK
  <2>5. row \in UserRow
    BY <2>1, <2>4, FulfilledType
  <2> HIDE DEF row
  <2>6. /\ Decision(o, row) \in Opening /\ Decision(o, row).row = row
        /\ Decision(o, row).outcome = "credit" => Inviter[ord.user] \in Users
    BY <2>1, <2>5, DecisionType
  <2>7. work'[s] = Decision(o, row)
    BY <2>1, AtWork
  <2>8. WorkOK(s)'
    BY <2>2, <2>3, <2>6, <2>7 DEF WorkOK
  <2>9. SessionInv(s)'
    <3>1. SessionInv(s)
      BY DEF IInv
    <3>2. OrderHeld(s)'
      BY <2>1, <2>2, <2>3, <3>1 DEF SessionInv, OrderHeld, Open, Holding, rows
    <3>3. CouponHeld(s)'
      BY <2>1, <2>2, <2>3, <3>1 DEF SessionInv, CouponHeld, rows
    <3>4. WorkSound(s)'
      BY <2>1, <2>5, <2>6, <2>7 DEF WorkSound, rows
    <3> QED BY <2>2, <2>3, <3>2, <3>3, <3>4 DEF SessionInv
  <2>10. WorldOK'
    BY <2>1 DEF IInv, TypeOK, WorldOK, world
  <2>11. DOMAIN work' = Sessions /\ \A x \in Sessions \ {s} : work'[x] = work[x]
    BY <2>1, AtWork
  <2> QED BY <2>1, <2>2, <2>8, <2>9, <2>10, <2>11, MoveKeeps DEF world, Steps
<1> QED BY <1>1, <1>2

\* Waiting for the inviter and answering the gateway keep the invariant.
LEMMA AnswerKeeps ==
  ASSUME IInv, NEW s \in Sessions, LockInviter(s) \/ Reply(s) PROVE IInv'
<1> DEFINE step == IF LockInviter(s) /\ via[s] = "notify" THEN "reply" ELSE "commit"
<1>1. /\ pc[s] \in {"inviter", "reply"} /\ GoTo(s, pc'[s]) /\ pc'[s] \in {"reply", "commit"}
      /\ UNCHANGED <<rows, cur, via, work, grants>>
      /\ \/ UNCHANGED holder
         \/ \E r : Free(r) /\ holder' = [holder EXCEPT ![r] = s]
  BY DEF LockInviter, Reply, Acquire, GoTo, IInv, TypeOK, SessionOK, world
<1>2. WorldOK'
  BY DEF LockInviter, Reply, Answer, IInv, TypeOK, WorldOK, world
<1>3. holder \in [Rows -> Sessions \cup {None}]
  BY DEF IInv, TypeOK, SessionOK
<1>4. WorkOK(s)'
  BY <1>1, AtWork DEF WorkOK
<1>5. \A r \in Rows : holder[r] = s => holder'[r] = s
  BY <1>1, <1>3
<1>6. OrderHeld(s)'
  BY <1>1, <1>5, AtWork DEF SessionInv, OrderHeld, Holding, Open, rows
<1>7. CouponHeld(s)'
  <2>1. Consumes(orders[cur[s]]) => orders[cur[s]].coupon \in Rows
    BY <1>1, AtWork DEF Consumes, OrderRow, Rows
  <2> QED BY <1>1, <1>5, <2>1, AtWork DEF SessionInv, CouponHeld, rows
<1>8. SessionInv(s)'
  BY <1>1, <1>6, <1>7, AtWork DEF SessionInv, WorkSound, rows
<1>9. DOMAIN work' = Sessions /\ \A x \in Sessions \ {s} : work'[x] = work[x]
  BY <1>1, AtWork
<1> QED BY <1>1, <1>2, <1>4, <1>8, <1>9, MoveKeeps DEF Steps

\* The commission of an order is credited to a user that exists.
LEMMA CommissionWritesType ==
  ASSUME IInv, NEW o \in OrderIds, status[o] # "absent",
         NEW w \in Opening, CommissionWrites(o, w),
         w.outcome = "credit" => Inviter[orders[o].user] \in Users
  PROVE  /\ commission' \in [OrderIds -> 0..3]
         /\ earned' \in [Users -> Nat]
         /\ logs' \subseteq LogRow
<1>1. RowsOK /\ orders[o] \in OrderRow /\ orders[o].user \in Users
  BY DEF IInv, TypeOK, RowsOK, OrderRow
<1>2. commission' \in [OrderIds -> 0..3]
  BY <1>1 DEF CommissionWrites, RowsOK
<1>3. w.seen \in Nat /\ w.amount \in Nat /\ w.seen + w.amount \in Nat
  BY DEF Opening
<1>4. earned' \in [Users -> Nat]
  BY <1>1, <1>3 DEF CommissionWrites, RowsOK
<1>5. logs' \subseteq LogRow
  BY <1>1, <1>3 DEF CommissionWrites, RowsOK, LogRow
<1> QED BY <1>2, <1>4, <1>5

\* The commission job writes no order status and no user balance.
LEMMA CalcKeeps ==
  ASSUME IInv, NEW s \in Sessions, CalcLock(s) \/ CalcCommit(s) PROVE IInv'
<1> DEFINE o == cur[s]
           w == Decision(o, None)
<1>1. CASE Rollback(s)
  BY <1>1, RollbackKeeps
<1>2. CASE /\ CalcLock(s) /\ status[o] = "completed" /\ w.outcome = "credit"
  <2>1. /\ pc[s] = "calc" /\ via[s] = "calc" /\ o \in Rows /\ Acquire(s, o, "inviter")
        /\ work' = [work EXCEPT ![s] = w] /\ UNCHANGED <<rows, cur, via, world>>
    <3>1. pc[s] = "calc"
      BY <1>2 DEF CalcLock
    <3>2. via[s] = "calc" /\ o \in Rows
      BY <3>1, AtWork DEF SessionInv
    <3> QED BY <1>2, <3>1, <3>2 DEF CalcLock
  <2>2. /\ w \in Opening /\ (w.outcome = "credit" => Inviter[orders[o].user] \in Users)
    BY <2>1, DecisionType
  <2> HIDE DEF w
  <2>3. /\ holder' = [holder EXCEPT ![o] = s] /\ holder'[o] = s
        /\ pc'[s] = "inviter" /\ work'[s] = w
    BY <2>1, AtWork DEF Acquire, GoTo, IInv, TypeOK, SessionOK
  <2>4. WorkOK(s)'
    BY <2>2, <2>3 DEF WorkOK
  <2>5. SessionInv(s)'
    BY <2>1, <2>2, <2>3 DEF SessionInv, OrderHeld, CouponHeld, WorkSound, rows
  <2>6. WorldOK'
    BY <2>1 DEF IInv, TypeOK, WorldOK, world
  <2>7. DOMAIN work' = Sessions /\ \A x \in Sessions \ {s} : work'[x] = work[x]
    BY <2>1, AtWork
  <2> QED BY <2>1, <2>4, <2>5, <2>6, <2>7, MoveKeeps DEF Acquire, world, Steps
<1>3. CASE \/ CalcLock(s) /\ status[o] = "completed" /\ w.outcome # "credit"
           \/ CalcCommit(s)
  <2>1. /\ pc[s] \in {"calc", "commit"} /\ Finish(s)
        /\ UNCHANGED <<status, orders, invoice, users, stock, value, world>>
    BY <1>3 DEF CalcLock, CalcCommit
  <2>2. /\ commission' \in [OrderIds -> 0..3] /\ earned' \in [Users -> Nat]
        /\ logs' \subseteq LogRow
    <3>1. CASE CalcLock(s)
      <4>1. w \in Opening /\ (w.outcome = "credit" => Inviter[orders[o].user] \in Users)
        BY <2>1, DecisionType
      <4>2. CommissionWrites(o, w)
        BY <1>3, <3>1 DEF CalcLock, CalcCommit
      <4> HIDE DEF w
      <4> QED BY <2>1, <4>1, <4>2, AtWork, CommissionWritesType
    <3>2. CASE CalcCommit(s)
      <4>1. work[s] \in Opening
        BY <2>1, <3>2, AtWork DEF CalcCommit, WorkOK
      <4>2. work[s].outcome = "credit" => Inviter[orders[o].user] \in Users
        BY <2>1, <3>2, AtWork DEF CalcCommit, SessionInv, WorkSound
      <4> QED BY <2>1, <3>2, <4>1, <4>2, AtWork, CommissionWritesType DEF CalcCommit
    <3> QED BY <1>3, <3>1, <3>2
  <2>3. RowsOK' /\ WorldOK' /\ OpenedOnce' /\ AbsentUnopened'
    BY <2>1, <2>2 DEF IInv, TypeOK, RowsOK, WorldOK, OpenedOnce, AbsentUnopened, world
  <2> QED BY <2>1, <2>3, FinishKeeps
<1> QED BY <1>1, <1>2, <1>3 DEF CalcLock, CalcCommit

\* The order is still open and nobody else holds it, so it is opened for the
\* first time; the coupon still has the unit that is taken.
LEMMA CommitKeeps ==
  ASSUME IInv, NEW s \in Sessions, Commit(s) PROVE IInv'
<1> DEFINE o == cur[s]
           ord == orders[o]
<1>1. /\ pc[s] = "commit" /\ via[s] # "calc" /\ Finish(s)
      /\ status' = [status EXCEPT ![o] = "completed"]
      /\ users' = [users EXCEPT ![ord.user] = work[s].row]
      /\ StockWrites(ord) /\ CommissionWrites(o, work[s])
      /\ grants' = [grants EXCEPT ![o] = @ + 1]
      /\ UNCHANGED <<orders, invoice, value, now, bills, acked>>
  BY DEF Commit
<1>2. /\ o \in OrderIds /\ ord \in OrderRow /\ ord.user \in Users
      /\ work[s] \in Opening /\ work[s].row \in UserRow
      /\ work[s].outcome = "credit" => Inviter[ord.user] \in Users
      /\ Open(o) /\ status[o] # "absent" /\ holder[o] = s /\ CouponHeld(s)
  BY <1>1, AtWork DEF WorkOK, SessionInv, WorkSound, OrderHeld, Holding
<1>3. /\ commission' \in [OrderIds -> 0..3] /\ earned' \in [Users -> Nat]
      /\ logs' \subseteq LogRow
  BY <1>1, <1>2, CommissionWritesType
<1>4. /\ stock' \in [Coupons -> Nat]
      /\ \A c \in Coupons : holder[c] # s => stock'[c] = stock[c]
  <2>1. stock \in [Coupons -> Nat]
    BY DEF IInv, TypeOK, RowsOK
  <2>2. CASE Consumes(ord) /\ CouponInfo[ord.coupon].limited
    <3>1. /\ stock' = [stock EXCEPT ![ord.coupon] = @ - 1]
          /\ holder[ord.coupon] = s /\ stock[ord.coupon] > 0
      BY <1>1, <1>2, <2>2 DEF StockWrites, CouponHeld
    <3>2. ord.coupon \in Coupons
      BY <1>2, <2>2 DEF Consumes, OrderRow
    <3>3. stock[ord.coupon] - 1 \in Nat
      BY <2>1, <3>1, <3>2
    <3> QED BY <2>1, <3>1, <3>2, <3>3
  <2>3. CASE ~(Consumes(ord) /\ CouponInfo[ord.coupon].limited)
    BY <1>1, <2>1, <2>3 DEF StockWrites
  <2> QED BY <2>2, <2>3
<1>5. RowsOK'
  <2>1. RowsOK
    BY DEF IInv, TypeOK
  <2>2. users' \in [Users -> UserRow]
    BY <1>1, <1>2, <2>1 DEF RowsOK
  <2>3. /\ status' \in [OrderIds -> Statuses]
        /\ \A x \in OrderIds : status'[x] # "absent" => orders'[x] \in OrderRow
    <3>1. status' \in [OrderIds -> Statuses]
      BY <1>1, <2>1 DEF RowsOK, Statuses
    <3>2. ASSUME NEW x \in OrderIds, status'[x] # "absent" PROVE orders'[x] \in OrderRow
      BY <1>1, <1>2, <2>1, <3>2 DEF RowsOK
    <3> QED BY <3>1, <3>2
  <2> QED BY <1>1, <1>3, <1>4, <2>1, <2>2, <2>3 DEF RowsOK
<1>6. WorldOK'
  BY <1>1, <1>2 DEF IInv, TypeOK, WorldOK
<1>7. OpenedOnce' /\ AbsentUnopened'
  <2>1. status \in [OrderIds -> Statuses] /\ grants \in [OrderIds -> Nat]
    BY DEF IInv, TypeOK, RowsOK, WorldOK
  <2>2. grants[o] = 0
    BY <1>2 DEF IInv, OpenedOnce, Open
  <2> QED BY <1>1, <1>2, <2>1, <2>2 DEF IInv, OpenedOnce, AbsentUnopened, OpenStatuses
<1>8. \A x \in OrderIds : status[x] # "absent" =>
        /\ status'[x] # "absent" /\ orders'[x] = orders[x]
        /\ holder[x] \notin {s, None} => status'[x] = status[x]
  BY <1>1, <1>2 DEF IInv, TypeOK, RowsOK
<1> QED BY <1>1, <1>4, <1>5, <1>6, <1>7, <1>8, FinishKeeps

-----------------------------------------------------------------------------
(***************************************************************************)
(* The theorems.                                                           *)
(***************************************************************************)
\* The tables the program starts with satisfy the invariant.
LEMMA InitIInv == Init => IInv
<1> SUFFICES ASSUME Init PROVE IInv
  OBVIOUS
<1>1. RowsOK
  BY OrdersAssumption DEF Init, RowsOK, Statuses, Invoice, LogRow
<1>2. SessionOK
  BY DEF Init, SessionOK, WorkOK, Steps
<1>3. WorldOK
  BY DEF Init, WorldOK
<1>4. \A s \in Sessions : SessionInv(s)
  BY DEF Init, SessionInv, OrderHeld, CouponHeld, WorkSound, Holding
<1>5. OpenedOnce /\ AbsentUnopened
  BY DEF Init, OpenedOnce, AbsentUnopened, OpenStatuses
<1> QED BY <1>1, <1>2, <1>3, <1>4, <1>5 DEF IInv, TypeOK

\* Every step keeps it.
LEMMA NextKeeps == IInv /\ [Next]_vars => IInv'
<1> SUFFICES ASSUME IInv, [Next]_vars PROVE IInv'
  OBVIOUS
<1>1. ASSUME NEW s \in Sessions, Requests(s) PROVE IInv'
  BY <1>1, RequestsKeep
<1>2. ASSUME NEW s \in Sessions, Inserts(s) PROVE IInv'
  BY <1>2, InsertsKeep
<1>3. ASSUME NEW s \in Sessions, Work(s) PROVE IInv'
  BY <1>3, CancelKeeps, CheckoutKeeps, LocksKeep, SettleKeeps, AnswerKeeps, CommitKeeps,
     CalcKeeps DEF Work
<1>4. ASSUME NEW s \in Sessions, Abort(s) \/ DeadlockVictim(s) PROVE IInv'
  BY <1>4, RollbackKeeps DEF Abort, DeadlockVictim
<1>5. CASE Admin \/ Tick
  BY <1>5, OutsideSteps
<1>6. CASE UNCHANGED vars
  <2>1. UNCHANGED <<rows, session, world>>
    BY <1>6 DEF vars
  <2>2. RowsOK' /\ WorldOK' /\ UNCHANGED <<status, orders, stock, grants>>
    BY <2>1 DEF rows, world, IInv, TypeOK, RowsOK, WorldOK
  <2> QED BY <2>1, <2>2, OutsideKeeps
<1> QED BY <1>1, <1>2, <1>3, <1>4, <1>5, <1>6 DEF Next

\* So it holds in every reachable state.
LEMMA AlwaysIInv == Spec => []IInv
BY InitIInv, NextKeeps, PTL DEF Spec

\* Type correctness.  Its content beyond the types: the balance check under the
\* user's lock and the validation under the coupon's lock are enough to keep
\* balances and stocks from going below zero, however sessions interleave.
THEOREM TypeCorrect == Spec => []TypeOK
<1>1. IInv => TypeOK
  BY DEF IInv
<1> QED BY <1>1, AlwaysIInv, PTL

\* _process_paid_order: callbacks, the scan and administrators together open an
\* order at most once, and it is shown as completed only when it was opened.
THEOREM NoDoubleOpening == Spec => []OpenedOnce
<1>1. IInv => OpenedOnce
  BY DEF IInv
<1> QED BY <1>1, AlwaysIInv, PTL

\* Only three kinds of step touch the status of an order.
LEMMA StatusWriters ==
  ASSUME IInv, Next
  PROVE  \/ UNCHANGED <<status, grants>>
         \/ \E o \in OrderIds : /\ status[o] = "absent"
                                /\ status' = [status EXCEPT ![o] = "pending"]
                                /\ UNCHANGED grants
         \/ \E s \in Sessions : CancelWrite(s) \/ Commit(s)
<1>1. ASSUME NEW s \in Sessions, Requests(s) PROVE UNCHANGED <<status, grants>>
  BY <1>1 DEF Requests, CreateOrder, AssignOrder, CancelOrder, AdminCancelOrder, OrderHandle,
     Checkout, Notify, AdminMarkPaid, CalcCommission, Start, rows, world
<1>2. ASSUME NEW s \in Sessions, Rollback(s) PROVE UNCHANGED <<status, grants>>
  BY <1>2 DEF Rollback, rows, world
<1>3. ASSUME NEW s \in Sessions, Inserts(s)
      PROVE  \/ UNCHANGED <<status, grants>>
             \/ \E o \in OrderIds : /\ status[o] = "absent"
                                    /\ status' = [status EXCEPT ![o] = "pending"]
                                    /\ UNCHANGED grants
  BY <1>2, <1>3 DEF Inserts, InsertDeposit, InsertPurchase, InsertAssigned, CreateRejected,
     Insert, world
<1>4. ASSUME NEW s \in Sessions, Work(s)
      PROVE  UNCHANGED <<status, grants>> \/ CancelWrite(s) \/ Commit(s)
  BY <1>2, <1>4 DEF Work, CheckoutBill, CheckoutCommit, LockOrder, LockUser, LockPlan,
     LockCoupon, Settle, LockInviter, Reply, CalcLock, CalcCommit, rows, world
<1>5. ASSUME Admin \/ Tick PROVE UNCHANGED <<status, grants>>
  BY <1>5 DEF Admin, AdminUpdateOrder, AdminUpdateCoupon, Tick, rows, world
<1> QED BY <1>1, <1>2, <1>3, <1>4, <1>5 DEF Next, Abort, DeadlockVictim

\* What an operation may do to an order's status: a cancellation that commits
\* first wins over every payment, and nothing is opened twice.
THEOREM StatusMonotone == Spec => StatusMoves
<1> DEFINE Moves ==
      \A o \in OrderIds :
        /\ status[o] = "cancelled" => status'[o] = "cancelled" /\ grants'[o] = grants[o]
        /\ status[o] = "completed" => status'[o] \in {"completed", "cancelled"}
                                      /\ grants'[o] = grants[o]
        /\ status[o] \in OpenStatuses => status'[o] # "absent"
<1>1. IInv /\ [Next]_vars => [Moves]_<<status, grants>>
  <2> SUFFICES ASSUME IInv, Next PROVE Moves \/ UNCHANGED <<status, grants>>
    BY DEF vars, rows, world
  <2>1. status \in [OrderIds -> Statuses] /\ grants \in [OrderIds -> Nat]
    BY DEF IInv, TypeOK, RowsOK, WorldOK
  <2>2. ASSUME NEW o \in OrderIds, status[o] = "absent",
               status' = [status EXCEPT ![o] = "pending"], UNCHANGED grants
        PROVE  Moves
    BY <2>1, <2>2 DEF OpenStatuses
  <2>3. ASSUME NEW s \in Sessions, CancelWrite(s) PROVE Moves
    BY <2>1, <2>3 DEF CancelWrite, world, OpenStatuses
  <2>4. ASSUME NEW s \in Sessions, Commit(s) PROVE Moves
    <3>1. Open(cur[s]) /\ cur[s] \in OrderIds
      BY <2>4, AtWork DEF Commit, SessionInv, OrderHeld, Holding
    <3>2. /\ status' = [status EXCEPT ![cur[s]] = "completed"]
          /\ grants' = [grants EXCEPT ![cur[s]] = @ + 1]
      BY <2>4 DEF Commit
    <3> QED BY <2>1, <3>1, <3>2 DEF Open, OpenStatuses
  <2> HIDE DEF Moves
  <2> QED BY <2>2, <2>3, <2>4, StatusWriters
<1>2. Spec => [][Moves]_<<status, grants>>
  <2> HIDE DEF Moves
  <2> QED BY <1>1, AlwaysIInv, PTL DEF Spec
<1> QED BY <1>2 DEF StatusMoves

\* handle_payment_notify answers "success" only for an order that is settled or
\* that the answering session holds and is about to commit.
THEOREM AnswerIsLast == Spec => AnsweredIsSettled
<1> DEFINE Settled ==
      \A o \in OrderIds :
        acked'[o] /\ ~acked[o] =>
          \/ status[o] \notin OpenStatuses
          \/ \E s \in Sessions : pc'[s] = "commit" /\ cur'[s] = o /\ holder'[o] = s
<1>1. IInv /\ [Next]_vars => [Settled]_acked
  <2> SUFFICES ASSUME IInv, Next PROVE Settled \/ UNCHANGED acked
    BY DEF vars, world
  <2>1. acked \in [OrderIds -> BOOLEAN]
    BY DEF IInv, TypeOK, WorldOK
  <2>2. ASSUME NEW o \in OrderIds, Answer(o), status[o] \notin OpenStatuses PROVE Settled
    BY <2>1, <2>2 DEF Answer
  <2>3. ASSUME NEW s \in Sessions, Reply(s) PROVE Settled
    <3>1. /\ pc[s] = "reply" /\ Answer(cur[s]) /\ pc' = [pc EXCEPT ![s] = "commit"]
          /\ UNCHANGED <<holder, cur>>
      BY <2>3 DEF Reply, GoTo
    <3>2. pc'[s] = "commit" /\ holder'[cur[s]] = s /\ cur'[s] = cur[s]
      BY <3>1, AtWork DEF SessionInv, OrderHeld, Holding, IInv, TypeOK, SessionOK
    <3> QED BY <2>1, <3>1, <3>2 DEF Answer
  <2> HIDE DEF Settled
  <2>4. ASSUME NEW s \in Sessions, Requests(s) PROVE Settled \/ UNCHANGED acked
    BY <2>2, <2>4 DEF Requests, CreateOrder, AssignOrder, CancelOrder, AdminCancelOrder,
       OrderHandle, Checkout, Notify, AdminMarkPaid, CalcCommission, Start, world
  <2>5. ASSUME NEW s \in Sessions, Rollback(s) PROVE UNCHANGED acked
    BY <2>5 DEF Rollback, world
  <2>6. ASSUME NEW s \in Sessions, Inserts(s) PROVE UNCHANGED acked
    BY <2>5, <2>6 DEF Inserts, InsertDeposit, InsertPurchase, InsertAssigned,
       CreateRejected, Insert, world
  <2>7. ASSUME NEW s \in Sessions, LockOrder(s) PROVE Settled \/ UNCHANGED acked
    <3>1. cur[s] \in OrderIds
      BY <2>7, AtWork DEF LockOrder
    <3> QED BY <2>2, <2>7, <3>1 DEF LockOrder, Open, world
  <2>8. ASSUME NEW s \in Sessions, Work(s) PROVE Settled \/ UNCHANGED acked
    BY <2>3, <2>5, <2>7, <2>8 DEF Work, CancelWrite, CheckoutBill, CheckoutCommit, LockUser,
       LockPlan, LockCoupon, Settle, LockInviter, Commit, CalcLock, CalcCommit, world
  <2>9. ASSUME Admin \/ Tick PROVE UNCHANGED acked
    BY <2>9 DEF Admin, AdminUpdateOrder, AdminUpdateCoupon, Tick, world
  <2> QED BY <2>4, <2>5, <2>6, <2>8, <2>9 DEF Next, Abort, DeadlockVictim
<1>2. Spec => [][Settled]_acked
  <2> HIDE DEF Settled
  <2> QED BY <1>1, AlwaysIInv, PTL DEF Spec
<1> QED BY <1>2 DEF AnsweredIsSettled

-----------------------------------------------------------------------------
(***************************************************************************)
(* The ledgers: balances, coupons, seats and commissions add up, and the   *)
(* transactions implement OrderContract.  Everything here stands on IInv;  *)
(* each ledger adds what the sessions that are about to write to it know.  *)
(***************************************************************************)
\* The columns the ledgers are about.
Books == <<status, orders, users, earned, stock, logs, grants>>

\* The steps at which a session holds more than its order.
Late == {"plan", "coupon", "settle", "inviter", "reply", "commit"}
Decided == {"inviter", "reply", "commit"}

\* A step of another session leaves session x alone, and its locks.
SessionKept(x) ==
  /\ pc'[x] = pc[x] /\ cur'[x] = cur[x] /\ via'[x] = via[x] /\ work'[x] = work[x]
  /\ \A r \in Rows : holder[r] = x => holder'[r] = x

\* The session is, after its step, not on the way to a commit.
Rests(s) ==
  /\ pc'[s] \notin Late
  /\ pc'[s] = "cancel" => status[cur'[s]] = "pending"
  /\ pc'[s] = "order" => via'[s] # "calc"
  /\ pc'[s] = "user" => pc[s] = "order" /\ via'[s] = via[s]

\* The session goes on, with one more lock or decision.
GoesOn(s) ==
  /\ \/ LockUser(s) \/ LockPlan(s) \/ LockCoupon(s) \/ Settle(s)
     \/ LockInviter(s) \/ Reply(s) \/ CalcLock(s)
  /\ pc'[s] \in Late /\ SessionInv(s)' /\ WorkOK(s)'
  /\ cur'[s] = cur[s] /\ via'[s] = via[s]
  /\ \A r \in Rows : holder[r] = s => holder'[r] = s

\* A new order row, for a key that was not in use.
Inserted(o) ==
  /\ status[o] = "absent"
  /\ \E row \in OrderRow : orders' = [orders EXCEPT ![o] = row]
  /\ status' = [status EXCEPT ![o] = "pending"]
  /\ UNCHANGED <<users, earned, stock, logs, grants>>

\* What a step of session s does to the books.
SessionStep(s) ==
  /\ UNCHANGED now
  /\ \A x \in Sessions \ {s} : SessionKept(x)
  /\ \/ UNCHANGED Books /\ Rests(s)
     \/ UNCHANGED Books /\ GoesOn(s)
     \/ \E o \in OrderIds : Inserted(o) /\ Rests(s)
     \/ CancelWrite(s) /\ Rests(s)
     \/ Commit(s) /\ Rests(s)
     \/ CalcCommit(s) /\ Rests(s)

\* What the clock and the administrators do.
OutsideStep ==
  /\ UNCHANGED <<Books, session>>
  /\ now' \in {now, now + 1}

\* An operation that ends leaves the other sessions alone.
LEMMA FinishRests ==
  ASSUME IInv, NEW s \in Sessions, Finish(s)
  PROVE  (\A x \in Sessions \ {s} : SessionKept(x)) /\ Rests(s)
<1>1. /\ holder' = Released(s)
      /\ pc' = [pc EXCEPT ![s] = "idle"] /\ cur' = [cur EXCEPT ![s] = None]
      /\ via' = [via EXCEPT ![s] = "request"] /\ work' = [work EXCEPT ![s] = None]
      /\ SessionOK
  BY DEF Finish, GoTo, IInv, TypeOK
<1>2. ASSUME NEW x \in Sessions \ {s} PROVE SessionKept(x)
  BY <1>1, <1>2, NobodyIsNone DEF SessionKept, SessionOK, Released
<1>3. pc'[s] = "idle"
  BY <1>1 DEF SessionOK
<1> QED BY <1>2, <1>3 DEF Rests, Late

\* So does one that begins; a cancellation begins with a pending order.
LEMMA StartRests ==
  ASSUME IInv, NEW s \in Sessions, NEW o, NEW step, NEW how, NEW carry,
         Start(s, o, step, how, carry), step \notin Late \cup {"user"},
         step = "cancel" => status[o] = "pending",
         step = "order" => how # "calc"
  PROVE  SessionStep(s)
<1>1. /\ UNCHANGED <<rows, holder, world>> /\ pc' = [pc EXCEPT ![s] = step]
      /\ cur' = [cur EXCEPT ![s] = o] /\ via' = [via EXCEPT ![s] = how]
      /\ work' = [work EXCEPT ![s] = carry] /\ SessionOK
  BY DEF Start, GoTo, IInv, TypeOK
<1>2. ASSUME NEW x \in Sessions \ {s} PROVE SessionKept(x)
  BY <1>1, <1>2 DEF SessionKept, SessionOK
<1>3. pc'[s] = step /\ cur'[s] = o /\ via'[s] = how
  BY <1>1 DEF SessionOK
<1>4. UNCHANGED Books /\ UNCHANGED now
  BY <1>1 DEF Books, rows, world
<1> QED BY <1>2, <1>3, <1>4 DEF SessionStep, Rests

\* A rollback writes nothing.
LEMMA RollbackRests ==
  ASSUME IInv, NEW s \in Sessions, Rollback(s) PROVE SessionStep(s)
<1>1. Finish(s) /\ UNCHANGED Books /\ UNCHANGED now
  BY DEF Rollback, Books, rows, world
<1> QED BY <1>1, FinishRests DEF SessionStep

\* A lock that is taken was free.
LEMMA AcquireKept ==
  ASSUME IInv, NEW s \in Sessions, NEW r, NEW step, Acquire(s, r, step),
         UNCHANGED <<cur, via>>, DOMAIN work' = Sessions,
         \A x \in Sessions \ {s} : work'[x] = work[x]
  PROVE  /\ \A x \in Sessions \ {s} : SessionKept(x)
         /\ pc'[s] = step /\ cur'[s] = cur[s] /\ via'[s] = via[s]
         /\ \A q \in Rows : holder[q] = s => holder'[q] = s
<1>1. /\ holder[r] = None /\ holder' = [holder EXCEPT ![r] = s]
      /\ pc' = [pc EXCEPT ![s] = step] /\ SessionOK
  BY DEF Acquire, GoTo, Free, IInv, TypeOK
<1>2. ASSUME NEW x \in Sessions \ {s} PROVE SessionKept(x)
  BY <1>1, <1>2, NobodyIsNone DEF SessionKept, SessionOK
<1>3. \A q \in Rows : holder[q] = s => holder'[q] = s
  BY <1>1 DEF SessionOK
<1>4. pc'[s] = step
  BY <1>1 DEF SessionOK
<1> QED BY <1>2, <1>3, <1>4

\* The requests, seen from the books.
LEMMA RequestSteps ==
  ASSUME IInv, NEW s \in Sessions, Requests(s) PROVE SessionStep(s) \/ OutsideStep
<1>1. ASSUME NEW o, NEW step, NEW how, NEW carry, Start(s, o, step, how, carry),
             step \notin Late \cup {"user"}, step = "cancel" => status[o] = "pending",
             step = "order" => how # "calc"
      PROVE  SessionStep(s)
  BY <1>1, StartRests
<1>2. ASSUME NEW o, Answer(o), UNCHANGED <<rows, session, now, bills, grants>>
      PROVE  OutsideStep
  BY <1>2 DEF OutsideStep, Books, rows
<1>3. "create" \notin Late /\ "assign" \notin Late /\ "cancel" \notin Late
      /\ "order" \notin Late /\ "bill" \notin Late /\ "calc" \notin Late
  BY DEF Late
<1>4. ASSUME NEW u \in Users, CreateOrder(s, u) PROVE SessionStep(s)
  BY <1>1, <1>3, <1>4 DEF CreateOrder
<1>5. ASSUME NEW a \in Assignments, AssignOrder(s, a) PROVE SessionStep(s)
  BY <1>1, <1>3, <1>5 DEF AssignOrder
<1>6. ASSUME NEW o \in OrderIds, CancelOrder(s, o) \/ AdminCancelOrder(s, o)
      PROVE  SessionStep(s)
  BY <1>1, <1>3, <1>6 DEF CancelOrder, AdminCancelOrder
<1>7. ASSUME NEW o \in OrderIds, OrderHandle(s, o) PROVE SessionStep(s)
  BY <1>1, <1>3, <1>7 DEF OrderHandle
<1>8. ASSUME NEW o \in OrderIds, NEW m \in Methods, Checkout(s, o, m) PROVE SessionStep(s)
  BY <1>1, <1>3, <1>8 DEF Checkout
<1>9. ASSUME NEW o \in OrderIds, NEW b \in bills[o], Notify(s, o, b)
      PROVE  SessionStep(s) \/ OutsideStep
  BY <1>1, <1>2, <1>3, <1>9 DEF Notify
<1>10. ASSUME NEW o \in OrderIds, AdminMarkPaid(s, o) \/ CalcCommission(s, o)
       PROVE  SessionStep(s)
  BY <1>1, <1>3, <1>10 DEF AdminMarkPaid, CalcCommission
<1> QED BY <1>4, <1>5, <1>6, <1>7, <1>8, <1>9, <1>10 DEF Requests

\* The insertions, seen from the books.
LEMMA InsertSteps ==
  ASSUME IInv, RowsOK', NEW s \in Sessions, Inserts(s) PROVE SessionStep(s)
<1>1. ASSUME NEW o \in OrderIds, NEW row, status[o] = "absent", Insert(o, row), Finish(s)
      PROVE  SessionStep(s)
  <2>1. /\ status' = [status EXCEPT ![o] = "pending"]
        /\ orders' = [orders EXCEPT ![o] = row]
        /\ UNCHANGED <<users, earned, stock, logs, grants, now>>
    BY <1>1 DEF Insert, world
  <2>2. orders'[o] = row /\ status'[o] = "pending"
    BY <2>1 DEF IInv, TypeOK, RowsOK
  <2>3. row \in OrderRow
    BY <2>2 DEF RowsOK
  <2> QED BY <1>1, <2>1, <2>3, FinishRests DEF SessionStep, Inserted
<1>2. ASSUME NEW o \in OrderIds, NEW amount \in Deposits, InsertDeposit(s, o, amount)
      PROVE  SessionStep(s)
  BY <1>1, <1>2 DEF InsertDeposit
<1>3. ASSUME NEW o \in OrderIds, NEW offer \in Offers, NEW c \in Coupons \cup {None},
             InsertPurchase(s, o, offer[1], offer[2], c)
      PROVE  SessionStep(s)
  BY <1>1, <1>3 DEF InsertPurchase
<1>4. ASSUME NEW o \in OrderIds, InsertAssigned(s, o) PROVE SessionStep(s)
  BY <1>1, <1>4 DEF InsertAssigned
<1>5. CASE CreateRejected(s)
  BY <1>5, RollbackRests DEF CreateRejected
<1> QED BY <1>2, <1>3, <1>4, <1>5 DEF Inserts

\* The steps of an opening, seen from the books.
LEMMA WorkSteps ==
  ASSUME IInv, IInv', NEW s \in Sessions, Work(s) PROVE SessionStep(s)
<1>1. CASE CancelWrite(s) \/ Commit(s) \/ CalcCommit(s)
  <2>1. Finish(s) /\ UNCHANGED now
    BY <1>1 DEF CancelWrite, Commit, CalcCommit, world
  <2> QED BY <1>1, <2>1, FinishRests DEF SessionStep
<1>2. ASSUME Finish(s), UNCHANGED Books, UNCHANGED now PROVE SessionStep(s)
  BY <1>2, FinishRests DEF SessionStep
<1>3. CASE CheckoutCommit(s)
  BY <1>2, <1>3 DEF CheckoutCommit, Books, world
<1>4. CASE CheckoutBill(s)
  <2>1. /\ Acquire(s, cur[s], "billed") /\ UNCHANGED Books /\ UNCHANGED <<now, cur, via>>
        /\ DOMAIN work = Sessions => DOMAIN work' = Sessions
        /\ \A x \in Sessions \ {s} : DOMAIN work = Sessions => work'[x] = work[x]
    BY <1>4 DEF CheckoutBill, Books, rows
  <2>2. DOMAIN work = Sessions
    BY DEF IInv, TypeOK, SessionOK
  <2> QED BY <2>1, <2>2, AcquireKept DEF SessionStep, Rests, Late
<1>5. CASE LockOrder(s)
  <2>1. CASE Open(cur[s])
    <3>1. /\ Acquire(s, cur[s], "user") /\ UNCHANGED Books
          /\ UNCHANGED <<now, cur, via, work>> /\ pc[s] = "order"
      BY <1>5, <2>1 DEF LockOrder, Books, rows, world
    <3>2. DOMAIN work = Sessions
      BY DEF IInv, TypeOK, SessionOK
    <3> QED BY <3>1, <3>2, AcquireKept DEF SessionStep, Rests, Late
  <2>2. CASE ~Open(cur[s])
    BY <1>2, <1>5, <2>2 DEF LockOrder, Books, rows
  <2> QED BY <2>1, <2>2
<1>6. CASE Rollback(s)
  BY <1>6, RollbackRests
<1>7. SessionInv(s)' /\ WorkOK(s)' /\ SessionOK
  BY DEF IInv, TypeOK, SessionOK
<1>8. CASE LockUser(s)
  <2>1. /\ \E r, step : step \in Late /\ Acquire(s, r, step)
        /\ UNCHANGED Books /\ UNCHANGED <<now, cur, via, work>>
    BY <1>8 DEF LockUser, Books, rows, world, Late
  <2> QED BY <1>7, <1>8, <2>1, AcquireKept DEF SessionStep, GoesOn, SessionOK
<1>9. CASE LockPlan(s) /\ ~Rollback(s)
  <2>1. /\ \E r, step : step \in Late /\ Acquire(s, r, step)
        /\ UNCHANGED Books /\ UNCHANGED <<now, cur, via, work>>
    BY <1>9 DEF LockPlan, Books, rows, world, Late
  <2> QED BY <1>7, <1>9, <2>1, AcquireKept DEF SessionStep, GoesOn, SessionOK
<1>10. CASE LockCoupon(s) /\ ~Rollback(s)
  <2>1. /\ \E r, step : step \in Late /\ Acquire(s, r, step)
        /\ UNCHANGED Books /\ UNCHANGED <<now, cur, via, work>>
    BY <1>10 DEF LockCoupon, Books, rows, world, Late
  <2> QED BY <1>7, <1>10, <2>1, AcquireKept DEF SessionStep, GoesOn, SessionOK
<1>11. CASE LockInviter(s)
  <2>1. /\ \E r, step : step \in Late /\ Acquire(s, r, step)
        /\ UNCHANGED Books /\ UNCHANGED <<now, cur, via, work>>
    BY <1>11 DEF LockInviter, Books, rows, world, Late
  <2> QED BY <1>7, <1>11, <2>1, AcquireKept DEF SessionStep, GoesOn, SessionOK
<1>12. CASE Reply(s)
  <2>1. /\ pc' = [pc EXCEPT ![s] = "commit"] /\ UNCHANGED Books
        /\ UNCHANGED <<now, holder, cur, via, work>>
    BY <1>12 DEF Reply, GoTo, Books, rows
  <2>2. \A x \in Sessions \ {s} : SessionKept(x)
    BY <1>7, <2>1 DEF SessionKept, SessionOK
  <2>3. pc'[s] = "commit"
    BY <1>7, <2>1 DEF SessionOK
  <2> QED BY <1>7, <1>12, <2>1, <2>2, <2>3 DEF SessionStep, GoesOn, Late
<1>13. CASE Settle(s) /\ ~Rollback(s)
  <2>1. PICK w : /\ pc' = [pc EXCEPT ![s] = AfterDecision(s, cur[s])]
                 /\ work' = [work EXCEPT ![s] = w]
                 /\ UNCHANGED Books /\ UNCHANGED <<now, holder, cur, via>>
    BY <1>13 DEF Settle, GoTo, Books, rows, world
  <2>2. \A x \in Sessions \ {s} : SessionKept(x)
    BY <1>7, <2>1 DEF SessionKept, SessionOK
  <2>3. pc'[s] \in Late
    BY <1>7, <2>1 DEF SessionOK, AfterDecision, Late
  <2> QED BY <1>7, <1>13, <2>1, <2>2, <2>3 DEF SessionStep, GoesOn
<1>14. CASE CalcLock(s) /\ ~Rollback(s)
  <2>1. CASE Finish(s)
    <3>1. UNCHANGED Books /\ UNCHANGED now
      <4>1. SUFFICES ASSUME CommissionWrites(cur[s], Decision(cur[s], None)),
                            Decision(cur[s], None).outcome # "credit",
                            UNCHANGED <<status, orders, invoice, users, stock, value, world>>
                     PROVE  UNCHANGED Books /\ UNCHANGED now
        <5>1. ~(GoTo(s, "idle") /\ GoTo(s, "inviter"))
          BY <1>7 DEF GoTo, SessionOK
        <5> QED BY <1>14, <2>1, <5>1 DEF CalcLock, Finish, Acquire
      <4> QED BY <4>1 DEF CommissionWrites, Books, world
    <3> QED BY <1>2, <2>1, <3>1
  <2>2. CASE ~Finish(s)
    <3>1. PICK w : /\ Acquire(s, cur[s], "inviter") /\ work' = [work EXCEPT ![s] = w]
                   /\ UNCHANGED Books /\ UNCHANGED <<now, cur, via>>
      BY <1>14, <2>2 DEF CalcLock, Books, rows, world
    <3>2. DOMAIN work' = Sessions /\ \A x \in Sessions \ {s} : work'[x] = work[x]
      BY <1>7, <3>1 DEF SessionOK
    <3>3. "inviter" \in Late
      BY DEF Late
    <3> QED BY <1>7, <1>14, <3>1, <3>2, <3>3, AcquireKept DEF SessionStep, GoesOn
  <2> QED BY <2>1, <2>2
<1> QED BY <1>1, <1>3, <1>4, <1>5, <1>6, <1>8, <1>9, <1>10, <1>11, <1>12, <1>13, <1>14
    DEF Work

\* Every step is one of these.
LEMMA StepKinds ==
  ASSUME IInv, IInv', Next
  PROVE  OutsideStep \/ \E s \in Sessions : SessionStep(s)
<1>1. ASSUME NEW s \in Sessions, Requests(s) PROVE SessionStep(s) \/ OutsideStep
  BY <1>1, RequestSteps
<1>2. ASSUME NEW s \in Sessions, Inserts(s) PROVE SessionStep(s)
  BY <1>2, InsertSteps DEF IInv, TypeOK
<1>3. ASSUME NEW s \in Sessions, Work(s) PROVE SessionStep(s)
  BY <1>3, WorkSteps
<1>4. ASSUME NEW s \in Sessions, Abort(s) \/ DeadlockVictim(s) PROVE SessionStep(s)
  BY <1>4, RollbackRests DEF Abort, DeadlockVictim
<1>5. ASSUME Admin \/ Tick PROVE OutsideStep
  BY <1>5 DEF Admin, AdminUpdateOrder, AdminUpdateCoupon, Tick, OutsideStep, Books, rows, world
<1> QED BY <1>1, <1>2, <1>3, <1>4, <1>5 DEF Next

-----------------------------------------------------------------------------
(***************************************************************************)
(* The buyer's row.  It is locked from LockUser to the commit, so the row  *)
(* that is committed is computed from the row that it replaces.            *)
(***************************************************************************)
UserHeld(s) ==
  pc[s] \in Late /\ via[s] # "calc" => holder[orders[cur[s]].user] = s

RowDue(s) ==
  LET ord == orders[cur[s]] IN
  pc[s] \in Decided /\ via[s] # "calc" =>
    /\ Payable(users[ord.user], ord)
    /\ \E t \in 0..now : work[s].row = Fulfilled(users[ord.user], ord, t)

\* A cancellation that was read as pending is not of an order the import left
\* paid.
CancelsPlaced(s) == pc[s] = "cancel" => status[cur[s]] # "opening"

\* The commission job opens nothing.
OpensOnly(s) ==
  pc[s] \in {"order", "user", "plan", "coupon", "settle"} => via[s] # "calc"

HeldInv ==
  \A s \in Sessions : UserHeld(s) /\ RowDue(s) /\ CancelsPlaced(s) /\ OpensOnly(s)

\* A row that exists stays as it was inserted.
LEMMA OrdersStay ==
  ASSUME IInv, NEW s \in Sessions, SessionStep(s), NEW o \in OrderIds, status[o] # "absent"
  PROVE  /\ orders'[o] = orders[o]
         /\ status[o] # "opening" => status'[o] # "opening"
<1>1. RowsOK
  BY DEF IInv, TypeOK
<1>2. CASE UNCHANGED Books
  BY <1>2 DEF Books
<1>3. CASE \E x \in OrderIds : Inserted(x)
  BY <1>1, <1>3 DEF Inserted, RowsOK
<1>4. CASE CancelWrite(s) \/ Commit(s) \/ CalcCommit(s)
  BY <1>1, <1>4 DEF CancelWrite, Commit, CalcCommit, RowsOK
<1> QED BY <1>2, <1>3, <1>4 DEF SessionStep

\* Only the holder of a user row writes its balance and subscription.
LEMMA UserWriters ==
  ASSUME IInv, HeldInv, NEW s \in Sessions, SessionStep(s), NEW u \in Users,
         users'[u] # users[u]
  PROVE  Commit(s) /\ holder[u] = s /\ u = orders[cur[s]].user
<1>1. Commit(s)
  BY DEF SessionStep, Books, Inserted, CancelWrite, CalcCommit
<1>2. /\ pc[s] = "commit" /\ via[s] # "calc"
      /\ users' = [users EXCEPT ![orders[cur[s]].user] = work[s].row]
  BY <1>1 DEF Commit
<1>3. users \in [Users -> UserRow]
  BY DEF IInv, TypeOK, RowsOK
<1>4. u = orders[cur[s]].user
  BY <1>2, <1>3
<1> QED BY <1>1, <1>2, <1>4 DEF HeldInv, UserHeld, Late

\* A step of another session keeps what session x holds.
LEMMA HeldKept ==
  ASSUME IInv, HeldInv, NEW s \in Sessions, SessionStep(s), NEW x \in Sessions, x # s
  PROVE  UserHeld(x)' /\ RowDue(x)' /\ CancelsPlaced(x)' /\ OpensOnly(x)'
<1> DEFINE ord == orders[cur[x]]
<1>1. SessionKept(x) /\ UNCHANGED now
  BY DEF SessionStep
<1>2. UserHeld(x) /\ RowDue(x) /\ CancelsPlaced(x) /\ OpensOnly(x)
  BY DEF HeldInv
<1>3. ASSUME pc[x] \in Late \cup {"cancel"}
      PROVE  /\ cur[x] \in OrderIds /\ ord \in OrderRow /\ ord.user \in Users
             /\ ord.user \in Rows /\ orders'[cur[x]] = ord
             /\ status[cur[x]] # "opening" => status'[cur[x]] # "opening"
  <2>1. pc[x] \notin {"idle", "create", "assign"}
    BY <1>3 DEF Late
  <2> QED BY <2>1, AtWork, OrdersStay DEF Rows
<1>4. UserHeld(x)'
  BY <1>1, <1>2, <1>3 DEF SessionKept, UserHeld
<1>5. RowDue(x)'
  <2> SUFFICES ASSUME pc[x] \in Decided, via[x] # "calc" PROVE RowDue(x)'
    BY <1>1 DEF SessionKept, RowDue
  <2>1. pc[x] \in Late
    BY DEF Decided, Late
  <2>2. users'[ord.user] = users[ord.user]
    BY <1>2, <1>3, <2>1, UserWriters DEF UserHeld
  <2> QED BY <1>1, <1>2, <1>3, <2>1, <2>2 DEF SessionKept, RowDue
<1>6. CancelsPlaced(x)'
  BY <1>1, <1>2, <1>3 DEF SessionKept, CancelsPlaced
<1>7. OpensOnly(x)'
  BY <1>1, <1>2 DEF SessionKept, OpensOnly
<1> QED BY <1>4, <1>5, <1>6, <1>7

\* A session that goes on takes the row it needs, or has it.
LEMMA HeldGoesOn ==
  ASSUME IInv, IInv', HeldInv, NEW s \in Sessions, UNCHANGED Books, UNCHANGED now, GoesOn(s)
  PROVE  UserHeld(s)' /\ RowDue(s)' /\ CancelsPlaced(s)' /\ OpensOnly(s)'
<1> DEFINE ord == orders[cur[s]]
<1>1. /\ pc[s] \notin {"idle", "create", "assign"} /\ SessionOK
      /\ UserHeld(s) /\ RowDue(s)
      /\ pc[s] \in {"user", "plan", "coupon", "settle", "inviter", "reply", "calc"}
  BY DEF GoesOn, LockUser, LockPlan, LockCoupon, Settle, LockInviter, Reply, CalcLock, HeldInv,
     IInv, TypeOK
<1>2. /\ cur[s] \in OrderIds /\ ord \in OrderRow /\ ord.user \in Users /\ ord.user \in Rows
      /\ users[ord.user] \in UserRow /\ SessionInv(s)
  BY <1>1, AtWork DEF Rows
<1>3. UNCHANGED <<orders, users, status>> /\ pc'[s] \in Late
      /\ cur'[s] = cur[s] /\ via'[s] = via[s]
      /\ \A r \in Rows : holder[r] = s => holder'[r] = s
  BY DEF Books, GoesOn
<1>4. UserHeld(s)'
  <2>1. CASE pc[s] = "user"
    <3>1. \E step : Acquire(s, ord.user, step)
      BY <2>1 DEF GoesOn, LockUser, LockPlan, LockCoupon, Settle, LockInviter, Reply, CalcLock
    <3>2. holder'[ord.user] = s
      BY <1>1, <1>2, <3>1 DEF Acquire, SessionOK
    <3> QED BY <1>3, <3>2 DEF UserHeld
  <2>2. CASE pc[s] = "calc"
    BY <1>2, <1>3, <2>2 DEF SessionInv, UserHeld
  <2>3. CASE pc[s] \in Late
    BY <1>1, <1>2, <1>3, <2>3 DEF UserHeld
  <2> QED BY <1>1, <2>1, <2>2, <2>3 DEF Late
<1>5. RowDue(s)'
  <2> SUFFICES ASSUME pc'[s] \in Decided, via[s] # "calc" PROVE RowDue(s)'
    BY <1>3 DEF RowDue
  <2>1. CASE Settle(s)
    <3>1. /\ Payable(users[ord.user], ord)
          /\ work' = [work EXCEPT ![s] = Decision(cur[s], Fulfilled(users[ord.user], ord, now))]
      <4>1. ~Rollback(s)
        BY <1>1, <1>3 DEF Rollback, Finish, GoTo, SessionOK, Late
      <4> QED BY <2>1, <4>1 DEF Settle
    <3>2. work'[s].row = Fulfilled(users[ord.user], ord, now)
      BY <1>1, <3>1 DEF SessionOK, Decision
    <3>3. now \in 0..now /\ now' = now
      BY DEF IInv, TypeOK, WorldOK
    <3> QED BY <1>3, <3>1, <3>2, <3>3 DEF RowDue
  <2>2. CASE LockInviter(s) \/ Reply(s)
    <3>1. UNCHANGED work /\ pc[s] \in Decided
      BY <2>2 DEF LockInviter, Reply, Decided
    <3> QED BY <1>1, <1>3, <3>1 DEF RowDue
  <2>3. CASE CalcLock(s)
    BY <1>2, <2>3 DEF CalcLock, SessionInv
  <2>4. CASE LockUser(s) \/ LockPlan(s) \/ LockCoupon(s)
    BY <1>1, <1>3, <2>4 DEF LockUser, LockPlan, LockCoupon, Acquire, GoTo, SessionOK, Decided,
       Rollback, Finish
  <2> QED BY <2>1, <2>2, <2>3, <2>4 DEF GoesOn
<1>6. CancelsPlaced(s)'
  BY <1>3 DEF CancelsPlaced, Late
<1>7. OpensOnly(s)'
  <2>1. OpensOnly(s)
    BY DEF HeldInv
  <2>2. CASE CalcLock(s)
    <3>1. pc'[s] = "inviter"
      BY <1>1, <1>3, <2>2 DEF CalcLock, Acquire, GoTo, Rollback, Finish, SessionOK, Late
    <3> QED BY <3>1 DEF OpensOnly
  <2>3. CASE LockInviter(s) \/ Reply(s)
    BY <1>1, <2>3 DEF LockInviter, Reply, Acquire, GoTo, SessionOK, OpensOnly
  <2>4. CASE pc[s] \in {"user", "plan", "coupon", "settle"}
    BY <1>3, <2>1, <2>4 DEF OpensOnly
  <2> QED BY <2>2, <2>3, <2>4 DEF GoesOn, LockUser, LockPlan, LockCoupon, Settle
<1> QED BY <1>4, <1>5, <1>6, <1>7

\* At the start nobody holds anything.
LEMMA InitHeld == Init => HeldInv
BY DEF Init, HeldInv, UserHeld, RowDue, CancelsPlaced, OpensOnly, Late, Decided

\* Every step keeps what the sessions hold.
LEMMA NextHeld == IInv /\ IInv' /\ HeldInv /\ [Next]_vars => HeldInv'
<1> SUFFICES ASSUME IInv, IInv', HeldInv, [Next]_vars PROVE HeldInv'
  OBVIOUS
<1>1. ASSUME NEW s \in Sessions, SessionStep(s) PROVE HeldInv'
  <2>1. CASE Rests(s)
    <3>1. UserHeld(s)' /\ RowDue(s)'
      BY <2>1 DEF Rests, UserHeld, RowDue, Late, Decided
    <3>2. CancelsPlaced(s)'
      <4> SUFFICES ASSUME pc'[s] = "cancel" PROVE status'[cur'[s]] # "opening"
        BY DEF CancelsPlaced
      <4>1. status[cur'[s]] = "pending" /\ cur'[s] \in OrderIds
        BY <2>1 DEF Rests, IInv, TypeOK, SessionOK
      <4> QED BY <1>1, <4>1, OrdersStay
    <3>3. OpensOnly(s)'
      BY <2>1 DEF Rests, HeldInv, OpensOnly, Late
    <3> QED BY <1>1, <3>1, <3>2, <3>3, HeldKept DEF HeldInv
  <2>2. CASE UNCHANGED Books /\ GoesOn(s)
    <3>1. UNCHANGED now
      BY <1>1 DEF SessionStep
    <3> QED BY <1>1, <2>2, <3>1, HeldKept, HeldGoesOn DEF HeldInv
  <2> QED BY <1>1, <2>1, <2>2 DEF SessionStep
<1>2. CASE OutsideStep
  <2>1. /\ UNCHANGED <<status, orders, users, holder, pc, cur, via, work>>
        /\ now \in Nat /\ now' \in {now, now + 1}
    BY <1>2 DEF OutsideStep, Books, session, IInv, TypeOK, WorldOK
  <2>2. 0..now \subseteq 0..now'
    BY <2>1
  <2> QED BY <2>1, <2>2 DEF HeldInv, UserHeld, RowDue, CancelsPlaced, OpensOnly
<1>3. CASE UNCHANGED vars
  BY <1>3 DEF vars, rows, session, world, HeldInv, UserHeld, RowDue, CancelsPlaced, OpensOnly
<1> QED BY <1>1, <1>2, <1>3, StepKinds

\* So it holds in every reachable state.
LEMMA AlwaysHeld == Spec => []HeldInv
BY InitHeld, NextHeld, AlwaysIInv, PTL DEF Spec

-----------------------------------------------------------------------------
(***************************************************************************)
(* The opened orders, which only a commit adds to.                         *)
(***************************************************************************)
LEMMA OpenedRows ==
  ASSUME IInv
  PROVE  /\ IsFiniteSet(Opened) /\ Opened \in SUBSET OrderIds
         /\ \A o \in Opened : /\ grants[o] = 1 /\ status[o] \in {"completed", "cancelled"}
                              /\ orders[o] \in OrderRow
<1>1. Opened \in SUBSET OrderIds /\ IsFiniteSet(Opened)
  <2>1. Opened \in SUBSET OrderIds
    BY DEF Opened
  <2> QED BY <2>1, FS_Subset, OrdersAssumption
<1>2. ASSUME NEW o \in Opened
      PROVE  /\ grants[o] = 1 /\ status[o] \in {"completed", "cancelled"}
             /\ orders[o] \in OrderRow
  <2>1. o \in OrderIds /\ grants[o] > 0 /\ grants[o] \in Nat /\ status[o] \in Statuses
    BY <1>2 DEF Opened, IInv, TypeOK, RowsOK, WorldOK
  <2>2. grants[o] = 1 /\ status[o] # "absent" /\ status[o] \notin OpenStatuses
    BY <2>1 DEF IInv, OpenedOnce, AbsentUnopened
  <2>3. orders[o] \in OrderRow
    BY <2>1, <2>2 DEF IInv, TypeOK, RowsOK
  <2> QED BY <2>1, <2>2, <2>3 DEF Statuses, OpenStatuses
<1> QED BY <1>1, <1>2

\* A commit opens the order of its session, for the first time.
LEMMA CommitOpens ==
  ASSUME IInv, NEW s \in Sessions, Commit(s)
  PROVE  /\ cur[s] \in OrderIds /\ cur[s] \notin Opened /\ Open(cur[s])
         /\ Opened' = Opened \cup {cur[s]} /\ grants'[cur[s]] = 1
         /\ \A o \in Opened : grants'[o] = grants[o]
         /\ Overwritten' = Overwritten /\ UNCHANGED orders
         /\ orders[cur[s]] \in OrderRow /\ orders[cur[s]].user \in Users
<1> DEFINE o == cur[s]
<1>1. /\ pc[s] = "commit" /\ via[s] # "calc" /\ UNCHANGED orders
      /\ status' = [status EXCEPT ![o] = "completed"]
      /\ grants' = [grants EXCEPT ![o] = @ + 1]
  BY DEF Commit
<1>2. /\ o \in OrderIds /\ Open(o) /\ orders[o] \in OrderRow /\ orders[o].user \in Users
  BY <1>1, AtWork DEF SessionInv, OrderHeld, Holding
<1>3. grants[o] = 0 /\ grants \in [OrderIds -> Nat] /\ status \in [OrderIds -> Statuses]
  BY <1>2 DEF IInv, OpenedOnce, Open, TypeOK, RowsOK, WorldOK
<1>4. /\ grants'[o] = 1 /\ \A x \in OrderIds \ {o} : grants'[x] = grants[x]
      /\ status'[o] = "completed" /\ \A x \in OrderIds \ {o} : status'[x] = status[x]
  BY <1>1, <1>2, <1>3
<1>5. o \notin Opened
  BY <1>3 DEF Opened
<1>6. Opened' = Opened \cup {o}
  BY <1>2, <1>4 DEF Opened
<1>7. Overwritten' = Overwritten
  BY <1>4, <1>5, <1>6 DEF Overwritten, Opened
<1> QED BY <1>1, <1>2, <1>4, <1>5, <1>6, <1>7 DEF Opened

\* No other step opens one, and what a cancellation overwrote stays so.
LEMMA OpenedKept ==
  ASSUME IInv, NEW s \in Sessions, SessionStep(s), ~Commit(s)
  PROVE  /\ UNCHANGED <<users, stock, grants>> /\ Opened' = Opened
         /\ \A o \in Opened : orders'[o] = orders[o]
         /\ Overwritten \subseteq Overwritten'
<1>1. UNCHANGED <<users, stock, grants>>
  BY DEF SessionStep, Books, Inserted, CancelWrite, CalcCommit, world
<1>2. Opened' = Opened
  BY <1>1 DEF Opened
<1>3. \A o \in Opened : orders'[o] = orders[o]
  BY OpenedRows, OrdersStay
<1>4. ASSUME NEW o \in Overwritten PROVE status'[o] = "cancelled"
  <2>1. o \in OrderIds /\ status[o] = "cancelled" /\ status \in [OrderIds -> Statuses]
    BY DEF Overwritten, Opened, IInv, TypeOK, RowsOK
  <2> QED BY <2>1 DEF SessionStep, Books, Inserted, CancelWrite, CalcCommit
<1>5. Overwritten \subseteq Overwritten'
  BY <1>2, <1>4 DEF Overwritten
<1> QED BY <1>1, <1>2, <1>3, <1>5

-----------------------------------------------------------------------------
(***************************************************************************)
(* Coupons.  From LockCoupon to the commit the coupon row is locked, so    *)
(* nobody else opens an order that uses the coupon.                        *)
(***************************************************************************)
Uses(c) == {o \in Opened : Consumes(orders[o]) /\ orders[o].coupon = c}

CouponLeft(s) ==
  LET ord == orders[cur[s]] IN
  pc[s] \in {"settle", "inviter", "reply", "commit"} /\ via[s] # "calc" /\ Consumes(ord) =>
    LET used == UsedBy(ord.coupon, ord.user) IN
    used \cap Overwritten = {} => Cardinality(used) < CouponInfo[ord.coupon].perUser

CouponInv == CouponLedger /\ CouponPerUser /\ \A s \in Sessions : CouponLeft(s)

\* An order that uses a coupon has one.
LEMMA CouponOf ==
  ASSUME NEW ord \in OrderRow, Consumes(ord)
  PROVE  ord.coupon \in Coupons /\ ord.coupon \in Rows
BY DEF Consumes, OrderRow, Rows

\* At the start no order has used a coupon.
LEMMA InitCoupon == Init => CouponInv
<1> SUFFICES ASSUME Init PROVE CouponInv
  OBVIOUS
<1>1. Opened = {}
  BY DEF Init, Opened
<1>2. Cardinality({}) = 0
  BY FS_EmptySet
<1>3. CouponLedger
  <2> SUFFICES ASSUME NEW c \in Coupons, CouponInfo[c].limited
               PROVE  /\ stock[c] + Cardinality(Uses(c)) = StartStock[c]
                      /\ Cardinality(Uses(c)) <= StartStock[c]
    BY DEF CouponLedger, Uses
  <2>1. Uses(c) = {}
    BY <1>1 DEF Uses
  <2>2. stock[c] = StartStock[c] /\ StartStock[c] \in Nat
    BY OrdersAssumption DEF Init
  <2> QED BY <1>2, <2>1, <2>2
<1>4. CouponPerUser
  <2> SUFFICES ASSUME NEW c \in Coupons, NEW u \in Users
               PROVE  Cardinality(UsedBy(c, u)) <= CouponInfo[c].perUser
    BY DEF CouponPerUser
  <2>1. UsedBy(c, u) = {}
    BY <1>1 DEF UsedBy
  <2>2. CouponInfo[c].perUser \in Nat
    BY RowsAssumption
  <2> QED BY <1>2, <2>1, <2>2
<1>5. \A s \in Sessions : CouponLeft(s)
  BY DEF Init, CouponLeft
<1> QED BY <1>3, <1>4, <1>5 DEF CouponInv

\* The commit of an order adds it to the uses of its coupon, if it has one.
LEMMA UsesGrow ==
  ASSUME IInv, NEW s \in Sessions, Commit(s), NEW c, NEW u
  PROVE  LET o == cur[s] IN
         /\ Uses(c)' = IF Consumes(orders[o]) /\ orders[o].coupon = c
                       THEN Uses(c) \cup {o} ELSE Uses(c)
         /\ UsedBy(c, u)' = IF Consumes(orders[o]) /\ orders[o].coupon = c /\ orders[o].user = u
                            THEN UsedBy(c, u) \cup {o} ELSE UsedBy(c, u)
         /\ cur[s] \notin Uses(c) /\ cur[s] \notin UsedBy(c, u)
         /\ IsFiniteSet(Uses(c)) /\ IsFiniteSet(UsedBy(c, u))
<1>1. /\ cur[s] \notin Opened /\ Opened' = Opened \cup {cur[s]} /\ UNCHANGED orders
      /\ IsFiniteSet(Opened)
  BY CommitOpens, OpenedRows
<1>2. IsFiniteSet(Uses(c)) /\ IsFiniteSet(UsedBy(c, u))
  <2>1. Uses(c) \in SUBSET Opened /\ UsedBy(c, u) \in SUBSET Opened
    BY DEF Uses, UsedBy
  <2> QED BY <1>1, <2>1, FS_Subset
<1>3. cur[s] \notin Uses(c) /\ cur[s] \notin UsedBy(c, u)
  BY <1>1 DEF Uses, UsedBy
<1> QED BY <1>1, <1>2, <1>3 DEF Uses, UsedBy

\* The uses stay the same in a step that opens nothing.
LEMMA UsesStay ==
  ASSUME IInv, NEW s \in Sessions, SessionStep(s), ~Commit(s), NEW c, NEW u
  PROVE  Uses(c)' = Uses(c) /\ UsedBy(c, u)' = UsedBy(c, u)
BY OpenedKept DEF Uses, UsedBy

\* The ledger: the unit that is taken is the one the opened order uses.
LEMMA LedgerKept ==
  ASSUME IInv, CouponLedger, NEW s \in Sessions, SessionStep(s)
  PROVE  CouponLedger'
<1> SUFFICES ASSUME NEW c \in Coupons, CouponInfo[c].limited
             PROVE  /\ stock'[c] + Cardinality(Uses(c)') = StartStock[c]
                    /\ Cardinality(Uses(c)') <= StartStock[c]
  BY DEF CouponLedger, Uses
<1>1. /\ stock[c] + Cardinality(Uses(c)) = StartStock[c]
      /\ Cardinality(Uses(c)) <= StartStock[c]
      /\ stock[c] \in Nat /\ StartStock[c] \in Nat /\ stock \in [Coupons -> Nat]
  BY OrdersAssumption DEF CouponLedger, Uses, IInv, TypeOK, RowsOK
<1>2. CASE Commit(s)
  <2> DEFINE o == cur[s]
             ord == orders[o]
  <2>1. StockWrites(ord) /\ CouponHeld(s) /\ pc[s] = "commit" /\ via[s] # "calc"
    BY <1>2, AtWork DEF Commit, SessionInv
  <2>2. Cardinality(Uses(c)) \in Nat
    BY <1>2, UsesGrow, FS_CardinalityType
  <2>3. CASE Consumes(ord) /\ ord.coupon = c
    <3>1. stock[c] > 0 /\ stock'[c] = stock[c] - 1
      BY <1>1, <2>1, <2>3 DEF CouponHeld, StockWrites
    <3>2. Cardinality(Uses(c)') = Cardinality(Uses(c)) + 1
      BY <1>2, <2>3, UsesGrow, FS_AddElement
    <3> QED BY <1>1, <2>2, <3>1, <3>2
  <2>4. CASE ~(Consumes(ord) /\ ord.coupon = c)
    <3>1. stock'[c] = stock[c]
      BY <1>1, <2>1, <2>4 DEF StockWrites
    <3>2. Uses(c)' = Uses(c)
      BY <1>2, <2>4, UsesGrow
    <3> QED BY <1>1, <3>1, <3>2
  <2> QED BY <2>3, <2>4
<1>3. CASE ~Commit(s)
  <2>1. Uses(c)' = Uses(c) /\ UNCHANGED stock
    BY <1>3, UsesStay, OpenedKept
  <2> QED BY <1>1, <2>1
<1> QED BY <1>2, <1>3

\* The order that is opened is within the limit of its buyer.
LEMMA PerUserKept ==
  ASSUME IInv, CouponInv, NEW s \in Sessions, SessionStep(s)
  PROVE  CouponPerUser'
<1> SUFFICES ASSUME NEW c \in Coupons, NEW u \in Users, UsedBy(c, u)' \cap Overwritten' = {}
             PROVE  Cardinality(UsedBy(c, u)') <= CouponInfo[c].perUser
  BY DEF CouponPerUser
<1>1. CASE Commit(s)
  <2> DEFINE o == cur[s]
             ord == orders[o]
  <2>1. UsedBy(c, u) \cap Overwritten = {}
    BY <1>1, UsesGrow, CommitOpens
  <2>2. CASE Consumes(ord) /\ ord.coupon = c /\ ord.user = u
    <3>1. CouponLeft(s) /\ pc[s] = "commit" /\ via[s] # "calc"
      BY <1>1 DEF Commit, CouponInv
    <3>2. Cardinality(UsedBy(c, u)) < CouponInfo[c].perUser
      BY <2>1, <2>2, <3>1 DEF CouponLeft
    <3>3. Cardinality(UsedBy(c, u)') = Cardinality(UsedBy(c, u)) + 1
      BY <1>1, <2>2, UsesGrow, FS_AddElement
    <3>4. Cardinality(UsedBy(c, u)) \in Nat /\ CouponInfo[c].perUser \in Nat
      BY <1>1, UsesGrow, FS_CardinalityType, RowsAssumption
    <3> QED BY <3>2, <3>3, <3>4
  <2>3. CASE ~(Consumes(ord) /\ ord.coupon = c /\ ord.user = u)
    BY <1>1, <2>1, <2>3, UsesGrow DEF CouponInv, CouponPerUser
  <2> QED BY <2>2, <2>3
<1>2. CASE ~Commit(s)
  <2>1. UsedBy(c, u)' = UsedBy(c, u) /\ UsedBy(c, u) \cap Overwritten = {}
    BY <1>2, UsesStay, OpenedKept
  <2> QED BY <2>1 DEF CouponInv, CouponPerUser
<1> QED BY <1>1, <1>2

\* Nobody uses a coupon that another session holds.
LEMMA LeftKept ==
  ASSUME IInv, CouponInv, NEW s \in Sessions, SessionStep(s), NEW x \in Sessions, x # s
  PROVE  CouponLeft(x)'
<1> DEFINE ord == orders[cur[x]]
<1> PICK c, u : c = ord.coupon /\ u = ord.user
  OBVIOUS
<1>1. SessionKept(x) /\ CouponLeft(x)
  BY DEF SessionStep, CouponInv
<1> SUFFICES ASSUME pc[x] \in {"settle", "inviter", "reply", "commit"}, via[x] # "calc",
                    Consumes(orders'[cur[x]])
             PROVE  CouponLeft(x)'
  BY <1>1 DEF SessionKept, CouponLeft
<1>2. /\ orders'[cur[x]] = ord /\ ord \in OrderRow /\ SessionInv(x)
  BY AtWork, OrdersStay
<1>3. Consumes(ord) /\ holder[c] = x
  BY <1>2 DEF SessionInv, CouponHeld
<1>4. UsedBy(c, u)' = UsedBy(c, u) /\ Overwritten \subseteq Overwritten'
  <2>1. CASE Commit(s)
    <3>1. SessionInv(s) /\ pc[s] = "commit" /\ via[s] # "calc"
      BY <2>1, AtWork DEF Commit
    <3>2. Consumes(orders[cur[s]]) => holder[orders[cur[s]].coupon] = s
      BY <3>1 DEF SessionInv, CouponHeld
    <3>3. ~(Consumes(orders[cur[s]]) /\ orders[cur[s]].coupon = c)
      BY <1>3, <3>2
    <3> QED BY <2>1, <3>3, UsesGrow, CommitOpens
  <2>2. CASE ~Commit(s)
    BY <2>2, UsesStay, OpenedKept
  <2> QED BY <2>1, <2>2
<1>5. UsedBy(c, u) \cap Overwritten' = {} => Cardinality(UsedBy(c, u)) < CouponInfo[c].perUser
  BY <1>1, <1>3, <1>4 DEF CouponLeft
<1>6. UsedBy(c, u)' \cap Overwritten' = {} => Cardinality(UsedBy(c, u)') < CouponInfo[c].perUser
  BY <1>4, <1>5
<1> QED BY <1>1, <1>2, <1>6 DEF SessionKept, CouponLeft

\* What LockCoupon counts are the opened orders of the buyer, and those that
\* are paid.
LEMMA LeftGoesOn ==
  ASSUME IInv, CouponInv, NEW s \in Sessions, UNCHANGED Books, GoesOn(s)
  PROVE  CouponLeft(s)'
<1> DEFINE o == cur[s]
           ord == orders[o]
           c == ord.coupon
           u == ord.user
<1>1. /\ UNCHANGED <<orders, grants, status>> /\ cur'[s] = o /\ via'[s] = via[s]
      /\ CouponLeft(s) /\ SessionOK /\ pc'[s] \in Late
  BY DEF Books, GoesOn, CouponInv, IInv, TypeOK
<1>2. UNCHANGED <<Opened, Overwritten>> /\ UsedBy(c, u)' = UsedBy(c, u)
  BY <1>1 DEF Opened, Overwritten, UsedBy
<1> SUFFICES ASSUME pc'[s] \in {"settle", "inviter", "reply", "commit"}, via[s] # "calc",
                    Consumes(ord), UsedBy(c, u) \cap Overwritten = {}
             PROVE  Cardinality(UsedBy(c, u)) < CouponInfo[c].perUser
  BY <1>1, <1>2 DEF CouponLeft
<1>3. CASE pc[s] \in {"settle", "inviter", "reply", "commit"}
  BY <1>1, <1>3 DEF CouponLeft
<1>4. CASE LockCoupon(s)
  <2>1. /\ pc[s] = "coupon" /\ CouponUsable(c, u, ord.plan, ord.period, o)
    BY <1>1, <1>4 DEF LockCoupon, Rollback, Finish, GoTo, SessionOK, Late
  <2>2. Cardinality(UsesOf(c, u, o)) < CouponInfo[c].perUser
    BY <2>1 DEF CouponUsable
  <2>3. o \in OrderIds /\ ord \in OrderRow /\ SessionInv(s)
    BY <2>1, AtWork
  <2>4. Open(o)
    BY <2>1, <2>3 DEF SessionInv, OrderHeld, Holding
  <2>5. UsedBy(c, u) \subseteq UsesOf(c, u, o)
    <3> SUFFICES ASSUME NEW x \in UsedBy(c, u) PROVE x \in UsesOf(c, u, o)
      OBVIOUS
    <3>1. x \in Opened /\ x \notin Overwritten /\ orders[x].coupon = c /\ orders[x].user = u
      BY DEF UsedBy
    <3>2. x \in OrderIds /\ status[x] = "completed"
      BY <3>1, OpenedRows DEF Overwritten
    <3> QED BY <2>4, <3>1, <3>2 DEF UsesOf, Open, OpenStatuses
  <2>6. IsFiniteSet(UsesOf(c, u, o))
    <3>1. UsesOf(c, u, o) \in SUBSET OrderIds
      BY DEF UsesOf
    <3> QED BY <3>1, FS_Subset, OrdersAssumption
  <2>7. /\ Cardinality(UsedBy(c, u)) <= Cardinality(UsesOf(c, u, o))
        /\ Cardinality(UsedBy(c, u)) \in Nat /\ Cardinality(UsesOf(c, u, o)) \in Nat
    BY <2>5, <2>6, FS_Subset, FS_CardinalityType
  <2>8. c \in Coupons /\ CouponInfo[c].perUser \in Nat
    BY <2>3, CouponOf, RowsAssumption
  <2> QED BY <2>2, <2>7, <2>8
<1>5. CASE LockUser(s)
  <2>1. pc[s] = "user" /\ pc'[s] = IF IsDeposit(ord) THEN "settle" ELSE "plan"
    BY <1>1, <1>5 DEF LockUser, Acquire, GoTo, SessionOK
  <2> QED BY <2>1 DEF Consumes
<1>6. CASE LockPlan(s)
  <2>1. pc'[s] = "coupon"
    BY <1>1, <1>6 DEF LockPlan, Acquire, Rollback, Finish, GoTo, SessionOK, Late
  <2> QED BY <2>1
<1>7. CASE CalcLock(s)
  <2>1. SessionInv(s) /\ pc[s] = "calc"
    BY <1>7 DEF CalcLock, IInv
  <2> QED BY <2>1 DEF SessionInv
<1> QED BY <1>3, <1>4, <1>5, <1>6, <1>7 DEF GoesOn, Settle, LockInviter, Reply

\* Every step keeps the coupon ledger and its limits.
LEMMA NextCoupon == IInv /\ IInv' /\ CouponInv /\ [Next]_vars => CouponInv'
<1> SUFFICES ASSUME IInv, IInv', CouponInv, [Next]_vars PROVE CouponInv'
  OBVIOUS
<1>1. ASSUME NEW s \in Sessions, SessionStep(s) PROVE CouponInv'
  <2>1. CouponLeft(s)'
    BY <1>1, LeftGoesOn DEF SessionStep, Rests, CouponLeft, Late
  <2> QED BY <1>1, <2>1, LedgerKept, PerUserKept, LeftKept DEF CouponInv
<1>2. CASE OutsideStep \/ UNCHANGED vars
  BY <1>2 DEF OutsideStep, Books, session, vars, rows, world, CouponInv, CouponLedger,
     CouponPerUser, CouponLeft, Opened, Overwritten, UsedBy
<1> QED BY <1>1, <1>2, StepKinds

\* The coupon columns are right at all times.
LEMMA AlwaysCoupon == Spec => []CouponInv
BY InitCoupon, NextCoupon, AlwaysIInv, PTL DEF Spec

\* consume_for_paid_order: a limited coupon is used once for every unit of its
\* stock, by the opened orders and by nothing else.
THEOREM CouponsAddUp == Spec => []CouponLedger
<1>1. CouponInv => CouponLedger
  BY DEF CouponInv
<1> QED BY <1>1, AlwaysCoupon, PTL

\* _validate_coupon under the coupon's lock: no user opens more orders with a
\* coupon than its limit per user, unless a stale cancellation hid one.
THEOREM CouponLimitKept == Spec => []CouponPerUser
<1>1. CouponInv => CouponPerUser
  BY DEF CouponInv
<1> QED BY <1>1, AlwaysCoupon, PTL

-----------------------------------------------------------------------------
(***************************************************************************)
(* Balances.                                                               *)
(***************************************************************************)
Spending(u) == [o \in Bought(u) |-> grants[o] * orders[o].balance]
Income(u) ==
  [o \in PaidIn(u) |-> grants[o] * (orders[o].total + DepositBonus(orders[o].total))]

Balanced(u) ==
  users[u].balance + SumFunction(Spending(u))
    = StartRows[u].balance + SumFunction(Income(u))

\* BalanceLedger, user by user.
LEMMA LedgerIsBalanced == BalanceLedger <=> \A u \in Users : Balanced(u)
BY DEF BalanceLedger, Balanced, Spending, Income

\* What an opened order brought or took is an amount.
LEMMA AmountsType ==
  ASSUME IInv, NEW u
  PROVE  /\ IsFiniteSet(Bought(u)) /\ IsFiniteSet(PaidIn(u))
         /\ Spending(u) \in [Bought(u) -> Nat] /\ Income(u) \in [PaidIn(u) -> Nat]
<1>1. Bought(u) \in SUBSET Opened /\ PaidIn(u) \in SUBSET Opened
  BY DEF Bought, PaidIn
<1>2. IsFiniteSet(Bought(u)) /\ IsFiniteSet(PaidIn(u))
  BY <1>1, OpenedRows, FS_Subset
<1>3. ASSUME NEW o \in Opened
      PROVE  /\ grants[o] * orders[o].balance \in Nat
             /\ grants[o] * (orders[o].total + DepositBonus(orders[o].total)) \in Nat
  <2>1. grants[o] = 1 /\ orders[o].balance \in Nat /\ orders[o].total \in Nat
    BY <1>3, OpenedRows DEF OrderRow
  <2>2. DepositBonus(orders[o].total) \in Nat
    BY <2>1, DepositBonusType
  <2> QED BY <2>1, <2>2
<1> QED BY <1>1, <1>2, <1>3 DEF Spending, Income

\* What the opening of an order does to a balance.
LEMMA FulfilledBalance ==
  ASSUME NEW row \in UserRow, NEW ord, NEW t
  PROVE  Fulfilled(row, ord, t).balance =
           IF IsDeposit(ord) THEN row.balance + ord.total + DepositBonus(ord.total)
                             ELSE row.balance - ord.balance
<1>1. DOMAIN row = {"balance", "plan", "expired"}
  BY DEF UserRow
<1> QED BY <1>1 DEF Fulfilled

\* A commit adds the order to one side of its buyer's ledger.
LEMMA CommitBalances ==
  ASSUME IInv, IInv', HeldInv, NEW s \in Sessions, Commit(s), NEW u \in Users, Balanced(u)
  PROVE  Balanced(u)'
<1> DEFINE o == cur[s]
           ord == orders[o]
<1>1. /\ o \in OrderIds /\ o \notin Opened /\ Opened' = Opened \cup {o}
      /\ grants'[o] = 1 /\ \A x \in Opened : grants'[x] = grants[x]
      /\ UNCHANGED orders /\ ord \in OrderRow /\ ord.user \in Users
  BY CommitOpens
<1>2. /\ users \in [Users -> UserRow] /\ users' = [users EXCEPT ![ord.user] = work[s].row]
      /\ StartRows[u].balance \in Nat /\ users[u].balance \in Nat
  BY OrdersAssumption DEF Commit, IInv, TypeOK, RowsOK, UserRow
<1>3. /\ IsFiniteSet(Bought(u)) /\ IsFiniteSet(PaidIn(u))
      /\ Spending(u) \in [Bought(u) -> Nat] /\ Income(u) \in [PaidIn(u) -> Nat]
      /\ Spending(u)' \in [Bought(u)' -> Nat] /\ Income(u)' \in [PaidIn(u)' -> Nat]
  <2>1. (IsFiniteSet(Bought(u)) /\ IsFiniteSet(PaidIn(u))
        /\ Spending(u) \in [Bought(u) -> Nat] /\ Income(u) \in [PaidIn(u) -> Nat])
    BY AmountsType
  <2>2. Spending(u)' \in [Bought(u)' -> Nat] /\ Income(u)' \in [PaidIn(u)' -> Nat]
    <3>1. ASSUME NEW x \in Opened'
          PROVE  /\ grants'[x] * orders'[x].balance \in Nat
                 /\ grants'[x] * (orders'[x].total + DepositBonus(orders'[x].total)) \in Nat
      <4>1. grants'[x] = 1 /\ orders'[x] \in OrderRow
        BY <1>1, <3>1, OpenedRows
      <4>2. orders'[x].balance \in Nat /\ orders'[x].total \in Nat
        BY <4>1 DEF OrderRow
      <4>3. DepositBonus(orders'[x].total) \in Nat
        BY <4>2, DepositBonusType
      <4> QED BY <4>1, <4>2, <4>3
    <3> QED BY <3>1 DEF Spending, Income, Bought, PaidIn
  <2> QED BY <2>1, <2>2
<1>4. /\ SumFunction(Spending(u)) \in Nat /\ SumFunction(Income(u)) \in Nat
  BY <1>3, SumFunctionType
<1>5. /\ \A x \in Bought(u) : Spending(u)'[x] = Spending(u)[x]
      /\ \A x \in PaidIn(u) : Income(u)'[x] = Income(u)[x]
  BY <1>1 DEF Spending, Income, Bought, PaidIn
<1>6. CASE u # ord.user
  <2>1. Bought(u)' = Bought(u) /\ PaidIn(u)' = PaidIn(u) /\ users'[u] = users[u]
    BY <1>1, <1>2, <1>6 DEF Bought, PaidIn
  <2>2. Spending(u)' = Spending(u) /\ Income(u)' = Income(u)
    BY <1>3, <1>5, <2>1
  <2> QED BY <2>1, <2>2 DEF Balanced
<1>7. CASE u = ord.user
  <2>1. /\ Payable(users[u], ord) /\ \E t \in 0..now : work[s].row = Fulfilled(users[u], ord, t)
    BY <1>7 DEF Commit, HeldInv, RowDue, Decided
  <2>2. users'[u].balance = IF IsDeposit(ord)
                            THEN users[u].balance + ord.total + DepositBonus(ord.total)
                            ELSE users[u].balance - ord.balance
    BY <1>2, <1>7, <2>1, FulfilledBalance
  <2>3. ord.total \in Nat /\ ord.balance \in Nat /\ DepositBonus(ord.total) \in Nat
    BY <1>1, DepositBonusType DEF OrderRow
  <2>4. CASE IsDeposit(ord)
    <3>1. Bought(u)' = Bought(u) /\ PaidIn(u)' = PaidIn(u) \cup {o} /\ o \notin PaidIn(u)
      BY <1>1, <1>7, <2>4 DEF Bought, PaidIn
    <3>2. Spending(u)' = Spending(u)
      BY <1>3, <1>5, <3>1
    <3>3. Income(u)'[o] = 1 * (ord.total + DepositBonus(ord.total))
      BY <1>1, <3>1 DEF Income
    <3>4. SumFunction(Income(u)') = Income(u)'[o] + SumFunction(Income(u))
      <4>1. PICK f, e, S, x : f = Income(u) /\ e = Income(u)' /\ S = PaidIn(u) /\ x = o
        OBVIOUS
      <4>2. /\ IsFiniteSet(S) /\ x \notin S /\ f \in [S -> Nat] /\ e \in [S \cup {x} -> Nat]
            /\ \A y \in S : e[y] = f[y]
        BY <1>3, <1>5, <3>1, <4>1
      <4>3. SumFunction(e) = e[x] + SumFunction(f)
        BY ONLY <4>2, SumFunctionGrows
      <4> QED BY <4>1, <4>3
    <3>5. /\ users'[u].balance = users[u].balance + ord.total + DepositBonus(ord.total)
          /\ users[u].balance + SumFunction(Spending(u))
               = StartRows[u].balance + SumFunction(Income(u))
      BY <2>2, <2>4 DEF Balanced
    <3>6. users'[u].balance + SumFunction(Spending(u))
            = StartRows[u].balance + SumFunction(Income(u)')
      BY <1>2, <1>4, <2>3, <3>3, <3>4, <3>5
    <3> QED BY <3>2, <3>6 DEF Balanced
  <2>5. CASE ~IsDeposit(ord)
    <3>1. PaidIn(u)' = PaidIn(u) /\ Bought(u)' = Bought(u) \cup {o} /\ o \notin Bought(u)
      BY <1>1, <1>7, <2>5 DEF Bought, PaidIn
    <3>2. Income(u)' = Income(u)
      BY <1>3, <1>5, <3>1
    <3>3. Spending(u)'[o] = 1 * ord.balance
      BY <1>1, <3>1 DEF Spending
    <3>4. SumFunction(Spending(u)') = Spending(u)'[o] + SumFunction(Spending(u))
      BY <1>3, <1>5, <3>1, SumFunctionGrows
    <3>5. /\ users'[u].balance = users[u].balance - ord.balance
          /\ users[u].balance + SumFunction(Spending(u))
               = StartRows[u].balance + SumFunction(Income(u))
      BY <2>2, <2>5 DEF Balanced
    <3>6. users'[u].balance + SumFunction(Spending(u)')
            = StartRows[u].balance + SumFunction(Income(u))
      BY <1>2, <1>4, <2>3, <3>3, <3>4, <3>5
    <3> QED BY <3>2, <3>6 DEF Balanced
  <2> QED BY <2>4, <2>5
<1> QED BY <1>6, <1>7

\* Every step keeps every balance explained.
LEMMA NextBalance == IInv /\ IInv' /\ HeldInv /\ BalanceLedger /\ [Next]_vars => BalanceLedger'
<1> SUFFICES ASSUME IInv, IInv', HeldInv, BalanceLedger, [Next]_vars, NEW u \in Users
             PROVE  Balanced(u)'
  BY LedgerIsBalanced DEF BalanceLedger, Balanced, Spending, Income
<1>1. Balanced(u)
  BY LedgerIsBalanced
<1>2. ASSUME NEW s \in Sessions, SessionStep(s), ~Commit(s) PROVE Balanced(u)'
  <2>1. /\ UNCHANGED <<users, grants>> /\ Opened' = Opened
        /\ \A o \in Opened : orders'[o] = orders[o]
    BY <1>2, OpenedKept
  <2>2. Bought(u)' = Bought(u) /\ PaidIn(u)' = PaidIn(u)
    BY <2>1 DEF Bought, PaidIn
  <2>3. Spending(u)' = Spending(u) /\ Income(u)' = Income(u)
    BY <2>1, <2>2 DEF Spending, Income, Bought, PaidIn
  <2> QED BY <1>1, <2>1, <2>3 DEF Balanced
<1>3. CASE OutsideStep \/ UNCHANGED vars
  <2>1. UNCHANGED <<users, grants, orders>>
    BY <1>3 DEF OutsideStep, Books, vars, rows, world
  <2> QED BY <1>1, <2>1 DEF Balanced, Spending, Income, Bought, PaidIn, Opened
<1> QED BY <1>1, <1>2, <1>3, StepKinds, CommitBalances

\* At the start every user has the balance of the start.
LEMMA InitBalance == Init => BalanceLedger
<1> SUFFICES ASSUME Init, NEW u \in Users PROVE Balanced(u)
  BY LedgerIsBalanced
<1>1. Opened = {} /\ users[u] = StartRows[u]
  BY DEF Init, Opened
<1>2. DOMAIN Spending(u) = {} /\ DOMAIN Income(u) = {}
  BY <1>1 DEF Spending, Income, Bought, PaidIn
<1>3. SumFunction(Spending(u)) = 0 /\ SumFunction(Income(u)) = 0
  BY <1>2, SumFunctionEmpty
<1> QED BY <1>1, <1>3 DEF Balanced

\* _process_paid_order under the user's lock: every balance is what the opened
\* orders make it, however sessions interleave, fail and are retried.
THEOREM BalancesAddUp == Spec => []BalanceLedger
BY InitBalance, NextBalance, AlwaysIInv, AlwaysHeld, PTL DEF Spec

-----------------------------------------------------------------------------
(***************************************************************************)
(* Commissions.  Who is about to pay one holds the order, so the order has *)
(* no log yet; and with the first-order setting nobody else is about to    *)
(* pay one for the same buyer: an opening holds the buyer's row, and the   *)
(* commission job only looks at orders that are completed, which an        *)
(* opening of another order counts.                                        *)
(***************************************************************************)
Crediting(s) == pc[s] \in Decided /\ work[s].outcome = "credit"

\* No stale cancellation has hidden an order of the user.
Unhidden(u) == \A o \in Overwritten : orders[o].user # u

Amounts(u) == [l \in LoggedFor(u) |-> l.amount]

LogsRight ==
  /\ IsFiniteSet(logs)
  /\ \A l \in logs : /\ l.order \in Opened /\ orders[l.order].user = l.user
                     /\ orders[l.order].plan # None

\* What a session that credits a commission relies on.
CreditDue(s) ==
  LET o == cur[s]
      u == orders[o].user
  IN  Crediting(s) =>
        /\ orders[o].plan # None
        /\ \A l \in logs : l.order # o
        /\ work[s].seen <= SumFunction(Amounts(Inviter[u]))
        /\ via[s] = "calc" => status[o] = "completed"

\* It is the only one for its buyer, and there is no log for it yet.
CreditAlone(s) ==
  LET u == orders[cur[s]].user IN
  Crediting(s) /\ FirstTimeOnly /\ Unhidden(u) =>
    /\ \A l \in logs : l.user # u
    /\ \A x \in Sessions : Crediting(x) /\ orders[cur[x]].user = u => x = s
    /\ via[s] # "calc" => \A x \in Opened : orders[x].user = u => orders[x].plan = None

CommissionInv ==
  /\ LogsRight
  /\ CommissionRight
  /\ \A s \in Sessions : CreditDue(s) /\ CreditAlone(s)

\* At the start nobody has earned anything.
LEMMA InitCommission == Init => CommissionInv
<1> SUFFICES ASSUME Init PROVE CommissionInv
  OBVIOUS
<1>1. logs = {} /\ IsFiniteSet(logs)
  BY FS_EmptySet DEF Init
<1>2. ASSUME NEW u \in Users PROVE earned[u] <= SumFunction([l \in LoggedFor(u) |-> l.amount])
  <2>1. DOMAIN [l \in LoggedFor(u) |-> l.amount] = {}
    BY <1>1 DEF LoggedFor
  <2>2. earned[u] = 0
    BY DEF Init
  <2> QED BY <2>1, <2>2, SumFunctionEmpty
<1>3. \A s \in Sessions : ~Crediting(s)
  BY DEF Init, Crediting, Decided
<1> QED BY <1>1, <1>2, <1>3
    DEF CommissionInv, LogsRight, CommissionRight, CommissionBacked, FirstOrderOnly,
        CreditDue, CreditAlone

\* Logged commissions are amounts, and finitely many.
LEMMA AmountsAreNat ==
  ASSUME IInv, LogsRight, NEW u
  PROVE  /\ IsFiniteSet(LoggedFor(u)) /\ Amounts(u) \in [LoggedFor(u) -> Nat]
         /\ SumFunction(Amounts(u)) \in Nat
<1>1. LoggedFor(u) \in SUBSET logs /\ logs \subseteq LogRow
  BY DEF LoggedFor, IInv, TypeOK, RowsOK
<1>2. IsFiniteSet(LoggedFor(u)) /\ Amounts(u) \in [LoggedFor(u) -> Nat]
  BY <1>1, FS_Subset DEF LogsRight, Amounts, LogRow
<1> QED BY <1>2, SumFunctionType

\* The log row a session that credits will write.
NewLog(s) ==
  [order |-> cur[s], user |-> orders[cur[s]].user,
   inviter |-> Inviter[orders[cur[s]].user], amount |-> work[s].amount]

\* A step that logs nothing pays nothing; one that does is a commit of a
\* session that credits, under the lock of its order.
LEMMA LogWriters ==
  ASSUME IInv, CommissionInv, NEW s \in Sessions, SessionStep(s)
  PROVE  \/ UNCHANGED <<earned, logs>>
         \/ LET o == cur[s]
                u == orders[o].user
                inv == Inviter[u]
            IN  /\ Commit(s) \/ CalcCommit(s)
                /\ Crediting(s) /\ Rests(s)
                /\ o \in OrderIds /\ holder[o] = s /\ inv \in Users /\ u \in Users
                /\ NewLog(s) \in LogRow /\ NewLog(s) \notin logs
                /\ logs' = logs \cup {NewLog(s)}
                /\ earned' = [earned EXCEPT ![inv] = work[s].seen + work[s].amount]
                /\ o \in Opened' /\ Overwritten' = Overwritten /\ UNCHANGED orders
                /\ work[s].seen \in Nat /\ work[s].amount \in Nat
<1>1. CASE ~(Commit(s) \/ CalcCommit(s))
  BY <1>1 DEF SessionStep, Books, Inserted, CancelWrite
<1>2. CASE Commit(s) \/ CalcCommit(s)
  <2> DEFINE o == cur[s]
             u == orders[o].user
             inv == Inviter[u]
             l == NewLog(s)
  <2>1. /\ pc[s] = "commit" /\ CommissionWrites(o, work[s]) /\ UNCHANGED orders
    BY <1>2 DEF Commit, CalcCommit
  <2>2. /\ o \in OrderIds /\ u \in Users /\ work[s] \in Opening /\ SessionInv(s)
    BY <2>1, AtWork DEF WorkOK
  <2>3. CASE work[s].outcome # "credit"
    BY <2>1, <2>3 DEF CommissionWrites
  <2>4. CASE work[s].outcome = "credit"
    <3>1. /\ earned' = [earned EXCEPT ![inv] = work[s].seen + work[s].amount]
          /\ logs' = logs \cup {l}
      BY <2>1, <2>4 DEF CommissionWrites, NewLog
    <3>2. Crediting(s) /\ holder[o] = s /\ inv \in Users
      BY <2>1, <2>2, <2>4 DEF Crediting, Decided, SessionInv, OrderHeld, WorkSound, Holding
    <3>3. work[s].seen \in Nat /\ work[s].amount \in Nat
      BY <2>2 DEF Opening
    <3>4. l \in LogRow
      BY <2>2, <3>2, <3>3 DEF LogRow, NewLog
    <3>5. l \notin logs
      BY <3>2 DEF CommissionInv, CreditDue, NewLog
    <3>6. o \in Opened' /\ Overwritten' = Overwritten
      <4>1. CASE Commit(s)
        BY <4>1, CommitOpens
      <4>2. CASE CalcCommit(s)
        <5>1. status[o] = "completed" /\ UNCHANGED <<status, grants>>
          BY <3>2, <4>2 DEF CalcCommit, CommissionInv, CreditDue, world
        <5>2. grants[o] = 1
          BY <2>2, <5>1 DEF IInv, OpenedOnce
        <5> QED BY <2>2, <5>1, <5>2 DEF Opened, Overwritten
      <4> QED BY <1>2, <4>1, <4>2
    <3>7. Rests(s)
      BY <1>2, FinishRests DEF Commit, CalcCommit
    <3> QED BY <1>2, <2>1, <2>2, <3>1, <3>2, <3>3, <3>4, <3>5, <3>6, <3>7
  <2> QED BY <2>3, <2>4
<1> QED BY <1>1, <1>2

\* What was logged stays right, and only grows.
LEMMA LogsKept ==
  ASSUME IInv, CommissionInv, NEW s \in Sessions, SessionStep(s)
  PROVE  /\ LogsRight'
         /\ logs \subseteq logs'
         /\ \A o \in Opened : o \in Opened' /\ orders'[o] = orders[o]
<1>1. \A o \in Opened : o \in Opened' /\ orders'[o] = orders[o]
  BY CommitOpens, OpenedKept
<1>2. CASE UNCHANGED logs
  BY <1>1, <1>2 DEF CommissionInv, LogsRight
<1>3. CASE ~UNCHANGED logs
  <2>1. PICK l : /\ logs' = logs \cup {l} /\ l.order = cur[s] /\ Crediting(s)
                 /\ l.user = orders[cur[s]].user /\ cur[s] \in Opened' /\ UNCHANGED orders
    BY <1>3, LogWriters DEF NewLog
  <2>2. IsFiniteSet(logs')
    BY <2>1, FS_AddElement DEF CommissionInv, LogsRight
  <2>3. orders'[l.order].plan # None
    BY <2>1 DEF CommissionInv, CreditDue
  <2> QED BY <1>1, <2>1, <2>2, <2>3 DEF CommissionInv, LogsRight
<1> QED BY <1>1, <1>2, <1>3

\* The sum logged for an inviter never shrinks; a commission adds its amount.
LEMMA AmountsGrow ==
  ASSUME IInv, IInv', CommissionInv, NEW s \in Sessions, SessionStep(s), NEW u \in Users
  PROVE  /\ SumFunction(Amounts(u)) \in Nat /\ SumFunction(Amounts(u)') \in Nat
         /\ SumFunction(Amounts(u)) <= SumFunction(Amounts(u)')
         /\ ~UNCHANGED logs /\ u = Inviter[orders[cur[s]].user] =>
              SumFunction(Amounts(u)') = SumFunction(Amounts(u)) + work[s].amount
<1>1. LogsRight'
  BY LogsKept
<1>2. /\ IsFiniteSet(LoggedFor(u)) /\ Amounts(u) \in [LoggedFor(u) -> Nat]
      /\ SumFunction(Amounts(u)) \in Nat
  BY AmountsAreNat DEF CommissionInv
<1>3. CASE LoggedFor(u)' = LoggedFor(u) /\ (UNCHANGED logs \/ u # Inviter[orders[cur[s]].user])
  <2>1. Amounts(u)' = Amounts(u)
    BY <1>3 DEF Amounts
  <2> QED BY <1>2, <1>3, <2>1
<1>4. CASE ~UNCHANGED logs /\ u = Inviter[orders[cur[s]].user]
  <2>1. PICK l : /\ logs' = logs \cup {l} /\ l \notin logs
                 /\ l.inviter = u /\ l.amount = work[s].amount /\ l.amount \in Nat
    <3>1. /\ logs' = logs \cup {NewLog(s)} /\ NewLog(s) \notin logs
          /\ work[s].amount \in Nat
      BY <1>4, LogWriters
    <3>2. NewLog(s).inviter = u /\ NewLog(s).amount = work[s].amount
      BY <1>4 DEF NewLog
    <3> QED BY <3>1, <3>2
  <2>2. LoggedFor(u)' = LoggedFor(u) \cup {l} /\ l \notin LoggedFor(u)
    BY <2>1 DEF LoggedFor
  <2>3. PICK f, e, S : f = Amounts(u) /\ e = Amounts(u)' /\ S = LoggedFor(u)
    OBVIOUS
  <2>4. \A x \in S : f[x] = x.amount /\ f[x] \in Nat
    BY <1>2, <2>3 DEF Amounts
  <2>5. /\ IsFiniteSet(S) /\ l \notin S /\ f \in [S -> Nat]
    BY <1>2, <2>2, <2>3
  <2>6. e = [x \in S \cup {l} |-> x.amount]
    BY <2>2, <2>3 DEF Amounts
  <2>7. /\ e \in [S \cup {l} -> Nat] /\ e[l] = l.amount
        /\ \A y \in S : e[y] = f[y]
    BY <2>1, <2>4, <2>6
  <2>8. SumFunction(e) = e[l] + SumFunction(f)
    BY ONLY <2>5, <2>7, SumFunctionGrows
  <2>9. work[s].amount \in Nat /\ SumFunction(f) \in Nat
    BY <1>2, <2>1, <2>3
  <2>10. SumFunction(e) = SumFunction(f) + work[s].amount
    BY <2>1, <2>7, <2>8, <2>9
  <2>11. SumFunction(e) \in Nat /\ SumFunction(f) <= SumFunction(e)
    BY <2>9, <2>10
  <2> QED BY <1>2, <2>3, <2>10, <2>11
<1>5. CASE ~UNCHANGED logs /\ u # Inviter[orders[cur[s]].user]
  <2>1. PICK l : logs' = logs \cup {l} /\ l.inviter # u
    <3>1. logs' = logs \cup {NewLog(s)}
      BY <1>5, LogWriters
    <3>2. NewLog(s).inviter # u
      BY <1>5 DEF NewLog
    <3> QED BY <3>1, <3>2
  <2>2. LoggedFor(u)' = LoggedFor(u)
    BY <2>1 DEF LoggedFor
  <2> QED BY <1>3, <1>5, <2>2
<1>6. CASE UNCHANGED logs
  BY <1>3, <1>6 DEF LoggedFor
<1> QED BY <1>4, <1>5, <1>6

\* A commission credits what was read and the amount that is logged.
LEMMA BackedKept ==
  ASSUME IInv, IInv', CommissionInv, NEW s \in Sessions, SessionStep(s)
  PROVE  CommissionBacked'
<1>1. ASSUME NEW u \in Users PROVE earned'[u] <= SumFunction(Amounts(u)')
  <2>1. /\ earned[u] <= SumFunction(Amounts(u))
        /\ earned \in [Users -> Nat] /\ earned[u] \in Nat
    BY DEF CommissionInv, CommissionRight, CommissionBacked, Amounts, IInv, TypeOK, RowsOK
  <2>2. /\ SumFunction(Amounts(u)) \in Nat /\ SumFunction(Amounts(u)') \in Nat
        /\ SumFunction(Amounts(u)) <= SumFunction(Amounts(u)')
    BY AmountsGrow
  <2>3. CASE earned'[u] = earned[u]
    BY <2>1, <2>2, <2>3
  <2>4. CASE earned'[u] # earned[u]
    <3>1. /\ Crediting(s) /\ u = Inviter[orders[cur[s]].user] /\ ~UNCHANGED logs
          /\ earned'[u] = work[s].seen + work[s].amount
          /\ work[s].seen \in Nat /\ work[s].amount \in Nat
      BY <2>1, <2>4, LogWriters
    <3>2. work[s].seen <= SumFunction(Amounts(u))
      BY <3>1 DEF CommissionInv, CreditDue
    <3>3. SumFunction(Amounts(u)') = SumFunction(Amounts(u)) + work[s].amount
      BY <3>1, AmountsGrow
    <3> QED BY <2>2, <3>1, <3>2, <3>3
  <2> QED BY <2>3, <2>4
<1>2. ASSUME NEW l \in logs' PROVE grants'[l.order] = 1
  <2>1. l.order \in Opened'
    BY LogsKept DEF LogsRight
  <2> QED BY <2>1 DEF Opened, IInv, OpenedOnce, TypeOK, WorldOK
<1> QED BY <1>1, <1>2 DEF CommissionBacked, Amounts

\* Only one order of a buyer pays.
LEMMA FirstKept ==
  ASSUME IInv, CommissionInv, NEW s \in Sessions, SessionStep(s)
  PROVE  FirstOrderOnly'
<1> SUFFICES ASSUME FirstTimeOnly, NEW l \in logs', NEW k \in logs', l.user = k.user,
                    Unhidden(l.user)'
             PROVE  l = k
  BY DEF FirstOrderOnly, Unhidden
<1>1. FirstOrderOnly /\ LogsRight
  BY DEF CommissionInv, CommissionRight
<1>2. CASE UNCHANGED logs
  <2>1. Unhidden(l.user)
    <3>1. \A o \in Overwritten : o \in Overwritten' /\ orders'[o] = orders[o]
      BY LogsKept, OpenedKept, CommitOpens DEF Overwritten
    <3> QED BY <3>1 DEF Unhidden
  <2> QED BY <1>1, <1>2, <2>1 DEF FirstOrderOnly, Unhidden
<1>3. CASE ~UNCHANGED logs
  <2>1. PICK m : /\ logs' = logs \cup {m} /\ Crediting(s) /\ m.user = orders[cur[s]].user
                 /\ Overwritten' = Overwritten /\ UNCHANGED orders
    BY <1>3, LogWriters DEF NewLog
  <2>2. Unhidden(l.user)
    BY <2>1 DEF Unhidden
  <2>3. l.user = m.user => \A x \in logs : x.user # m.user
    BY <2>1, <2>2 DEF CommissionInv, CreditAlone
  <2> QED BY <1>1, <2>1, <2>2, <2>3 DEF FirstOrderOnly, Unhidden
<1> QED BY <1>2, <1>3

\* calculate_for_order with the first-order setting decides for a credit only
\* where the buyer has no other opened plan order.
LEMMA CreditIsFirst ==
  ASSUME IInv, NEW o \in OrderIds, Outcome(o) = "credit", FirstTimeOnly,
         Unhidden(orders[o].user),
         NEW x \in Opened, orders[x].user = orders[o].user, orders[x].plan # None
  PROVE  x = o
<1>1. x \in OrderIds /\ status[x] = "completed"
  BY OpenedRows DEF Unhidden, Overwritten
<1>2. {x, o} \subseteq CompletedPlanOrders(o)
  BY <1>1 DEF CompletedPlanOrders
<1>3. IsFiniteSet(CompletedPlanOrders(o))
  <2>1. CompletedPlanOrders(o) \in SUBSET OrderIds
    BY DEF CompletedPlanOrders
  <2> QED BY <2>1, FS_Subset, OrdersAssumption
<1>4. ~(Cardinality(CompletedPlanOrders(o)) > 1)
  BY DEF Outcome
<1> SUFFICES ASSUME x # o PROVE FALSE
  OBVIOUS
<1>5. Cardinality({x, o}) = 2
  <2>1. Cardinality({o}) = 1 /\ IsFiniteSet({o})
    BY FS_Singleton
  <2>2. Cardinality({o} \cup {x}) = Cardinality({o}) + 1
    BY <2>1, FS_AddElement
  <2>3. {o} \cup {x} = {x, o}
    OBVIOUS
  <2> QED BY <2>1, <2>2, <2>3
<1>6. /\ Cardinality({x, o}) <= Cardinality(CompletedPlanOrders(o))
      /\ Cardinality(CompletedPlanOrders(o)) \in Nat
  BY <1>2, <1>3, FS_Subset, FS_CardinalityType
<1> QED BY <1>4, <1>5, <1>6

\* A session begins to credit where it decides to.
LEMMA CreditBegins ==
  ASSUME IInv, HeldInv, NEW s \in Sessions, UNCHANGED Books, GoesOn(s),
         Crediting(s)', ~Crediting(s)
  PROVE  LET o == cur[s]
             inv == Inviter[orders[o].user]
         IN  /\ Outcome(o) = "credit" /\ orders[o].plan # None
             /\ o \in OrderIds /\ orders[o].user \in Users /\ inv \in Users
             /\ \A l \in logs : l.order # o
             /\ work'[s].seen = earned[inv]
             /\ \/ /\ via[s] = "calc" /\ holder[o] = None /\ status[o] = "completed"
                \/ /\ via[s] # "calc" /\ holder[o] = s /\ holder[orders[o].user] = s
                   /\ Open(o)
<1> DEFINE o == cur[s]
           inv == Inviter[orders[o].user]
<1>1. SessionOK /\ pc'[s] \in Late /\ pc'[s] \in Decided /\ work'[s].outcome = "credit"
  BY DEF GoesOn, Crediting, IInv, TypeOK
<1>2. ASSUME NEW row, work' = [work EXCEPT ![s] = Decision(o, row)]
      PROVE  Outcome(o) = "credit" /\ work'[s].seen = earned[inv]
  BY <1>1, <1>2 DEF Decision, SessionOK
<1>3. Outcome(o) = "credit" =>
        /\ orders[o].plan # None /\ (\A l \in logs : l.order # o) /\ inv # None
  BY DEF Outcome
<1>4. CASE Settle(s)
  <2>1. /\ pc[s] = "settle"
        /\ \E row : work' = [work EXCEPT ![s] = Decision(o, row)]
    BY <1>1, <1>4 DEF Settle, Rollback, Finish, GoTo, SessionOK, Late
  <2>2. SessionInv(s) /\ UserHeld(s) /\ OpensOnly(s)
    BY DEF IInv, HeldInv
  <2>3. /\ via[s] # "calc" /\ holder[o] = s /\ holder[orders[o].user] = s /\ Open(o)
    BY <2>1, <2>2 DEF SessionInv, OrderHeld, UserHeld, OpensOnly, Holding, Late
  <2>4. o \in OrderIds /\ orders[o].user \in Users /\ inv \in Users \cup {None}
    BY <2>1, AtWork, RowsAssumption
  <2> QED BY <1>2, <1>3, <2>1, <2>3, <2>4
<1>5. CASE CalcLock(s)
  <2>1. /\ pc[s] = "calc" /\ Free(o) /\ status[o] = "completed"
        /\ \E row : work' = [work EXCEPT ![s] = Decision(o, row)]
    BY <1>1, <1>5 DEF CalcLock, Rollback, Finish, GoTo, SessionOK, Late
  <2>2. via[s] = "calc"
    BY <2>1 DEF IInv, SessionInv
  <2>4. o \in OrderIds /\ orders[o].user \in Users /\ inv \in Users \cup {None}
    BY <2>1, AtWork, RowsAssumption
  <2> QED BY <1>2, <1>3, <2>1, <2>2, <2>4 DEF Free
<1>6. CASE LockInviter(s) \/ Reply(s)
  BY <1>1, <1>6 DEF LockInviter, Reply, Crediting, Decided
<1>7. CASE LockUser(s) \/ LockPlan(s) \/ LockCoupon(s)
  BY <1>1, <1>7 DEF LockUser, LockPlan, LockCoupon, Acquire, GoTo, SessionOK, Decided,
     Rollback, Finish
<1> QED BY <1>4, <1>5, <1>6, <1>7 DEF GoesOn

\* Then it is alone: a job and an opening cannot both take a buyer's first order.
LEMMA CreditBeginsAlone ==
  ASSUME IInv, HeldInv, CommissionInv, NEW s \in Sessions, UNCHANGED Books, GoesOn(s),
         Crediting(s)', ~Crediting(s), FirstTimeOnly, Unhidden(orders[cur[s]].user)
  PROVE  LET u == orders[cur[s]].user IN
         /\ \A l \in logs : l.user # u
         /\ \A x \in Sessions \ {s} : ~(Crediting(x) /\ orders[cur[x]].user = u)
         /\ via[s] # "calc" => \A x \in Opened : orders[x].user = u => orders[x].plan = None
<1> DEFINE o == cur[s]
           u == orders[o].user
<1>1. /\ Outcome(o) = "credit" /\ orders[o].plan # None /\ o \in OrderIds /\ u \in Users
      /\ \A l \in logs : l.order # o
  BY CreditBegins
<1>2. ASSUME NEW x \in Opened, orders[x].user = u, orders[x].plan # None PROVE x = o
  BY <1>1, <1>2, CreditIsFirst
<1>3. \A l \in logs : l.user # u
  <2> SUFFICES ASSUME NEW l \in logs, l.user = u PROVE FALSE
    OBVIOUS
  <2>1. l.order \in Opened /\ orders[l.order].user = u /\ orders[l.order].plan # None
    BY DEF CommissionInv, LogsRight
  <2> QED BY <1>1, <1>2, <2>1
<1>4. via[s] # "calc" => o \notin Opened
  <2> SUFFICES ASSUME via[s] # "calc" PROVE grants[o] = 0
    BY DEF Opened
  <2>1. Open(o)
    BY CreditBegins
  <2> QED BY <1>1, <2>1 DEF Open, IInv, OpenedOnce
<1>5. via[s] = "calc" => o \in Opened
  <2> SUFFICES ASSUME via[s] = "calc" PROVE o \in Opened
    OBVIOUS
  <2>1. status[o] = "completed"
    BY CreditBegins
  <2>2. grants[o] = 1
    BY <1>1, <2>1 DEF IInv, OpenedOnce
  <2> QED BY <1>1, <2>2 DEF Opened
<1>6. ASSUME NEW x \in Sessions \ {s}, Crediting(x), orders[cur[x]].user = u PROVE FALSE
  <2>1. /\ CreditDue(x) /\ CreditAlone(x) /\ SessionInv(x) /\ UserHeld(x)
        /\ pc[x] \in Decided /\ cur[x] \in OrderIds
    <3>1. pc[x] \in Decided
      BY <1>6 DEF Crediting
    <3>2. pc[x] \notin {"idle", "create", "assign"}
      BY <3>1 DEF Decided
    <3> QED BY <3>1, <3>2, AtWork DEF CommissionInv, HeldInv
  <2>2. holder[cur[x]] = x /\ orders[cur[x]].plan # None
    BY <1>6, <2>1 DEF SessionInv, OrderHeld, CreditDue, Decided, Holding
  <2>3. cur[x] # o
    BY <2>2, NobodyIsNone, CreditBegins
  <2>4. CASE via[x] = "calc"
    <3>1. status[cur[x]] = "completed"
      BY <1>6, <2>1, <2>4 DEF CreditDue
    <3>2. cur[x] \in Opened
      BY <2>1, <3>1 DEF IInv, OpenedOnce, Opened
    <3> QED BY <1>2, <1>6, <2>2, <2>3, <3>2
  <2>5. CASE via[x] # "calc" /\ via[s] = "calc"
    BY <1>1, <1>5, <1>6, <2>1, <2>5 DEF CreditAlone
  <2>6. CASE via[x] # "calc" /\ via[s] # "calc"
    <3>1. holder[u] = s
      BY <2>6, CreditBegins
    <3>2. holder[u] = x
      BY <1>6, <2>1, <2>6 DEF UserHeld, Decided, Late
    <3> QED BY <3>1, <3>2
  <2> QED BY <2>4, <2>5, <2>6
<1> QED BY <1>2, <1>3, <1>4, <1>6

\* A hidden order stays hidden.
LEMMA UnhiddenBefore ==
  ASSUME IInv, NEW s \in Sessions, SessionStep(s), NEW u, Unhidden(u)'
  PROVE  Unhidden(u)
<1>1. \A o \in Overwritten : o \in Overwritten' /\ orders'[o] = orders[o]
  BY OpenedKept, CommitOpens DEF Overwritten
<1> QED BY <1>1 DEF Unhidden

\* The status of an order that is held does not change.
LEMMA HeldStatus ==
  ASSUME IInv, NEW s \in Sessions, SessionStep(s), NEW o \in OrderIds,
         status[o] # "absent", holder[o] \notin {s, None}
  PROVE  status'[o] = status[o]
<1>1. status \in [OrderIds -> Statuses]
  BY DEF IInv, TypeOK, RowsOK
<1>2. CASE Commit(s)
  <2>1. holder[cur[s]] = s
    BY <1>2, AtWork DEF Commit, SessionInv, OrderHeld, Holding
  <2> QED BY <1>1, <1>2, <2>1 DEF Commit
<1>3. CASE CancelWrite(s)
  BY <1>1, <1>3 DEF CancelWrite, Free
<1> QED BY <1>1, <1>2, <1>3 DEF SessionStep, Books, Inserted, CalcCommit

\* What another session relies on to credit a commission is kept.
LEMMA DueKept ==
  ASSUME IInv, IInv', HeldInv, CommissionInv, NEW s \in Sessions, SessionStep(s),
         NEW t \in Sessions, t # s
  PROVE  CreditDue(t)' /\ CreditAlone(t)'
<1> PICK o, u : o = cur[t] /\ u = orders[o].user
  OBVIOUS
<1>1. SessionKept(t) /\ CreditDue(t) /\ CreditAlone(t)
  BY DEF SessionStep, CommissionInv
<1>2. Crediting(t)' => Crediting(t)
  BY <1>1 DEF SessionKept, Crediting
<1> SUFFICES ASSUME Crediting(t) PROVE CreditDue(t)' /\ CreditAlone(t)'
  BY <1>2 DEF CreditDue, CreditAlone
<1>3. pc[t] \in Decided /\ pc[t] \notin {"idle", "create", "assign"}
  BY DEF Crediting, Decided
<1>4. /\ o \in OrderIds /\ status[o] # "absent" /\ u \in Users /\ SessionInv(t) /\ UserHeld(t)
      /\ orders'[o] = orders[o] /\ cur'[t] = o /\ via'[t] = via[t] /\ work'[t] = work[t]
  BY <1>1, <1>3, AtWork, OrdersStay DEF SessionKept, HeldInv
<1>5. holder[o] = t /\ Inviter[u] \in Users
  BY <1>3, <1>4 DEF SessionInv, OrderHeld, WorkSound, Crediting, Decided, Holding
<1>6. ASSUME ~UNCHANGED logs
      PROVE  /\ logs' = logs \cup {NewLog(s)} /\ NewLog(s).order # o /\ Crediting(s)
             /\ NewLog(s).user = orders[cur[s]].user
  <2>1. logs' = logs \cup {NewLog(s)} /\ Crediting(s) /\ holder[cur[s]] = s
    BY <1>6, LogWriters
  <2> QED BY <1>5, <2>1 DEF NewLog
<1>7. CreditDue(t)'
  <2>1. orders[o].plan # None /\ \A l \in logs' : l.order # o
    BY <1>1, <1>4, <1>6 DEF CreditDue
  <2>2. work[t].seen <= SumFunction(Amounts(Inviter[u])')
    <3>1. work[t].seen <= SumFunction(Amounts(Inviter[u])) /\ work[t].seen \in Nat
      BY <1>1, <1>3, <1>4, AtWork DEF CreditDue, WorkOK, Decided, Opening
    <3>2. /\ SumFunction(Amounts(Inviter[u])) \in Nat /\ SumFunction(Amounts(Inviter[u])') \in Nat
          /\ SumFunction(Amounts(Inviter[u])) <= SumFunction(Amounts(Inviter[u])')
      BY <1>5, AmountsGrow
    <3> QED BY <3>1, <3>2
  <2>3. via[t] = "calc" => status'[o] = "completed"
    BY <1>1, <1>4, <1>5, NobodyIsNone, HeldStatus DEF CreditDue
  <2> QED BY <1>4, <2>1, <2>2, <2>3 DEF CreditDue
<1>8. CreditAlone(t)'
  <2> SUFFICES ASSUME FirstTimeOnly, Unhidden(u)' PROVE CreditAlone(t)'
    BY <1>4 DEF CreditAlone
  <2>1. Unhidden(u)
    BY UnhiddenBefore
  <2>2. /\ \A l \in logs : l.user # u
        /\ \A x \in Sessions : Crediting(x) /\ orders[cur[x]].user = u => x = t
        /\ via[t] # "calc" => \A x \in Opened : orders[x].user = u => orders[x].plan = None
    BY <1>4, <2>1, <1>1 DEF CreditAlone
  <2>3. \A l \in logs' : l.user # u
    BY <1>6, <2>2
  <2>4. ASSUME NEW x \in Sessions, Crediting(x)', orders'[cur'[x]].user = u PROVE x = t
    <3>1. CASE x # s
      <4>1. SessionKept(x)
        BY <3>1 DEF SessionStep
      <4>2. Crediting(x) /\ pc[x] \notin {"idle", "create", "assign"} /\ cur'[x] = cur[x]
        BY <2>4, <4>1 DEF SessionKept, Crediting, Decided
      <4>3. orders'[cur[x]] = orders[cur[x]]
        BY <4>2, AtWork, OrdersStay
      <4> QED BY <2>2, <2>4, <4>2, <4>3
    <3>2. CASE x = s /\ Rests(s)
      BY <2>4, <3>2 DEF Rests, Crediting, Decided, Late
    <3>3. CASE x = s /\ UNCHANGED Books /\ GoesOn(s)
      <4>1. orders[cur[s]].user = u
        BY <2>4, <3>3 DEF Books, GoesOn
      <4>2. CASE Crediting(s)
        BY <2>2, <3>3, <4>1, <4>2
      <4>3. CASE ~Crediting(s)
        <5>1. \A y \in Sessions \ {s} : ~(Crediting(y) /\ orders[cur[y]].user = u)
          BY <2>1, <2>4, <3>3, <4>1, <4>3, CreditBeginsAlone
        <5> QED BY <1>4, <5>1
      <4> QED BY <4>2, <4>3
    <3> QED BY <3>1, <3>2, <3>3 DEF SessionStep
  <2>5. ASSUME via[t] # "calc", NEW x \in Opened', orders'[x].user = u
        PROVE  orders'[x].plan = None
    <3>1. holder[u] = t
      BY <1>3, <1>4, <2>5 DEF UserHeld, Decided, Late
    <3>2. CASE x \in Opened
      BY <2>2, <2>5, <3>2, LogsKept
    <3>3. CASE x \notin Opened
      <4>1. Commit(s) /\ x = cur[s] /\ UNCHANGED orders
        BY <2>5, <3>3, OpenedKept, CommitOpens
      <4>2. holder[u] = s
        BY <2>5, <4>1 DEF Commit, HeldInv, UserHeld, Late
      <4> QED BY <3>1, <4>2
    <3> QED BY <3>2, <3>3
  <2> QED BY <1>4, <2>3, <2>4, <2>5 DEF CreditAlone
<1> QED BY <1>7, <1>8

\* A session that begins to credit, or still does, has what it relies on.
LEMMA DueGoesOn ==
  ASSUME IInv, IInv', HeldInv, CommissionInv, NEW s \in Sessions, SessionStep(s),
         UNCHANGED Books, GoesOn(s)
  PROVE  CreditDue(s)' /\ CreditAlone(s)'
<1> PICK o, u : o = cur[s] /\ u = orders[o].user
  OBVIOUS
<1>1. /\ UNCHANGED <<orders, status, logs, grants, earned>> /\ cur'[s] = o /\ via'[s] = via[s]
      /\ Opened' = Opened /\ Overwritten' = Overwritten
  BY DEF Books, GoesOn, Opened, Overwritten
<1> SUFFICES ASSUME Crediting(s)' PROVE CreditDue(s)' /\ CreditAlone(s)'
  BY DEF CreditDue, CreditAlone
<1>2. \A x \in Sessions \ {s} : Crediting(x)' <=> Crediting(x)
  BY DEF SessionStep, SessionKept, Crediting
<1>3. \A x \in Sessions \ {s} : cur'[x] = cur[x]
  BY DEF SessionStep, SessionKept
<1>4. \A v : Amounts(v)' = Amounts(v)
  BY <1>1 DEF Amounts, LoggedFor
<1>5. CASE Crediting(s)
  <2>1. CreditDue(s) /\ CreditAlone(s)
    BY DEF CommissionInv
  <2>2. UNCHANGED work
    <3>1. pc[s] \in Decided
      BY <1>5 DEF Crediting
    <3> QED BY <3>1 DEF GoesOn, LockUser, LockPlan, LockCoupon, Settle, CalcLock, LockInviter,
               Reply, Decided
  <2>3. CreditDue(s)'
    BY <1>1, <1>4, <1>5, <2>1, <2>2 DEF CreditDue
  <2>4. CreditAlone(s)'
    BY <1>1, <1>2, <1>3, <1>5, <2>1 DEF CreditAlone, Unhidden
  <2> QED BY <2>3, <2>4
<1>6. CASE ~Crediting(s)
  <2>1. /\ Outcome(o) = "credit" /\ orders[o].plan # None /\ Inviter[u] \in Users
        /\ \A l \in logs : l.order # o
        /\ work'[s].seen = earned[Inviter[u]]
        /\ via[s] = "calc" => status[o] = "completed"
    BY <1>6, CreditBegins
  <2>2. earned[Inviter[u]] <= SumFunction(Amounts(Inviter[u]))
    BY <2>1 DEF CommissionInv, CommissionRight, CommissionBacked, Amounts
  <2>3. CreditDue(s)'
    BY <1>1, <1>4, <2>1, <2>2 DEF CreditDue
  <2>4. CreditAlone(s)'
    <3> SUFFICES ASSUME FirstTimeOnly, Unhidden(u)' PROVE CreditAlone(s)'
      BY <1>1 DEF CreditAlone
    <3>1. Unhidden(u)
      BY <1>1 DEF Unhidden
    <3>2. /\ \A l \in logs : l.user # u
          /\ \A x \in Sessions \ {s} : ~(Crediting(x) /\ orders[cur[x]].user = u)
          /\ via[s] # "calc" => \A x \in Opened : orders[x].user = u => orders[x].plan = None
      BY <1>6, <3>1, CreditBeginsAlone
    <3> QED BY <1>1, <1>2, <1>3, <3>2 DEF CreditAlone
  <2> QED BY <2>3, <2>4
<1> QED BY <1>5, <1>6

\* Every step keeps the commissions right.
LEMMA NextCommission ==
  IInv /\ IInv' /\ HeldInv /\ CommissionInv /\ [Next]_vars => CommissionInv'
<1> SUFFICES ASSUME IInv, IInv', HeldInv, CommissionInv, [Next]_vars PROVE CommissionInv'
  OBVIOUS
<1>1. ASSUME NEW s \in Sessions, SessionStep(s) PROVE CommissionInv'
  <2>1. CreditDue(s)' /\ CreditAlone(s)'
    <3>1. CASE Rests(s)
      BY <3>1 DEF Rests, CreditDue, CreditAlone, Crediting, Decided, Late
    <3>2. CASE UNCHANGED Books /\ GoesOn(s)
      BY <1>1, <3>2, DueGoesOn
    <3> QED BY <1>1, <3>1, <3>2 DEF SessionStep
  <2> QED BY <1>1, <2>1, LogsKept, BackedKept, FirstKept, DueKept
          DEF CommissionInv, CommissionRight
<1>2. CASE OutsideStep \/ UNCHANGED vars
  <2>1. UNCHANGED <<status, orders, earned, logs, grants, pc, cur, via, work>>
    BY <1>2 DEF OutsideStep, Books, session, vars, rows, world
  <2>2. Opened' = Opened /\ Overwritten' = Overwritten
    BY <2>1 DEF Opened, Overwritten
  <2>3. LogsRight' /\ CommissionRight'
    BY <2>1, <2>2 DEF CommissionInv, LogsRight, CommissionRight, CommissionBacked,
       FirstOrderOnly, LoggedFor
  <2>4. ASSUME NEW s \in Sessions PROVE CreditDue(s)' /\ CreditAlone(s)'
    BY <2>1, <2>2 DEF CommissionInv, CreditDue, CreditAlone, Crediting, Unhidden, Amounts,
       LoggedFor
  <2> QED BY <2>3, <2>4 DEF CommissionInv
<1> QED BY <1>1, <1>2, StepKinds

\* process_order_commission: an order pays its commission once and not before
\* it is opened, with the first-order setting one order of a buyer pays, and no
\* inviter has more than was logged.
THEOREM CommissionsRight == Spec => []CommissionRight
<1>1. Spec => []CommissionInv
  BY InitCommission, NextCommission, AlwaysIInv, AlwaysHeld, PTL DEF Spec
<1>2. CommissionInv => CommissionRight
  BY DEF CommissionInv
<1> QED BY <1>1, <1>2, PTL

-----------------------------------------------------------------------------
(***************************************************************************)
(* Seats.  From LockPlan to the commit the plan row is locked, so nobody   *)
(* else takes one of its seats; subscriptions only lapse meanwhile.        *)
(***************************************************************************)
Seated(p) == {x \in Users : users[x].plan = p /\ users[x].expired >= now}

\* The seats of the others.
Taken(u, p) == Cardinality(Seated(p) \ {u})

\* There is a seat for the buyer: a free one, or the one of the subscription
\* that the order renews.
SeatLeft(u, p) ==
  \/ Taken(u, p) < Capacity[p]
  \/ users[u].plan = p /\ Taken(u, p) < Seats(StartRows, p, 0)

SeatHeld(s) ==
  LET ord == orders[cur[s]] IN
  /\ pc[s] \in {"coupon", "settle", "inviter", "reply", "commit"}
  /\ via[s] # "calc" /\ ~IsDeposit(ord)
  => /\ holder[ord.plan] = s
     /\ ord.period # "reset_price" /\ Capacity[ord.plan] > 0 => SeatLeft(ord.user, ord.plan)

\* No plan has more users than its capacity, or than it had to begin with.
CapacityKept ==
  \A p \in Plans : Capacity[p] > 0 =>
    Seats(users, p, now) <= Capacity[p] \/ Seats(users, p, now) <= Seats(StartRows, p, 0)

SeatInv == CapacityKept /\ \A s \in Sessions : SeatHeld(s)

\* At the start every plan has the users of the start.
LEMMA InitSeats == Init => SeatInv
<1> SUFFICES ASSUME Init PROVE SeatInv
  OBVIOUS
<1>1. ASSUME NEW p \in Plans PROVE Seats(users, p, now) <= Seats(StartRows, p, 0)
  <2>1. users = StartRows /\ now = 0
    BY DEF Init
  <2>2. Seats(StartRows, p, 0) \in Nat
    <3>1. {u \in Users : StartRows[u].plan = p /\ StartRows[u].expired >= 0} \in SUBSET Users
      OBVIOUS
    <3> QED BY <3>1, FS_Subset, FS_CardinalityType, OrdersAssumption DEF Seats
  <2> QED BY <2>1, <2>2
<1>2. \A s \in Sessions : SeatHeld(s)
  BY DEF Init, SeatHeld
<1> QED BY <1>1, <1>2 DEF SeatInv, CapacityKept

\* Counting the seats with and without the buyer.
LEMMA SeatCount ==
  ASSUME NEW u, NEW p
  PROVE  /\ IsFiniteSet(Seated(p)) /\ Seats(users, p, now) = Cardinality(Seated(p))
         /\ Seats(users, p, now) \in Nat /\ Taken(u, p) \in Nat
         /\ u \in Seated(p) => Seats(users, p, now) = Taken(u, p) + 1
         /\ u \notin Seated(p) => Seats(users, p, now) = Taken(u, p)
<1>1. Seated(p) \in SUBSET Users
  BY DEF Seated
<1>2. IsFiniteSet(Seated(p)) /\ IsFiniteSet(Seated(p) \ {u})
  BY <1>1, FS_Subset, OrdersAssumption
<1>3. Seats(users, p, now) = Cardinality(Seated(p))
  BY DEF Seats, Seated
<1>4. Cardinality(Seated(p)) \in Nat /\ Taken(u, p) \in Nat
  BY <1>2, FS_CardinalityType DEF Taken
<1>5. ASSUME u \in Seated(p) PROVE Cardinality(Seated(p)) = Taken(u, p) + 1
  <2>1. Taken(u, p) = Cardinality(Seated(p)) - 1
    BY <1>2, <1>5, FS_RemoveElement DEF Taken
  <2> QED BY <1>4, <2>1
<1>6. ASSUME u \notin Seated(p) PROVE Cardinality(Seated(p)) = Taken(u, p)
  <2>1. Seated(p) \ {u} = Seated(p)
    BY <1>6
  <2> QED BY <2>1 DEF Taken
<1> QED BY <1>2, <1>3, <1>4, <1>5, <1>6

\* Deposits and traffic resets leave the subscription; the others give the
\* plan of the order.
LEMMA FulfilledPlan ==
  ASSUME NEW row \in UserRow, NEW ord, NEW t
  PROVE  LET new == Fulfilled(row, ord, t) IN
         \/ new.plan = row.plan /\ new.expired = row.expired
         \/ ~IsDeposit(ord) /\ ord.period # "reset_price" /\ new.plan = ord.plan
<1>1. row = [balance |-> row.balance, plan |-> row.plan, expired |-> row.expired]
  BY DEF UserRow
<1>2. CASE IsDeposit(ord)
  BY <1>1, <1>2 DEF Fulfilled
<1>3. CASE ~IsDeposit(ord) /\ ord.period = "reset_price"
  BY <1>1, <1>3 DEF Fulfilled
<1>4. CASE ~IsDeposit(ord) /\ ord.period = "onetime_price"
  BY <1>1, <1>4 DEF Fulfilled
<1>5. CASE ~IsDeposit(ord) /\ ord.period \notin {"reset_price", "onetime_price"}
  BY <1>1, <1>5 DEF Fulfilled
<1> QED BY <1>2, <1>3, <1>4, <1>5

\* Who sits down in a plan after a commit and did not before is the buyer of an
\* order for it.
LEMMA CommitSeats ==
  ASSUME IInv, HeldInv, NEW s \in Sessions, Commit(s), NEW p, NEW x \in Seated(p)',
         x \notin Seated(p)
  PROVE  LET ord == orders[cur[s]] IN
         x = ord.user /\ p = ord.plan /\ ~IsDeposit(ord) /\ ord.period # "reset_price"
<1> DEFINE ord == orders[cur[s]]
<1>1. /\ UNCHANGED now /\ pc[s] = "commit" /\ via[s] # "calc"
      /\ users' = [users EXCEPT ![ord.user] = work[s].row]
  BY DEF Commit
<1>2. users \in [Users -> UserRow] /\ ord.user \in Users
  BY <1>1, AtWork DEF IInv, TypeOK, RowsOK
<1>3. PICK t : work[s].row = Fulfilled(users[ord.user], ord, t)
  BY <1>1 DEF HeldInv, RowDue, Decided
<1>4. x \in Users /\ x = ord.user
  BY <1>1, <1>2 DEF Seated
<1>5. users'[x] = Fulfilled(users[x], ord, t)
  BY <1>1, <1>2, <1>3, <1>4
<1>6. /\ users'[x].plan = p /\ users'[x].expired >= now
      /\ ~(users[x].plan = p /\ users[x].expired >= now)
  BY <1>1, <1>4 DEF Seated
<1>7. users[x] \in UserRow
  BY <1>2, <1>4
<1> QED BY <1>4, <1>5, <1>6, <1>7, FulfilledPlan

\* A commit keeps every plan within its capacity, or makes it no fuller, or
\* brings back a subscription that lapsed under way.
LEMMA CommitFits ==
  ASSUME IInv, HeldInv, SeatInv, NEW s \in Sessions, Commit(s),
         NEW p \in Plans, Capacity[p] > 0
  PROVE  \/ Seats(users', p, now) <= Seats(users, p, now)
         \/ Seats(users', p, now) <= Capacity[p]
         \/ /\ users[orders[cur[s]].user].plan = p
            /\ Seats(users', p, now) <= Seats(StartRows, p, 0)
<1> PICK ord, u : ord = orders[cur[s]] /\ u = ord.user
  OBVIOUS
<1> PICK A, B : A = Seated(p) /\ B = Seated(p)'
  OBVIOUS
<1>1. UNCHANGED now /\ Capacity[p] \in Nat
  BY RowsAssumption DEF Commit
<1>2. A \in SUBSET Users /\ B \in SUBSET Users
  BY DEF Seated
<1>3. IsFiniteSet(A) /\ IsFiniteSet(B)
  BY <1>2, FS_Subset, OrdersAssumption
<1>4. Seats(users, p, now) = Cardinality(A) /\ Seats(users', p, now) = Cardinality(B)
  BY <1>1 DEF Seats, Seated
<1>5. CASE B \subseteq A
  <2>1. Cardinality(B) <= Cardinality(A)
    BY <1>3, <1>5, FS_Subset
  <2> QED BY <1>4, <2>1
<1>6. CASE ~(B \subseteq A)
  <2>1. /\ B \subseteq A \cup {u} /\ u \in B /\ u \notin A
        /\ p = ord.plan /\ ~IsDeposit(ord) /\ ord.period # "reset_price"
    BY <1>6, CommitSeats
  <2>2. SeatLeft(u, p)
    BY <2>1 DEF SeatInv, SeatHeld, Commit
  <2>3. Cardinality(B) <= Cardinality(A \cup {u}) /\ Cardinality(A \cup {u}) = Cardinality(A) + 1
    BY <1>3, <2>1, FS_AddElement, FS_Subset
  <2>4. Taken(u, p) = Cardinality(A)
    <3>1. A \ {u} = A
      BY <2>1
    <3> QED BY <3>1 DEF Taken
  <2>5. Cardinality(A) \in Nat /\ Cardinality(B) \in Nat
    BY <1>3, FS_CardinalityType
  <2>6. CASE Taken(u, p) < Capacity[p]
    BY <1>1, <1>4, <2>3, <2>4, <2>5, <2>6
  <2>7. CASE users[u].plan = p /\ Taken(u, p) < Seats(StartRows, p, 0)
    <3>1. Seats(StartRows, p, 0) \in Nat
      <4>1. {x \in Users : StartRows[x].plan = p /\ StartRows[x].expired >= 0} \in SUBSET Users
        OBVIOUS
      <4> QED BY <4>1, FS_Subset, FS_CardinalityType, OrdersAssumption DEF Seats
    <3>2. Cardinality(B) <= Seats(StartRows, p, 0)
      BY <2>3, <2>4, <2>5, <2>7, <3>1
    <3> QED BY <1>4, <2>7, <3>2
  <2> QED BY <2>2, <2>6, <2>7 DEF SeatLeft
<1> QED BY <1>5, <1>6

\* Fewer seats of others leave the seat where it is.
LEMMA SeatLeftStays ==
  ASSUME NEW u, NEW p \in Plans, SeatLeft(u, p), users'[u] = users[u],
         Seated(p)' \ {u} \subseteq Seated(p) \ {u}
  PROVE  SeatLeft(u, p)'
<1> PICK A, B : A = Seated(p) \ {u} /\ B = Seated(p)' \ {u}
  OBVIOUS
<1>1. B \subseteq A /\ A \in SUBSET Users
  BY DEF Seated
<1>2. IsFiniteSet(A)
  BY <1>1, FS_Subset, OrdersAssumption
<1>3. Cardinality(B) <= Cardinality(A) /\ Cardinality(A) \in Nat /\ Cardinality(B) \in Nat
  BY <1>1, <1>2, FS_Subset, FS_CardinalityType
<1>4. Capacity[p] \in Nat /\ Seats(StartRows, p, 0) \in Nat
  <2>1. {x \in Users : StartRows[x].plan = p /\ StartRows[x].expired >= 0} \in SUBSET Users
    OBVIOUS
  <2> QED BY <2>1, FS_Subset, FS_CardinalityType, OrdersAssumption, RowsAssumption DEF Seats
<1>5. Taken(u, p) = Cardinality(A) /\ Taken(u, p)' = Cardinality(B)
  BY DEF Taken
<1>6. CASE Taken(u, p) < Capacity[p]
  <2>1. Cardinality(B) < Capacity[p]
    BY <1>3, <1>4, <1>5, <1>6
  <2> QED BY <1>5, <2>1 DEF SeatLeft
<1>7. CASE users[u].plan = p /\ Taken(u, p) < Seats(StartRows, p, 0)
  <2>1. Cardinality(B) < Seats(StartRows, p, 0)
    BY <1>3, <1>4, <1>5, <1>7
  <2> QED BY <1>5, <1>7, <2>1 DEF SeatLeft
<1> QED BY <1>6, <1>7 DEF SeatLeft

\* What a session that opens a plan order works on.
LEMMA SeatOrder ==
  ASSUME IInv, NEW s \in Sessions, pc[s] \in Late, ~IsDeposit(orders[cur[s]])
  PROVE  /\ cur[s] \in OrderIds /\ status[cur[s]] # "absent"
         /\ orders[cur[s]] \in OrderRow
         /\ orders[cur[s]].user \in Users /\ orders[cur[s]].plan \in Plans
         /\ orders[cur[s]].plan \in Rows
<1>1. pc[s] \notin {"idle", "create", "assign"}
  BY DEF Late
<1>2. /\ cur[s] \in OrderIds /\ orders[cur[s]] \in OrderRow /\ status[cur[s]] # "absent"
      /\ orders[cur[s]].user \in Users
  BY <1>1, AtWork
<1>3. orders[cur[s]].plan \in Plans
  BY <1>2 DEF IsDeposit, OrderRow
<1> QED BY <1>2, <1>3 DEF Rows

\* A step of another session, or of the clock, leaves session x its seat.
LEMMA SeatKept ==
  ASSUME IInv, HeldInv, SeatInv, NEW x \in Sessions,
         OutsideStep \/ \E s \in Sessions \ {x} : SessionStep(s)
  PROVE  SeatHeld(x)'
<1>1. SessionKept(x)
  BY DEF OutsideStep, session, SessionStep, SessionKept
<1> PICK ord, u, p : ord = orders[cur[x]] /\ u = ord.user /\ p = ord.plan
  OBVIOUS
<1> SUFFICES ASSUME pc[x] \in {"coupon", "settle", "inviter", "reply", "commit"},
                    via[x] # "calc", ~IsDeposit(orders'[cur[x]])
             PROVE  SeatHeld(x)'
  BY <1>1 DEF SessionKept, SeatHeld
<1>2. pc[x] \in Late /\ pc[x] \notin {"idle", "create", "assign"}
  BY DEF Late
<1>3. cur[x] \in OrderIds /\ status[cur[x]] # "absent"
  BY <1>2, AtWork
<1>4. orders'[cur[x]] = ord
  <2>1. CASE OutsideStep
    BY <2>1 DEF OutsideStep, Books
  <2> QED BY <1>3, <2>1, OrdersStay
<1>5. ~IsDeposit(ord) /\ u \in Users /\ p \in Plans /\ p \in Rows
  BY <1>2, <1>4, SeatOrder
<1>6. /\ holder[p] = x
      /\ ord.period # "reset_price" /\ Capacity[p] > 0 => SeatLeft(u, p)
  BY <1>5 DEF SeatInv, SeatHeld
<1>7. holder[u] = x
  BY <1>2 DEF HeldInv, UserHeld
<1>8. users'[u] = users[u]
  <2>1. CASE OutsideStep
    BY <2>1 DEF OutsideStep, Books
  <2> QED BY <1>5, <1>7, <2>1, UserWriters
<1>9. Seated(p)' \subseteq Seated(p)
  <2>1. CASE UNCHANGED users /\ now' \in {now, now + 1}
    <3>1. ASSUME NEW y \in Users, users[y].expired >= now' PROVE users[y].expired >= now
      <4>1. users[y].expired \in Nat /\ now \in Nat
        BY DEF IInv, TypeOK, RowsOK, WorldOK, UserRow
      <4> QED BY <2>1, <3>1, <4>1
    <3> QED BY <2>1, <3>1 DEF Seated
  <2>2. CASE OutsideStep
    BY <2>1, <2>2 DEF OutsideStep, Books
  <2>3. ASSUME NEW s \in Sessions \ {x}, SessionStep(s) PROVE Seated(p)' \subseteq Seated(p)
    <3>1. CASE UNCHANGED users
      BY <2>1, <2>3, <3>1 DEF SessionStep
    <3>2. CASE ~UNCHANGED users
      <4>1. Commit(s)
        BY <2>3, <3>2 DEF SessionStep, Books, Inserted, CancelWrite, CalcCommit
      <4>2. ASSUME NEW y \in Seated(p)', y \notin Seated(p) PROVE FALSE
        <5>1. p = orders[cur[s]].plan /\ ~IsDeposit(orders[cur[s]])
          BY <4>1, <4>2, CommitSeats
        <5>2. holder[p] = s
          BY <4>1, <5>1 DEF Commit, SeatInv, SeatHeld
        <5> QED BY <1>6, <5>2
      <4> QED BY <4>2
    <3> QED BY <3>1, <3>2
  <2> QED BY <2>2, <2>3
<1>10. ord.period # "reset_price" /\ Capacity[p] > 0 => SeatLeft(u, p)'
  <2>1. Seated(p)' \ {u} \subseteq Seated(p) \ {u}
    BY <1>9
  <2> QED BY <1>5, <1>6, <1>8, <2>1, SeatLeftStays
<1>11. holder'[p] = x
  BY <1>1, <1>5, <1>6 DEF SessionKept
<1> QED BY <1>1, <1>4, <1>10, <1>11 DEF SessionKept, SeatHeld

\* What LockPlan checks is a seat for the buyer.
LEMMA SeatFound ==
  ASSUME IInv, CapacityKept, NEW u \in Users, NEW p \in Plans, NEW period,
         Capacity[p] > 0, period # "reset_price",
         RequiresSlot(users[u], p, period, now) => HasSeat(users, p, now)
  PROVE  SeatLeft(u, p)
<1>1. /\ users[u] \in UserRow /\ now \in Nat /\ Capacity[p] \in Nat
  BY RowsAssumption DEF IInv, TypeOK, RowsOK, WorldOK
<1>2. Seats(StartRows, p, 0) \in Nat
  <2>1. {x \in Users : StartRows[x].plan = p /\ StartRows[x].expired >= 0} \in SUBSET Users
    OBVIOUS
  <2> QED BY <2>1, FS_Subset, FS_CardinalityType, OrdersAssumption DEF Seats
<1>3. /\ Seats(users, p, now) \in Nat /\ Taken(u, p) \in Nat
      /\ u \in Seated(p) => Seats(users, p, now) = Taken(u, p) + 1
      /\ u \notin Seated(p) => Seats(users, p, now) = Taken(u, p)
  BY SeatCount
<1>4. CASE RequiresSlot(users[u], p, period, now)
  <2>1. Seats(users, p, now) < Capacity[p]
    BY <1>1, <1>4 DEF HasSeat
  <2>2. Taken(u, p) < Capacity[p]
    BY <1>1, <1>3, <2>1
  <2> QED BY <2>2 DEF SeatLeft
<1>5. CASE users[u].plan = p /\ users[u].expired > now
  <2>1. u \in Seated(p)
    BY <1>1, <1>5 DEF Seated, UserRow
  <2>2. Seats(users, p, now) <= Capacity[p] \/ Seats(users, p, now) <= Seats(StartRows, p, 0)
    BY DEF CapacityKept
  <2>3. Taken(u, p) < Capacity[p] \/ Taken(u, p) < Seats(StartRows, p, 0)
    BY <1>1, <1>2, <1>3, <2>1, <2>2
  <2> QED BY <1>5, <2>3 DEF SeatLeft
<1> QED BY <1>4, <1>5 DEF RequiresSlot, IsActive

\* A session that goes on past LockPlan has a seat for its buyer.
LEMMA SeatGoesOn ==
  ASSUME IInv, IInv', HeldInv, SeatInv, NEW s \in Sessions,
         UNCHANGED Books, UNCHANGED now, GoesOn(s)
  PROVE  SeatHeld(s)'
<1> PICK ord, u, p : ord = orders[cur[s]] /\ u = ord.user /\ p = ord.plan
  OBVIOUS
<1>1. /\ UNCHANGED <<orders, users, status, now>> /\ pc'[s] \in Late
      /\ cur'[s] = cur[s] /\ via'[s] = via[s]
      /\ \A r \in Rows : holder[r] = s => holder'[r] = s
      /\ pc \in [Sessions -> Steps] /\ holder \in [Rows -> Sessions \cup {None}]
  BY DEF Books, GoesOn, IInv, TypeOK, SessionOK
<1> SUFFICES ASSUME pc'[s] \in {"coupon", "settle", "inviter", "reply", "commit"},
                    via[s] # "calc", ~IsDeposit(ord)
             PROVE  /\ holder'[p] = s
                    /\ ord.period # "reset_price" /\ Capacity[p] > 0 => SeatLeft(u, p)
  <2>1. SeatLeft(u, p)' <=> SeatLeft(u, p)
    BY <1>1 DEF SeatLeft, Taken, Seated
  <2> QED BY <1>1, <2>1 DEF SeatHeld
<1>2. CASE LockPlan(s)
  <2>1. ~Rollback(s)
    BY <1>1 DEF Rollback, Finish, GoTo, Late
  <2>2. /\ RequiresSlot(users[u], p, ord.period, now) => HasSeat(users, p, now)
        /\ \E step : Acquire(s, p, step) /\ pc[s] = "plan"
    BY <1>2, <2>1 DEF LockPlan
  <2>3. u \in Users /\ p \in Plans /\ p \in Rows
    BY <2>2, SeatOrder DEF Late
  <2>4. holder'[p] = s
    BY <1>1, <2>2, <2>3 DEF Acquire
  <2> QED BY <2>2, <2>3, <2>4, SeatFound DEF SeatInv
<1>3. CASE LockCoupon(s) \/ Settle(s) \/ LockInviter(s) \/ Reply(s)
  <2>1. pc[s] \in {"coupon", "settle", "inviter", "reply"}
    BY <1>3 DEF LockCoupon, Settle, LockInviter, Reply
  <2>2. /\ holder[p] = s
        /\ ord.period # "reset_price" /\ Capacity[p] > 0 => SeatLeft(u, p)
    BY <2>1 DEF SeatInv, SeatHeld
  <2>3. p \in Rows
    BY <2>1, SeatOrder DEF Late
  <2> QED BY <1>1, <2>2, <2>3
<1>4. CASE LockUser(s)
  <2>1. pc'[s] = "plan"
    BY <1>1, <1>4 DEF LockUser, Acquire, GoTo
  <2> QED BY <2>1
<1>5. CASE CalcLock(s)
  <2>1. pc[s] = "calc" /\ cur[s] \in OrderIds
    BY <1>5, AtWork DEF CalcLock
  <2> QED BY <2>1 DEF IInv, SessionInv
<1> QED BY <1>2, <1>3, <1>4, <1>5 DEF GoesOn

\* Every step keeps the seats.
LEMMA NextSeats == IInv /\ IInv' /\ HeldInv /\ SeatInv /\ [Next]_vars => SeatInv'
<1> SUFFICES ASSUME IInv, IInv', HeldInv, SeatInv, [Next]_vars PROVE SeatInv'
  OBVIOUS
<1>1. CASE UNCHANGED vars
  BY <1>1 DEF vars, rows, session, world, SeatInv, CapacityKept, SeatHeld, SeatLeft, Taken, Seated
<1>2. CASE Next
  <2>1. ASSUME NEW x \in Sessions PROVE SeatHeld(x)'
    <3>1. CASE OutsideStep \/ \E s \in Sessions \ {x} : SessionStep(s)
      BY <3>1, SeatKept
    <3>2. CASE SessionStep(x)
      <4>1. CASE Rests(x)
        BY <4>1 DEF Rests, SeatHeld, Late
      <4>2. CASE UNCHANGED Books /\ GoesOn(x)
        BY <3>2, <4>2, SeatGoesOn DEF SessionStep
      <4> QED BY <3>2, <4>1, <4>2 DEF SessionStep
    <3> QED BY <1>2, <3>1, <3>2, StepKinds
  <2>2. ASSUME NEW p \in Plans, Capacity[p] > 0
        PROVE  \/ Seats(users', p, now') <= Capacity[p]
               \/ Seats(users', p, now') <= Seats(StartRows, p, 0)
    <3>1. \/ Seats(users, p, now) <= Capacity[p]
          \/ Seats(users, p, now) <= Seats(StartRows, p, 0)
      BY <2>2 DEF SeatInv, CapacityKept
    <3>2. CASE Seats(users', p, now') <= Seats(users, p, now)
      <4>1. Seats(users', p, now') \in Nat /\ Seats(users, p, now) \in Nat
        <5>1. /\ {x \in Users : users'[x].plan = p /\ users'[x].expired >= now'} \in SUBSET Users
              /\ {x \in Users : users[x].plan = p /\ users[x].expired >= now} \in SUBSET Users
          OBVIOUS
        <5> QED BY <5>1, FS_Subset, FS_CardinalityType, OrdersAssumption DEF Seats
      <4>2. Capacity[p] \in Nat /\ Seats(StartRows, p, 0) \in Nat
        <5>1. {x \in Users : StartRows[x].plan = p /\ StartRows[x].expired >= 0} \in SUBSET Users
          OBVIOUS
        <5> QED BY <5>1, FS_Subset, FS_CardinalityType, OrdersAssumption, RowsAssumption DEF Seats
      <4> QED BY <3>1, <3>2, <4>1, <4>2
    <3>3. CASE UNCHANGED users /\ now' \in {now, now + 1}
      <4>1. {x \in Users : users'[x].plan = p /\ users'[x].expired >= now'}
              \subseteq {x \in Users : users[x].plan = p /\ users[x].expired >= now}
        <5>1. ASSUME NEW y \in Users, users[y].expired >= now' PROVE users[y].expired >= now
          <6>1. users[y].expired \in Nat /\ now \in Nat
            BY DEF IInv, TypeOK, RowsOK, WorldOK, UserRow
          <6> QED BY <3>3, <5>1, <6>1
        <5> QED BY <3>3, <5>1
      <4>2. {x \in Users : users[x].plan = p /\ users[x].expired >= now} \in SUBSET Users
        OBVIOUS
      <4>3. Seats(users', p, now') <= Seats(users, p, now)
        BY <4>1, <4>2, FS_Subset, OrdersAssumption DEF Seats
      <4> QED BY <3>2, <4>3
    <3>4. CASE OutsideStep
      BY <3>3, <3>4 DEF OutsideStep, Books
    <3>5. ASSUME NEW s \in Sessions, SessionStep(s)
          PROVE  \/ Seats(users', p, now') <= Capacity[p]
                 \/ Seats(users', p, now') <= Seats(StartRows, p, 0)
      <4>1. CASE UNCHANGED users
        BY <3>3, <3>5, <4>1 DEF SessionStep
      <4>2. CASE ~UNCHANGED users
        <5>1. Commit(s) /\ now' = now
          BY <3>5, <4>2 DEF SessionStep, Books, Inserted, CancelWrite, CalcCommit
        <5> QED BY <2>2, <3>2, <5>1, CommitFits
      <4> QED BY <4>1, <4>2
    <3> QED BY <1>2, <3>4, <3>5, StepKinds
  <2> QED BY <2>1, <2>2 DEF SeatInv, CapacityKept
<1> QED BY <1>1, <1>2

\* Seats are held by those who are about to need them, always.
LEMMA AlwaysSeats == Spec => []SeatInv
<1> QED BY InitSeats, NextSeats, AlwaysIInv, AlwaysHeld, PTL DEF Spec

\* plan_capacity: whatever the interleaving of openings, renewals, assignments
\* and imports, a plan never has more users than its capacity, unless it had
\* more to begin with, and then never more than those.
THEOREM PlanCapacity == Spec => []CapacityKept
<1>1. SeatInv => CapacityKept
  BY DEF SeatInv
<1> QED BY <1>1, AlwaysSeats, PTL

-----------------------------------------------------------------------------
(***************************************************************************)
(* The contract.  Its state is part of the state of Orders, under the same *)
(* names; a step of Orders that writes none of it is a stutter, the others *)
(* are placings, openings, withdrawals and ticks.                          *)
(***************************************************************************)
\* The instance reads the rows as Orders does.
LEMMA SameRows ==
  /\ Contract!OpenStatuses = OpenStatuses
  /\ Contract!OrderRow = OrderRow
  /\ \A ord : Contract!IsDeposit(ord) <=> IsDeposit(ord)
  /\ \A ord : Contract!Consumes(ord) <=> Consumes(ord)
  /\ \A table, p, t : Contract!Seats(table, p, t) = Seats(table, p, t)
  /\ \A row, ord, t : Contract!Fulfilled(row, ord, t) = Fulfilled(row, ord, t)
<1>1. Contract!OpenStatuses = OpenStatuses
  BY DEF Contract!OpenStatuses, OpenStatuses
<1>2. Contract!OrderRow = OrderRow
  BY DEF Contract!OrderRow, OrderRow, Contract!Periods, Periods, Contract!SoldPeriods,
     SoldPeriods, Contract!RecurringPeriods, RecurringPeriods
<1>3. \A ord : Contract!IsDeposit(ord) <=> IsDeposit(ord)
  BY DEF Contract!IsDeposit, IsDeposit
<1>4. \A ord : Contract!Consumes(ord) <=> Consumes(ord)
  BY <1>3 DEF Contract!Consumes, Consumes
<1>5. ASSUME NEW table, NEW p, NEW t PROVE Contract!Seats(table, p, t) = Seats(table, p, t)
  <2>1. \A S : Contract!Cardinality(S) = Cardinality(S)
    BY Zenon DEF Contract!Cardinality, Cardinality
  <2> QED BY <2>1 DEF Contract!Seats, Seats
<1>6. \A total : Contract!DepositBonus(total) = DepositBonus(total)
  BY DEF Contract!DepositBonus, DepositBonus
<1>7. \A expired, period, t : Contract!AddPeriod(expired, period, t) = AddPeriod(expired, period, t)
  BY DEF Contract!AddPeriod, AddPeriod
<1>8. \A row, ord, t : Contract!Fulfilled(row, ord, t) = Fulfilled(row, ord, t)
  BY <1>3, <1>6, <1>7 DEF Contract!Fulfilled, Fulfilled
<1> QED BY <1>1, <1>2, <1>3, <1>4, <1>5, <1>8

\* The start is one the contract allows.
LEMMA InitImplements == Init => Contract!Init
<1> SUFFICES ASSUME Init PROVE Contract!Init
  OBVIOUS
<1>1. status \in [OrderIds -> {"absent", "opening"}]
  BY DEF Init
<1>2. \A o \in OrderIds : orders[o] \in OrderRow \cup {None}
  BY OrdersAssumption DEF Init
<1>3. users = StartRows /\ stock \in [Coupons -> Nat] /\ now = 0
  BY OrdersAssumption DEF Init
<1> QED BY <1>1, <1>2, <1>3, SameRows DEF Contract!Init

\* A commit is an opening of the contract.
LEMMA CommitImplements ==
  ASSUME IInv, HeldInv, SeatInv, NEW s \in Sessions, Commit(s), cur[s] \in OrderIds
  PROVE  Contract!OpenOrder(cur[s])
<1> PICK o, ord, u : o = cur[s] /\ ord = orders[o] /\ u = ord.user
  OBVIOUS
<1>1. /\ pc[s] = "commit" /\ via[s] # "calc" /\ UNCHANGED <<orders, now>>
      /\ status' = [status EXCEPT ![o] = "completed"]
      /\ users' = [users EXCEPT ![u] = work[s].row]
      /\ StockWrites(ord)
  BY DEF Commit
<1>2. status[o] \in OpenStatuses
  BY <1>1 DEF IInv, SessionInv, OrderHeld, Holding, Open
<1>3. Payable(users[u], ord) /\ \E t \in 0..now : work[s].row = Fulfilled(users[u], ord, t)
  BY <1>1 DEF HeldInv, RowDue, Decided
<1>4. users[u].balance >= ord.balance
  BY <1>3 DEF Payable
<1>5. \E t \in 0..now : users' = [users EXCEPT ![u] = Contract!Fulfilled(@, ord, t)]
  <2>1. PICK t \in 0..now : work[s].row = Fulfilled(users[u], ord, t)
    BY <1>3
  <2>2. Contract!Fulfilled(users[u], ord, t) = Fulfilled(users[u], ord, t)
    BY SameRows
  <2>3. users' = [users EXCEPT ![u] = Contract!Fulfilled(@, ord, t)]
    BY <1>1, <2>1, <2>2
  <2> QED BY <2>3
<1>6. Contract!UseCoupon(ord)
  <2>1. Contract!Consumes(ord) <=> Consumes(ord)
    BY SameRows
  <2>2. CASE Consumes(ord) /\ CouponInfo[ord.coupon].limited
    <3>1. stock[ord.coupon] > 0
      BY <1>1, <2>2 DEF IInv, SessionInv, CouponHeld
    <3> QED BY <1>1, <2>1, <2>2, <3>1 DEF Contract!UseCoupon, StockWrites
  <2>3. CASE ~(Consumes(ord) /\ CouponInfo[ord.coupon].limited)
    BY <1>1, <2>1, <2>3 DEF Contract!UseCoupon, StockWrites
  <2> QED BY <2>2, <2>3
<1>7. Contract!NoOverselling(u)
  <2> SUFFICES ASSUME NEW p \in Plans, Capacity[p] > 0
               PROVE  \/ Seats(users', p, now) <= Capacity[p]
                      \/ Seats(users', p, now) <= Seats(users, p, now)
                      \/ users[u].plan = p /\ Seats(users', p, now) <= Seats(StartRows, p, 0)
    BY SameRows DEF Contract!NoOverselling
  <2> QED BY CommitFits
<1>8. Contract!OpenStatuses = OpenStatuses
  BY SameRows
<1> QED BY <1>1, <1>2, <1>4, <1>5, <1>6, <1>7, <1>8 DEF Contract!OpenOrder

\* A cancellation withdraws the order, late or not, or was withdrawn before.
LEMMA CancelImplements ==
  ASSUME IInv, HeldInv, NEW s \in Sessions, CancelWrite(s)
  PROVE  \/ UNCHANGED Contract!vars
         \/ \E o \in OrderIds : Contract!Withdraw(o) \/ Contract!WithdrawLate(o)
<1>1. /\ pc[s] = "cancel" /\ status' = [status EXCEPT ![cur[s]] = "cancelled"]
      /\ UNCHANGED <<orders, users, stock, now>>
  BY DEF CancelWrite, world
<1>2. cur[s] \in OrderIds /\ status[cur[s]] # "absent" /\ status \in [OrderIds -> Statuses]
  BY <1>1, AtWork DEF IInv, TypeOK, RowsOK
<1>3. status[cur[s]] # "opening"
  BY <1>1 DEF HeldInv, CancelsPlaced
<1>4. status[cur[s]] \in {"pending", "completed", "cancelled"}
  BY <1>2, <1>3 DEF Statuses
<1>5. CASE status[cur[s]] = "cancelled"
  <2>1. UNCHANGED status
    BY <1>1, <1>2, <1>5
  <2> QED BY <1>1, <2>1 DEF Contract!vars
<1>6. CASE status[cur[s]] \in {"pending", "completed"}
  BY <1>1, <1>2, <1>6 DEF Contract!Withdraw, Contract!WithdrawLate
<1> QED BY <1>4, <1>5, <1>6

\* An insertion places the order.
LEMMA InsertImplements ==
  ASSUME IInv, NEW o \in OrderIds, Inserted(o), UNCHANGED now PROVE Contract!Place(o)
<1>1. PICK row \in OrderRow : orders' = [orders EXCEPT ![o] = row]
  BY DEF Inserted
<1>2. DOMAIN orders = OrderIds
  BY DEF IInv, TypeOK, RowsOK
<1>3. orders'[o] \in Contract!OrderRow
  BY <1>1, <1>2, SameRows
<1> QED BY <1>1, <1>2, <1>3 DEF Contract!Place, Inserted

\* Every step is a step of the contract or none.
LEMMA NextImplements ==
  IInv /\ IInv' /\ HeldInv /\ SeatInv /\ [Next]_vars => [Contract!Next]_(Contract!vars)
<1> SUFFICES ASSUME IInv, IInv', HeldInv, SeatInv, [Next]_vars
             PROVE  Contract!Next \/ UNCHANGED Contract!vars
  OBVIOUS
<1>1. ASSUME UNCHANGED Books, UNCHANGED now PROVE UNCHANGED Contract!vars
  BY <1>1 DEF Books, Contract!vars
<1>2. CASE UNCHANGED vars
  BY <1>2 DEF vars, rows, world, Contract!vars
<1>3. CASE OutsideStep
  BY <1>3 DEF OutsideStep, Books, Contract!Next, Contract!Tick, Contract!vars
<1>4. ASSUME NEW s \in Sessions, SessionStep(s)
      PROVE  Contract!Next \/ UNCHANGED Contract!vars
  <2>1. UNCHANGED now
    BY <1>4 DEF SessionStep
  <2>2. CASE UNCHANGED Books
    BY <1>1, <2>1, <2>2
  <2>3. ASSUME NEW o \in OrderIds, Inserted(o) PROVE Contract!Next
    BY <2>1, <2>3, InsertImplements DEF Contract!Next
  <2>4. CASE CancelWrite(s)
    BY <2>4, CancelImplements DEF Contract!Next
  <2>5. CASE Commit(s)
    <3>1. cur[s] \in OrderIds
      BY <2>5, AtWork DEF Commit
    <3> QED BY <2>5, <3>1, CommitImplements DEF Contract!Next
  <2>6. CASE CalcCommit(s)
    BY <2>6 DEF CalcCommit, world, Contract!vars
  <2> QED BY <1>4, <2>2, <2>3, <2>4, <2>5, <2>6 DEF SessionStep
<1> QED BY <1>2, <1>3, <1>4, StepKinds

\* The concurrent transactions, with their locks, early answers, stale reads,
\* failures and deadlock victims, implement the contract: whoever looks at the
\* committed rows sees orders opened one at a time, each in one step.
THEOREM ContractImplemented == Spec => ImplementsContract
<1> QED BY InitImplements, NextImplements, AlwaysIInv, AlwaysHeld, AlwaysSeats, PTL
        DEF Spec, ImplementsContract, Contract!Spec
=============================================================================
