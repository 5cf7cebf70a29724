------------------------------ MODULE OrderRows ------------------------------
(***************************************************************************)
(* The rows of the tables the order life cycle works on, and the pure      *)
(* functions app/services/order.py and app/services/coupon.py apply to     *)
(* them.  Money is a natural number of cents, time a natural number of     *)
(* ticks; the calendar arithmetic of _add_months is a length per period.   *)
(* The traffic counters u and d, which an order also resets, and the       *)
(* columns copied from the plan (group, quota, speed and device limit)     *)
(* are not part of a row here: the plan stands for the latter.             *)
(***************************************************************************)
EXTENDS Naturals, FiniteSets

CONSTANTS
  Users,        \* rows of users
  Plans,        \* rows of plan
  Coupons,      \* rows of coupon
  OrderIds,     \* primary keys the orders table may still hand out
  Methods,      \* enabled rows of payment
  None,         \* SQL NULL, and "nobody" for a row lock
  Price,        \* Price[<<p, period>>] is the price of plan p for a period
  PeriodTicks,  \* length of each recurring period (PERIOD_MONTHS)
  OddPeriods,   \* what an administrator may type for a period and is none
  Never,        \* NEVER_EXPIRES_AT
  Shown,        \* plans with show set
  Renewable,    \* plans with renew set
  Capacity,     \* capacity_limit per plan, 0 for none
  Tiers,        \* deposit_bounus: <<deposit, bonus>> pairs
  CouponInfo,   \* the columns of a coupon that nothing here changes
  Inviter,      \* invite_user_id of each user
  FirstTimeOnly,\* commission_first_time_enable
  Rate          \* invite_commission, in percent

Offers == DOMAIN Price

RecurringPeriods == DOMAIN PeriodTicks

SoldPeriods == {"reset_price", "onetime_price"} \cup RecurringPeriods

Periods == {"deposit"} \cup SoldPeriods \cup OddPeriods

ASSUME RowsAssumption ==
  /\ None \notin Users \cup Plans \cup Coupons \cup Methods \cup OrderIds
  /\ Offers \subseteq Plans \X SoldPeriods
  /\ Price \in [Offers -> Nat]
  /\ PeriodTicks \in [RecurringPeriods -> Nat \ {0}]
  /\ Never \in Nat
  /\ Capacity \in [Plans -> Nat]
  /\ Tiers \subseteq Nat \X Nat
  /\ \A T \in SUBSET Tiers : T # {} => \E x \in T : \A y \in T : y[2] <= x[2]
  /\ CouponInfo \in [Coupons -> [type : {1, 2}, limited : BOOLEAN,
                                 perUser : Nat, ends : Nat,
                                 offers : SUBSET Offers]]
  /\ Inviter \in [Users -> Users \cup {None}]
  /\ FirstTimeOnly \in BOOLEAN
  /\ Rate \in Nat

(***************************************************************************)
(* Types of the rows.  An order's columns are split into the ones fixed    *)
(* when the row is inserted (OrderRow) and the ones a checkout rewrites    *)
(* (Invoice); its status is kept by the modules that use these types.      *)
(***************************************************************************)
UserRow == [balance : Nat, plan : Plans \cup {None}, expired : Nat]

OrderRow == [user : Users, plan : Plans \cup {None}, period : Periods,
             total : Nat, balance : Nat,
             coupon : Coupons \cup {None}, discount : Nat, created : Nat]

Invoice == [method : Methods \cup {None}, fee : Nat]

Statuses == {"absent", "pending", "opening", "cancelled", "completed"}

OpenStatuses == {"pending", "opening"}

Least(a, b) == IF a < b THEN a ELSE b

(***************************************************************************)
(* Subscriptions.                                                          *)
(***************************************************************************)
IsActive(row, t) == row.expired > t

IsDeposit(ord) == ord.period = "deposit" \/ ord.plan = None

\* The opening of the order uses up its coupon.
Consumes(ord) == ~IsDeposit(ord) /\ ord.coupon # None /\ ord.discount > 0

\* The order would give one more user an active subscription to plan p.
RequiresSlot(row, p, period, t) ==
  /\ period # "reset_price"
  /\ ~(row.plan = p /\ IsActive(row, t))

\* The seats of plan p in a users table: >= where IsActive has >.
Seats(table, p, t) ==
  Cardinality({u \in Users : table[u].plan = p /\ table[u].expired >= t})

HasSeat(table, p, t) == Capacity[p] = 0 \/ Seats(table, p, t) < Capacity[p]

\* What the shop refuses to sell to this user before it looks at the price.
MayBuy(row, p, period, t) ==
  /\ period = "reset_price" => IsActive(row, t) /\ row.plan = p
  /\ period # "reset_price" /\ p \notin Shown
        => p \in Renewable /\ row.plan = p /\ IsActive(row, t)
  /\ period # "reset_price" /\ row.plan = p => p \in Renewable

AddPeriod(expired, period, t) ==
  (IF expired > t THEN expired ELSE t) + PeriodTicks[period]

(***************************************************************************)
(* Amounts.                                                                *)
(***************************************************************************)
\* The best bonus among the tiers the deposit reaches.
DepositBonus(total) ==
  LET reached == {tier \in Tiers : total >= tier[1]} IN
  IF reached = {} THEN 0
  ELSE (CHOOSE x \in reached : \A y \in reached : y[2] <= x[2])[2]

Discount(c, value, amount) ==
  Least(amount, IF CouponInfo[c].type = 1 THEN value
                                          ELSE (amount * value) \div 100)

\* The part of an amount the balance of the buyer covers.
FromBalance(row, amount) == Least(row.balance, amount)

CommissionOn(total) == (total * Rate) \div 100

\* The user row an order leaves behind when it is opened at time t.
Fulfilled(row, ord, t) ==
  IF IsDeposit(ord)
  THEN [row EXCEPT !.balance = @ + ord.total + DepositBonus(ord.total)]
  ELSE LET paid == [row EXCEPT !.balance = @ - ord.balance] IN
       CASE ord.period = "reset_price"   -> paid
         [] ord.period = "onetime_price" -> [paid EXCEPT !.plan = ord.plan,
                                                         !.expired = Never]
         [] OTHER -> [paid EXCEPT !.plan = ord.plan,
                        !.expired = AddPeriod(row.expired, ord.period, t)]
=============================================================================
