---------------------------- MODULE OrderContract ----------------------------
(***************************************************************************)
(* What the order service promises to everybody who looks at committed     *)
(* rows only: orders are opened one after the other, each in one           *)
(* indivisible step that takes the money, the coupon and the seat and      *)
(* gives the subscription, out of what is there at that moment.  There are *)
(* no sessions, locks or requests here; Orders is shown to implement this. *)
(***************************************************************************)
EXTENDS OrderRows

CONSTANT StartRows  \* the users at the start

VARIABLES
  status,  \* the state of every order
  orders,  \* what was ordered
  users,   \* balance and subscription of every user
  stock,   \* what is left of the coupons
  now      \* the clock

vars == <<status, orders, users, stock, now>>

Init ==
  /\ status \in [OrderIds -> {"absent", "opening"}]
  /\ \A o \in OrderIds : orders[o] \in OrderRow \cup {None}
  /\ users = StartRows
  /\ stock \in [Coupons -> Nat]
  /\ now = 0

Place(o) ==
  /\ status[o] = "absent"
  /\ status' = [status EXCEPT ![o] = "pending"]
  /\ orders'[o] \in OrderRow
  /\ \A x \in OrderIds \ {o} : orders'[x] = orders[x]
  /\ UNCHANGED <<users, stock, now>>

\* The coupon of the order gives one unit, if it is a limited one.
UseCoupon(ord) ==
  IF Consumes(ord) /\ CouponInfo[ord.coupon].limited
  THEN stock[ord.coupon] > 0 /\ stock' = [stock EXCEPT ![ord.coupon] = @ - 1]
  ELSE UNCHANGED stock

\* Nobody is squeezed in: a plan has room after the opening, or it had no
\* room before and the opening has not made it worse.  A renewal takes no seat
\* of its own, so where more users than the capacity had the plan to begin with,
\* one that lapses while its renewal is under way may come back.
NoOverselling(u) ==
  \A p \in Plans : Capacity[p] > 0 =>
    \/ Seats(users', p, now) <= Capacity[p]
    \/ Seats(users', p, now) <= Seats(users, p, now)
    \/ users[u].plan = p /\ Seats(users', p, now) <= Seats(StartRows, p, 0)

\* The new expiry counts from a moment the opening began at, at most now.
OpenOrder(o) ==
  LET u == orders[o].user IN
  /\ status[o] \in OpenStatuses
  /\ status' = [status EXCEPT ![o] = "completed"]
  /\ users[u].balance >= orders[o].balance
  /\ \E t \in 0..now : users' = [users EXCEPT ![u] = Fulfilled(@, orders[o], t)]
  /\ UseCoupon(orders[o])
  /\ NoOverselling(u)
  /\ UNCHANGED <<orders, now>>

Withdraw(o) ==
  /\ status[o] = "pending"
  /\ status' = [status EXCEPT ![o] = "cancelled"]
  /\ UNCHANGED <<orders, users, stock, now>>

\* A cancellation that read the order as pending may come after its opening;
\* it changes what the order shows and takes nothing back.
WithdrawLate(o) ==
  /\ status[o] = "completed"
  /\ status' = [status EXCEPT ![o] = "cancelled"]
  /\ UNCHANGED <<orders, users, stock, now>>

Tick == now' = now + 1 /\ UNCHANGED <<status, orders, users, stock>>

Next ==
  \/ \E o \in OrderIds : Place(o) \/ OpenOrder(o) \/ Withdraw(o) \/ WithdrawLate(o)
  \/ Tick

Spec == Init /\ [][Next]_vars
=============================================================================
