------------------------------- MODULE MCOrders -------------------------------
(***************************************************************************)
(* Small instances of Orders.  The definitions named after a question are  *)
(* the constant values of the run that asks it; the others are shared.     *)
(***************************************************************************)
EXTENDS Orders, TLC

CONSTANTS u1, u2, u3, p1, p2, c1, o1, o2, m1, m2

Symmetry == Permutations(Sessions)

NoRows == [x \in {} |-> None]

Fresh(balance) == [balance |-> balance, plan |-> None, expired |-> 0]
Subscribed(balance, p, until) == [balance |-> balance, plan |-> p, expired |-> until]

MCPeriodTicks == [month_price |-> 2]
MCNever == 9

NoInviter == [u \in Users |-> None]
Unlimited == [p \in Plans |-> 0]

\* A fee that depends on the amount, and none.
MCFees == [m \in Methods |-> IF m = m1 THEN [fixed |-> 1, percent |-> 25]
                                       ELSE [fixed |-> 0, percent |-> 0]]
NoStock == [c \in Coupons |-> 0]

(* Paying: one user, a deposit and a plan half paid from the balance. *)
PayPrice == [offer \in {<<p1, "month_price">>} |-> 4]
PayRows == [u \in Users |-> Fresh(2)]
PayTiers == {<<1, 1>>, <<3, 2>>}
PayImported ==
  o1 :> [user |-> u1, plan |-> p1, period |-> "month_price", total |-> 2,
         balance |-> 2, coupon |-> None, discount |-> 0, created |-> 0]
PayAssignments == {[user |-> u1, plan |-> p1, period |-> "weekly", total |-> 1],
                   [user |-> u1, plan |-> p1, period |-> "deposit", total |-> 0]}

(* Selling: two seats short, subscriptions that lapse, every kind of order. *)
SellPrice == (<<p1, "month_price">> :> 2) @@ (<<p1, "reset_price">> :> 1)
             @@ (<<p2, "onetime_price">> :> 3)
SellRows == (u1 :> Subscribed(3, p1, 1)) @@ (u2 :> Fresh(5))
SellCapacity == (p1 :> 1) @@ (p2 :> 1)
SellAssignments == {[user |-> u2, plan |-> p1, period |-> "month_price", total |-> 0]}

(* Coupons: half price once in all, and one unit of money off once per user. *)
MCCouponInfo == [c \in Coupons |-> [type |-> 2, limited |-> TRUE, perUser |-> 1,
                                    ends |-> 0, offers |-> Offers]]
MCPerUserInfo == [c \in Coupons |-> [type |-> 1, limited |-> FALSE, perUser |-> 1,
                                    ends |-> 0, offers |-> Offers]]
OneUnit == [c \in Coupons |-> 1]
Half == [c \in Coupons |-> 50]

(* Commissions: users invited by the first one, two plans. *)
CommissionPrice == [offer \in Plans \X {"month_price"} |-> 4]
CommissionRows == [u \in Users |-> Fresh(0)]
InvitedBy1 == [u \in Users |-> IF u = u1 THEN None ELSE u1]
=============================================================================
