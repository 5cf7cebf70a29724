------------------------------ MODULE MCWallets ------------------------------
(***************************************************************************)
(* Two users, a card of each kind with a bearing on money or seats, one    *)
(* coupon and one plan with one seat.                                      *)
(***************************************************************************)
EXTENDS Wallets

CONSTANTS u1, u2, cash, days, pack, life, k1, p1

MCInfo ==
  [c \in Cards |->
     CASE c = cash -> [type |-> "balance", value |-> 2, plan |-> None, starts |-> 0, ends |-> 1]
       [] c = days -> [type |-> "days", value |-> 1, plan |-> None, starts |-> 1, ends |-> 2]
       [] c = life -> [type |-> "plan", value |-> 0, plan |-> p1, starts |-> 0, ends |-> 2]
       [] c = pack -> [type |-> "plan", value |-> 1, plan |-> p1, starts |-> 0, ends |-> 2]]

MCStart ==
  [r \in Rows |->
     CASE r = u1 -> [balance |-> 1, commission |-> 1, plan |-> None, expired |-> 0]
       [] r = u2 -> [balance |-> 1, commission |-> 0, plan |-> None, expired |-> 0]
       [] r \in Cards -> [left |-> IF r = cash THEN 2 ELSE 1, names |-> {}]
       [] r \in Coupons -> [left |-> 1]]

MCCapacity == [p \in Plans |-> 1]
MCPurchases == {[plan |-> p1, price |-> 1, ticks |-> 1, coupon |-> k] : k \in {None, k1}}
MCEdits == {<<"remarks", "">>, <<"balance", 3>>, <<"left", 2>>, <<"expired", 1>>}
=============================================================================
