------------------------------- MODULE Wallets -------------------------------
(***************************************************************************)
(* What a user owns - balance, commission, a plan until a date - and what  *)
(* pays for it: gift cards, coupons, orders, and the administrator's forms. *)
(*                                                                         *)
(* Two kinds of writers meet on these rows.  Redeeming a card and opening  *)
(* an order take the row locks first and compute from the locked rows.  A  *)
(* commission transfer, a commission credit and every administrator's form *)
(* read without a lock and later write absolute values of the columns      *)
(* that changed; a form even shows values as old as the page.              *)
(*                                                                         *)
(* Traffic counters and quotas (cards of type 3 and 4) have no column      *)
(* here; MODULE Orders has the order's own life cycle.                     *)
(***************************************************************************)
EXTENDS Integers, FiniteSets, Sequences

CONSTANTS
  Sessions,   \* concurrent database sessions
  Forms,      \* administration pages that may be open
  Users, Cards, Coupons, Plans, None,
  CardInfo,   \* giftcard: type, value, plan, starts, ends
  Capacity,   \* plan.capacity_limit, 0 for none
  StartRows,  \* the rows at the start
  Never,      \* the expiry of a plan that does not end
  Purchases,  \* orders to open: [plan, price, ticks, coupon]
  Deposits,   \* deposits to open
  Amounts,    \* commissions credited and amounts transferred
  Edits,      \* what administrators type: <<column, value>>
  NamesLimit, \* users a used_user_ids column has room for
  MaxTime,    \* bound on the clock
  MaxRequests \* bound on the operations started

Rows == Users \cup Cards \cup Coupons

\* The columns of a row, and their values.
Columns(r) == IF r \in Users THEN {"balance", "commission", "plan", "expired"}
              ELSE IF r \in Cards THEN {"left", "names"} ELSE {"left"}

Values(x) == CASE x = "plan"  -> Plans \cup {None}
               [] x = "names" -> SUBSET Users
               [] OTHER -> Int

ASSUME WalletsAssumption ==
  /\ None \notin Rows \cup Plans \cup Sessions
  /\ Users \cap Cards = {} /\ Users \cap Coupons = {} /\ Cards \cap Coupons = {}
  /\ Plans \cap Rows = {} /\ IsFiniteSet(Users)
  /\ \A c \in Cards :
       /\ CardInfo[c].type \in {"balance", "days", "plan"}
       /\ CardInfo[c].value \in Nat
       /\ CardInfo[c].type = "plan" => CardInfo[c].plan \in Plans
  /\ Capacity \in [Plans -> Nat]
  /\ DOMAIN StartRows = Rows
  /\ \A r \in Rows : /\ StartRows[r] # None /\ DOMAIN StartRows[r] = Columns(r)
                      /\ \A x \in Columns(r) : StartRows[r][x] \in Values(x)
  /\ Purchases \subseteq [plan : Plans, price : Nat, ticks : Nat, coupon : Coupons \cup {None}]
  /\ Deposits \subseteq Nat /\ Amounts \subseteq Nat
  /\ \A e \in Edits, r \in Rows : e[1] \in Columns(r) => e[2] \in Values(e[1])
  /\ MaxTime \in Nat /\ Never \in Nat /\ Never > MaxTime /\ NamesLimit \in Nat

VARIABLES
  rows,      \* users, giftcard and coupon; None once deleted
  redeemed,  \* giftcard_redemption, a unique key on both columns
  holder,    \* who holds the lock of a row
  tx,        \* the operation a session is at
  forms,     \* open pages: the row and the values shown
  now, requests,
  \* history
  due,       \* what the operations so far add up to, per row
  raced,     \* rows an unlocked write took back to an older value
  benefits,  \* how often a user was given what a card holds
  consumed,  \* orders opened with a coupon
  origin     \* what gave a user the seat: "order", "card" or "form"

walletVars == <<rows, redeemed, holder, tx, forms, now, requests,
                due, raced, benefits, consumed, origin>>

history == <<due, raced, benefits, consumed, origin>>

\* The columns a form of the administration shows.
Fields(r) == Columns(r) \ {"commission"}

\* The part of a row the ledger is about.
Money(r, row) == IF r \in Users THEN row.balance + row.commission ELSE row.left

\* A session between operations, and the operations under row locks.
Idle == [op |-> "idle"]
Lockers == {"redeem", "deposit", "purchase"}

Init ==
  /\ rows = StartRows
  /\ redeemed = {}
  /\ holder = [r \in Rows \cup Plans |-> None]
  /\ tx = [s \in Sessions |-> Idle]
  /\ forms = [f \in Forms |-> None]
  /\ now = 0 /\ requests = 0
  /\ due = [r \in Rows |-> Money(r, StartRows[r])]
  /\ raced = {}
  /\ benefits = [cu \in Cards \X Users |-> 0]
  /\ consumed = [k \in Coupons |-> 0]
  /\ origin = [u \in Users |-> "form"]

Exists(r) == rows[r] # None

Free(r) == holder[r] = None

Active(row, t) == row.expired > t

\* A seat is counted with >=, has_capacity and count_active_users.
Seated(p, t) ==
  {u \in Users : Exists(u) /\ rows[u].plan = p /\ rows[u].expired >= t}

Start(s, op) ==
  /\ tx[s] = Idle /\ requests < MaxRequests
  /\ tx' = [tx EXCEPT ![s] = op]
  /\ requests' = requests + 1
  /\ UNCHANGED <<rows, redeemed, holder, forms, now, history>>

Finish(s) ==
  /\ tx' = [tx EXCEPT ![s] = Idle]
  /\ holder' = [r \in DOMAIN holder |-> IF holder[r] = s THEN None ELSE holder[r]]
  /\ UNCHANGED <<forms, now, requests>>

RollBack(s) == Finish(s) /\ UNCHANGED <<rows, redeemed, history>>

-----------------------------------------------------------------------------
(***************************************************************************)
(* Operations under row locks: the rows in "wants" are locked one after    *)
(* the other, and the values computed later are those of the locked rows.  *)
(***************************************************************************)
Unseen == [r \in Rows |-> None]

Redeem(s, u, c) ==
  Start(s, [op |-> "redeem", user |-> u, card |-> c, seen |-> Unseen,
            wants |-> IF CardInfo[c].type = "plan"
                      THEN <<c, u, CardInfo[c].plan>> ELSE <<c, u>>])

OpenDeposit(s, u, amount) ==
  Start(s, [op |-> "deposit", user |-> u, amount |-> amount, seen |-> Unseen,
            wants |-> <<u>>])

OpenPurchase(s, u, b) ==
  Start(s, [op |-> "purchase", user |-> u, buy |-> b, seen |-> Unseen,
            wants |-> IF b.coupon = None THEN <<u, b.plan>>
                                         ELSE <<u, b.plan, b.coupon>>])

\* Mutant: only the list in the card is looked at.
RedeemedColumn(c, u) == u \in rows[c].names

\* The redemption row: looked up before, and a unique key at the insertion.
Redeemed(c, u) == <<c, u>> \in redeemed

\* Mutant: a plan card may renew the plan it is bound to.
MayRedeemRenewing(c, card, u, user) ==
  /\ CardInfo[c].starts <= now /\ now <= CardInfo[c].ends
  /\ card.left > 0
  /\ ~Redeemed(c, u) /\ u \notin card.names
  /\ CardInfo[c].type = "plan" =>
       user.plan \in {None, CardInfo[c].plan} \/ ~Active(user, now)

MayRedeem(c, card, u, user) ==
  /\ CardInfo[c].starts <= now /\ now <= CardInfo[c].ends
  /\ card.left > 0
  /\ ~Redeemed(c, u) /\ u \notin card.names
  /\ CardInfo[c].type = "plan" => user.plan = None \/ ~Active(user, now)
  /\ Cardinality(card.names) < NamesLimit

RequiresSlot(user, b) == ~(user.plan = b.plan /\ Active(user, now))

\* Mutant: the boundary counts one seat too many.
HasSeatOver(p) == Capacity[p] = 0 \/ Cardinality(Seated(p, now)) <= Capacity[p]

HasSeat(p) == Capacity[p] = 0 \/ Cardinality(Seated(p, now)) < Capacity[p]

\* The checks of operation t that follow the lock of row r.
Passes(t, r) ==
  /\ r \in Rows => Exists(r)
  /\ t.op = "redeem" /\ r = t.user => MayRedeem(t.card, t.seen[t.card], r, rows[r])
  /\ t.op = "purchase" =>
       /\ r = t.buy.plan /\ RequiresSlot(t.seen[t.user], t.buy) => HasSeat(r)
       /\ r = t.buy.coupon => rows[r].left > 0
       /\ Len(t.wants) = 1 => t.seen[t.user].balance >= t.buy.price

\* The operation goes on with the row as it was read.
Seen(t, r) == [t EXCEPT !.wants = Tail(@),
                        !.seen = [x \in Rows |-> IF x = r THEN rows[r] ELSE @[x]]]

\* Mutant: the row is read without FOR UPDATE.
LockNextUnlocked(s) ==
  LET t == tx[s]  r == Head(t.wants) IN
  /\ t.op \in Lockers /\ t.wants # <<>> /\ Free(r)
  /\ Passes(t, r)
  /\ tx' = [tx EXCEPT ![s] = Seen(t, r)]
  /\ UNCHANGED <<rows, redeemed, holder, forms, now, requests, history>>

LockNext(s) ==
  LET t == tx[s]  r == Head(t.wants) IN
  /\ t.op \in Lockers /\ t.wants # <<>> /\ Free(r)
  /\ Passes(t, r)
  /\ tx' = [tx EXCEPT ![s] = Seen(t, r)]
  /\ holder' = [holder EXCEPT ![r] = s]
  /\ UNCHANGED <<rows, redeemed, forms, now, requests, history>>

\* A check failed: the exception rolls the transaction back.
Refuse(s) ==
  LET t == tx[s] IN
  /\ t.op \in Lockers /\ t.wants # <<>> /\ Free(Head(t.wants))
  /\ ~Passes(t, Head(t.wants))
  /\ RollBack(s)

Later(a, b) == IF a > b THEN a ELSE b

\* What the card t.card makes of the user row.
Benefit(t) ==
  LET info == CardInfo[t.card]
      user == t.seen[t.user]
  IN CASE info.type = "balance" -> [user EXCEPT !.balance = @ + info.value]
       [] info.type = "days" ->
            [user EXCEPT !.expired = Later(@, now) + info.value]
       [] info.type = "plan" ->
            [user EXCEPT !.plan = info.plan,
                         !.expired = IF info.value = 0 THEN Never ELSE now + info.value]

\* The redemption commits: user, card and redemption row together.
RedeemCommit(s) ==
  LET t == tx[s]  c == t.card  u == t.user IN
  /\ t.op = "redeem" /\ t.wants = <<>>
  /\ ~Redeemed(c, u)
  /\ rows' = [rows EXCEPT ![u] = Benefit(t),
                          ![c] = [left |-> t.seen[c].left - 1,
                                  names |-> t.seen[c].names \cup {u}]]
  /\ redeemed' = redeemed \cup {<<c, u>>}
  /\ Finish(s)
  /\ due' = [due EXCEPT ![u] = @ + IF CardInfo[c].type = "balance"
                                   THEN CardInfo[c].value ELSE 0]
  /\ benefits' = [benefits EXCEPT ![<<c, u>>] = @ + 1]
  /\ origin' = [origin EXCEPT ![u] =
       IF \/ CardInfo[c].type = "plan"
          \/ CardInfo[c].type = "days" /\ ~Active(t.seen[u], now)
       THEN "card" ELSE @]
  /\ UNCHANGED <<raced, consumed>>

\* The order's rows commit: the user's balance and plan, the coupon's limit.
OpenCommit(s) ==
  LET t == tx[s]
      u == t.user
      user == t.seen[u]
      k == t.buy.coupon
      ends == Later(user.expired, now) + t.buy.ticks
  IN
  /\ t.op \in {"deposit", "purchase"} /\ t.wants = <<>>
  /\ IF t.op = "deposit"
     THEN /\ rows' = [rows EXCEPT ![u] = [user EXCEPT !.balance = @ + t.amount]]
          /\ due' = [due EXCEPT ![u] = @ + t.amount]
          /\ UNCHANGED <<consumed, origin>>
     ELSE /\ rows' = [r \in Rows |->
               CASE r = u -> [user EXCEPT !.balance = @ - t.buy.price,
                                          !.plan = t.buy.plan, !.expired = ends]
                 [] r = k -> [left |-> t.seen[k].left - 1]
                 [] OTHER -> rows[r]]
          /\ due' = [due EXCEPT ![u] = @ - t.buy.price]
          /\ consumed' = [x \in Coupons |-> consumed[x] + IF x = k THEN 1 ELSE 0]
          /\ origin' = [origin EXCEPT ![u] =
               IF user.plan = t.buy.plan /\ Active(user, now) THEN @ ELSE "order"]
  /\ Finish(s)
  /\ UNCHANGED <<redeemed, raced, benefits>>

-----------------------------------------------------------------------------
(***************************************************************************)
(* Operations without a lock: read, then write the changed columns.        *)
(***************************************************************************)
\* The columns session s is about to write to row r, and the values the
\* decision was taken on.
Edit(s, r, columns, basis) ==
  Start(s, [op |-> "edit", row |-> r, columns |-> columns, basis |-> basis])

TransferCommission(s, u, amount) ==
  /\ Exists(u) /\ amount <= rows[u].commission
  /\ Edit(s, u, [commission |-> rows[u].commission - amount,
                 balance |-> rows[u].balance + amount], rows[u])

\* calculate_for_order, the inviter's part of an opening.
CreditCommission(s, u, amount) ==
  /\ Exists(u)
  /\ Edit(s, u, [commission |-> rows[u].commission + amount], rows[u])

\* The form is filled from the row as it is now.
OpenForm(f, r) ==
  /\ forms[f] = None /\ Exists(r) /\ requests < MaxRequests
  /\ forms' = [forms EXCEPT ![f] = [row |-> r,
                 shown |-> [x \in Fields(r) |-> rows[r][x]]]]
  /\ requests' = requests + 1
  /\ UNCHANGED <<rows, redeemed, holder, tx, now, history>>

\* The ORM writes the columns that differ from the row it has just read.
Changed(row, typed) == {x \in DOMAIN typed : row[x] # typed[x]}

\* The administrator changes one field, or none, and saves.
SubmitForm(s, f, edit) ==
  LET r == forms[f].row
      typed == IF edit[1] \in DOMAIN forms[f].shown
               THEN [forms[f].shown EXCEPT ![edit[1]] = edit[2]] ELSE forms[f].shown
  IN
  /\ forms[f] # None /\ tx[s] = Idle /\ requests < MaxRequests
  /\ tx' = [tx EXCEPT ![s] =
       IF Exists(r)
       THEN [op |-> "edit", row |-> r, basis |-> forms[f].shown,
             columns |-> [x \in Changed(rows[r], typed) |-> typed[x]]]
       ELSE Idle]
  /\ forms' = [forms EXCEPT ![f] = None]
  /\ requests' = requests + 1
  /\ UNCHANGED <<rows, redeemed, holder, now, history>>

\* A row with new values in some of its columns.
Written(row, columns) ==
  [x \in DOMAIN row |-> IF x \in DOMAIN columns THEN columns[x] ELSE row[x]]

\* The UPDATE waits for the row's lock.  A deleted row ends the transaction.
EditCommit(s) ==
  LET t == tx[s]  r == t.row
      new == Written(rows[r], t.columns)
      basis == Written(rows[r], t.basis)
  IN
  /\ t.op = "edit" /\ Free(r) /\ Exists(r)
  /\ rows' = [rows EXCEPT ![r] = new]
  /\ due' = [due EXCEPT ![r] = @ + Money(r, Written(basis, t.columns)) - Money(r, basis)]
  /\ raced' = IF \E x \in DOMAIN t.columns : rows[r][x] # basis[x]
              THEN raced \cup {r} ELSE raced
  /\ origin' = [u \in Users |-> IF u = r /\ (new.plan # rows[u].plan \/ new.expired # rows[u].expired)
                                THEN "form" ELSE origin[u]]
  /\ Finish(s)
  /\ UNCHANGED <<redeemed, benefits, consumed>>

EditLost(s) ==
  /\ tx[s].op = "edit" /\ ~Exists(tx[s].row)
  /\ RollBack(s)

\* delete_user: the redemptions of the user stay.
DeleteUser(u) ==
  /\ Exists(u) /\ Free(u) /\ requests < MaxRequests
  /\ rows' = [rows EXCEPT ![u] = None]
  /\ requests' = requests + 1
  /\ UNCHANGED <<redeemed, holder, tx, forms, now, history>>

\* A tick is days long: no transaction holds its locks over one.
Tick ==
  /\ now < MaxTime /\ \A r \in DOMAIN holder : Free(r)
  /\ now' = now + 1
  /\ UNCHANGED <<rows, redeemed, holder, tx, forms, requests, history>>

-----------------------------------------------------------------------------
Next ==
  \/ \E s \in Sessions :
       \/ \E u \in Users :
            \/ \E c \in Cards : Redeem(s, u, c)
            \/ \E a \in Deposits : OpenDeposit(s, u, a)
            \/ \E b \in Purchases : OpenPurchase(s, u, b)
            \/ \E a \in Amounts : TransferCommission(s, u, a) \/ CreditCommission(s, u, a)
       \/ \E f \in Forms, e \in Edits : SubmitForm(s, f, e)
       \/ LockNext(s) \/ Refuse(s) \/ RedeemCommit(s) \/ OpenCommit(s)
       \/ EditCommit(s) \/ EditLost(s)
  \/ \E f \in Forms, r \in Rows : OpenForm(f, r)
  \/ \E u \in Users : DeleteUser(u)
  \/ Tick

Spec == Init /\ [][Next]_walletVars

-----------------------------------------------------------------------------
Uses(r) ==
  CASE r \in Users   -> 0
    [] r \in Cards   -> Cardinality({u \in Users : <<r, u>> \in redeemed})
    [] r \in Coupons -> consumed[r]

\* Every cent and every use is accounted for: what a user holds is what the
\* operations add up to, and the uses of a card or coupon and its remaining
\* limit add up to what administrators granted - unless a transfer, a credit
\* or a form wrote over a row that had changed since it was read
\* (services/giftcard.py redeem, services/commission.py transfer_commission,
\* services/coupon.py update).
Ledger ==
  \A r \in Rows \ raced : Exists(r) => Money(r, rows[r]) + Uses(r) = due[r]

\* Nobody gets the benefit of one card twice, not even after a form has
\* written an older list of users into the card (giftcard.py redeem).
OncePerCard == \A cu \in Cards \X Users : benefits[cu] <= 1

\* A plan has more seats than its capacity only through seats that no order
\* took (order.py _ensure_plan_capacity_available; giftcard.py
\* _apply_plan_giftcard and the user form do not look at the capacity).
SeatsSold ==
  \A p \in Plans : Capacity[p] > 0 =>
    Cardinality({u \in Seated(p, now) : origin[u] = "order"}) <= Capacity[p]

\* A redemption never shortens the running subscription of a user who has a
\* plan (giftcard.py redeem and _apply_plan_giftcard).
CardsNeverShorten ==
  [][\A cu \in redeemed' \ redeemed :
       Exists(cu[2]) /\ rows[cu[2]].plan # None /\ Active(rows[cu[2]], now)
         => rows'[cu[2]].expired >= rows[cu[2]].expired]_walletVars
=============================================================================
