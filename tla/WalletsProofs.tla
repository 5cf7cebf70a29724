---------------------------- MODULE WalletsProofs ----------------------------
(***************************************************************************)
(* Theorems about Wallets for every value of its constants.                *)
(***************************************************************************)
EXTENDS Wallets, FiniteSetTheorems, SequenceTheorems, TLAPS

(***************************************************************************)
(* What the ledgers stand on: the values computed under row locks are      *)
(* those of the rows they replace.                                         *)
(***************************************************************************)
ColumnsOK(r, columns) ==
  /\ DOMAIN columns \subseteq Columns(r)
  /\ \A x \in DOMAIN columns : columns[x] \in Values(x)

RowOK(r, row) == DOMAIN row = Columns(r) /\ ColumnsOK(r, row)

RowsOK ==
  /\ DOMAIN rows = Rows /\ \A r \in Rows : Exists(r) => RowOK(r, rows[r])
  /\ redeemed \subseteq Cards \X Users
  /\ due \in [Rows -> Int] /\ consumed \in [Coupons -> Nat]
  /\ benefits \in [Cards \X Users -> Nat] /\ DOMAIN origin = Users

SessionsOK ==
  /\ holder \in [Rows \cup Plans -> Sessions \cup {None}]
  /\ DOMAIN tx = Sessions /\ DOMAIN forms = Forms /\ now \in 0..MaxTime
  /\ \A f \in Forms : forms[f] # None =>
       /\ forms[f].row \in Rows /\ ColumnsOK(forms[f].row, forms[f].shown)

\* An operation that writes without a lock.
Editing(t) ==
  t.op = "edit" /\ t.row \in Rows /\ ColumnsOK(t.row, t.columns) /\ ColumnsOK(t.row, t.basis)

\* An operation under row locks, its columns and the rows it has to lock.
Locking(t) ==
  /\ t.op \in Lockers /\ t.user \in Users /\ DOMAIN t.seen = Rows
  /\ t.wants \in Seq(Rows \cup Plans)
  /\ \/ /\ t.op = "redeem" /\ t.card \in Cards
        /\ DOMAIN t = {"op", "user", "card", "seen", "wants"}
     \/ /\ t.op = "deposit" /\ t.amount \in Nat
        /\ DOMAIN t = {"op", "user", "amount", "seen", "wants"}
     \/ /\ t.op = "purchase" /\ t.buy \in Purchases
        /\ DOMAIN t = {"op", "user", "buy", "seen", "wants"}

Needs(t) ==
  {t.user} \cup
    CASE t.op = "redeem" ->
           {t.card} \cup (IF CardInfo[t.card].type = "plan" THEN {CardInfo[t.card].plan} ELSE {})
      [] t.op = "purchase" -> {t.buy.plan} \cup ({t.buy.coupon} \ {None})
      [] OTHER -> {}

Listed(t, r) == \E i \in 1..Len(t.wants) : t.wants[i] = r

TxOK(s) ==
  LET t == tx[s] IN
  /\ t # Idle => Editing(t) \/ Locking(t)
  /\ \A r \in Rows \cup Plans : holder[r] = s =>
       /\ Locking(t)
       /\ r \in Rows => Exists(r) /\ t.seen[r] = rows[r]
  /\ Locking(t) =>
       /\ \A r \in Needs(t) : holder[r] = s \/ Listed(t, r)
       /\ t.op = "purchase" /\ holder[t.user] # s =>
            t.wants # <<>> /\ Head(t.wants) = t.user

WInv == RowsOK /\ SessionsOK /\ \A s \in Sessions : TxOK(s)

\* A row stays a row when some of its columns are written.
LEMMA WrittenType ==
  ASSUME NEW r, NEW row, NEW columns, RowOK(r, row), ColumnsOK(r, columns)
  PROVE  RowOK(r, Written(row, columns))
<1> QED BY DEF RowOK, ColumnsOK, Written

\* The columns of a user row and of a card are what they are called.
LEMMA RowColumns ==
  ASSUME NEW r \in Rows, NEW row, RowOK(r, row)
  PROVE  /\ r \in Users => /\ row.balance \in Int /\ row.commission \in Int
                           /\ row.plan \in Plans \cup {None} /\ row.expired \in Int
                           /\ DOMAIN row = {"balance", "commission", "plan", "expired"}
         /\ r \in Cards => /\ row.left \in Int /\ row.names \in SUBSET Users
                           /\ DOMAIN row = {"left", "names"}
         /\ r \in Coupons => row.left \in Int /\ DOMAIN row = {"left"}
<1> QED BY WalletsAssumption DEF RowOK, ColumnsOK, Columns, Values, Rows

\* And what a row is, when its columns are right.
LEMMA RowType ==
  ASSUME NEW r \in Rows, NEW row,
         r \in Users => /\ row.balance \in Int /\ row.commission \in Int
                        /\ row.plan \in Plans \cup {None} /\ row.expired \in Int
                        /\ DOMAIN row = {"balance", "commission", "plan", "expired"},
         r \in Cards => /\ row.left \in Int /\ row.names \in SUBSET Users
                        /\ DOMAIN row = {"left", "names"},
         r \in Coupons => row.left \in Int /\ DOMAIN row = {"left"}
  PROVE  RowOK(r, row)
<1> QED BY WalletsAssumption DEF RowOK, ColumnsOK, Columns, Values, Rows

\* Reading the next row leaves the operation what it is.
LEMMA SeenType ==
  ASSUME NEW t, Locking(t), t.wants # <<>>, NEW r, r = Head(t.wants)
  PROVE  LET n == Seen(t, r) IN
         /\ Locking(n) /\ r \in Rows \cup Plans
         /\ n.op = t.op /\ n.user = t.user /\ Needs(n) = Needs(t)
         /\ t.op = "redeem" => n.card = t.card
         /\ t.op = "purchase" => n.buy = t.buy
         /\ \A x \in Rows : n.seen[x] = IF x = r THEN rows[r] ELSE t.seen[x]
         /\ \A x : Listed(t, x) => x = r \/ Listed(n, x)
<1> PICK n : n = Seen(t, r)
  OBVIOUS
<1>1. /\ n.op = t.op /\ n.user = t.user /\ DOMAIN n = DOMAIN t
      /\ n.wants = Tail(t.wants)
      /\ n.seen = [x \in Rows |-> IF x = r THEN rows[r] ELSE t.seen[x]]
      /\ t.op = "redeem" => n.card = t.card
      /\ t.op = "deposit" => n.amount = t.amount
      /\ t.op = "purchase" => n.buy = t.buy
  BY DEF Seen, Locking
<1>2. /\ r \in Rows \cup Plans /\ Tail(t.wants) \in Seq(Rows \cup Plans)
      /\ Len(Tail(t.wants)) = Len(t.wants) - 1
      /\ \A i \in 1 .. Len(Tail(t.wants)) : Tail(t.wants)[i] = t.wants[i+1]
      /\ Len(t.wants) \in Nat /\ r = t.wants[1]
  BY HeadTailProperties DEF Locking
<1>3. Locking(n)
  <2> QED BY <1>1, <1>2 DEF Locking
<1>4. Needs(n) = Needs(t)
  <2> QED BY <1>1 DEF Needs, Locking
<1>5. ASSUME NEW x, Listed(t, x), x # r PROVE Listed(n, x)
  <2>1. PICK i \in 1..Len(t.wants) : t.wants[i] = x
    BY <1>5 DEF Listed
  <2>2. i # 1
    BY <1>2, <1>5, <2>1
  <2>3. i - 1 \in 1..Len(Tail(t.wants)) /\ Tail(t.wants)[i - 1] = t.wants[(i - 1) + 1] /\ (i - 1) + 1 = i
    BY <1>2, <2>1, <2>2
  <2> QED BY <1>1, <2>1, <2>3 DEF Listed
<1> QED BY <1>1, <1>2, <1>3, <1>4, <1>5

\* An operation locks rows and plans.
LEMMA NeedsType ==
  ASSUME NEW t, Locking(t) PROVE Needs(t) \subseteq Rows \cup Plans
<1>1. t.op = "redeem" => /\ t.card \in Cards
                         /\ CardInfo[t.card].type = "plan" => CardInfo[t.card].plan \in Plans
  BY WalletsAssumption DEF Locking
<1>2. t.op = "purchase" => t.buy.plan \in Plans /\ t.buy.coupon \in Coupons \cup {None}
  BY WalletsAssumption DEF Locking
<1>3. t.user \in Users
  BY DEF Locking
<1> QED BY <1>1, <1>2, <1>3 DEF Needs, Rows

\* A step that leaves session x its operation, its locks and the rows it locked.
OtherKept(x) ==
  /\ tx'[x] = tx[x]
  /\ \A r \in Rows \cup Plans : (holder'[r] = x <=> holder[r] = x)
  /\ \A r \in Rows : holder[r] = x => rows'[r] = rows[r]

\* Such a step leaves that session's operation as right as it was.
LEMMA OthersKeep ==
  ASSUME NEW x \in Sessions, TxOK(x), OtherKept(x) PROVE TxOK(x)'
<1> PICK t : t = tx[x]
  OBVIOUS
<1>1. tx'[x] = t
  BY DEF OtherKept
<1>2. /\ t # Idle => Editing(t) \/ Locking(t)
      /\ \A r \in Rows \cup Plans : holder[r] = x =>
           /\ Locking(t)
           /\ r \in Rows => rows[r] # None /\ t.seen[r] = rows[r]
      /\ Locking(t) =>
           /\ \A r \in Needs(t) : holder[r] = x \/ Listed(t, r)
           /\ t.op = "purchase" /\ holder[t.user] # x =>
                t.wants # <<>> /\ Head(t.wants) = t.user
  BY DEF TxOK, Exists
<1>3. ASSUME NEW r \in Rows \cup Plans, holder'[r] = x
      PROVE  /\ Locking(t)
             /\ r \in Rows => rows'[r] # None /\ t.seen[r] = rows'[r]
  BY <1>2, <1>3 DEF OtherKept
<1>4. ASSUME Locking(t)
      PROVE  /\ \A r \in Needs(t) : holder'[r] = x \/ Listed(t, r)
             /\ t.op = "purchase" /\ holder'[t.user] # x =>
                  t.wants # <<>> /\ Head(t.wants) = t.user
  <2>1. t.user \in Rows /\ Needs(t) \subseteq Rows \cup Plans
    BY <1>4, NeedsType DEF Locking, Rows
  <2> QED BY <1>2, <1>4, <2>1 DEF OtherKept
<1> QED BY <1>1, <1>2, <1>3, <1>4 DEF TxOK, Exists

\* A session holds nothing once its operation is over.
LEMMA FinishKeeps ==
  ASSUME WInv, NEW s \in Sessions, Finish(s),
         \A r \in Rows : rows'[r] # rows[r] => holder[r] \in {s, None}
  PROVE  SessionsOK' /\ \A x \in Sessions : TxOK(x)'
<1>1. /\ tx' = [tx EXCEPT ![s] = Idle]
      /\ holder' = [r \in DOMAIN holder |-> IF holder[r] = s THEN None ELSE holder[r]]
      /\ UNCHANGED <<forms, now>> /\ SessionsOK /\ None \notin Sessions
  BY WalletsAssumption DEF Finish, WInv
<1>2. SessionsOK'
  BY <1>1 DEF SessionsOK
<1>3. ASSUME NEW x \in Sessions, x # s PROVE TxOK(x)'
  <2>1. OtherKept(x)
    BY <1>1, <1>3 DEF OtherKept, SessionsOK
  <2> QED BY <2>1, OthersKeep DEF WInv
<1>4. TxOK(s)'
  <2>1. tx'[s] = Idle /\ \A r \in Rows \cup Plans : holder'[r] # s
    BY <1>1 DEF SessionsOK
  <2> QED BY <2>1 DEF TxOK, Locking, Lockers, Idle
<1> QED BY <1>2, <1>3, <1>4

\* An operation begins without locks, with all it needs on its list.
LEMMA StartKeeps ==
  ASSUME WInv, NEW s \in Sessions, NEW op, tx[s] = Idle, tx' = [tx EXCEPT ![s] = op],
         UNCHANGED <<rows, redeemed, holder, now, history>>,
         DOMAIN forms' = Forms,
         \A f \in Forms : forms'[f] # None => forms'[f] = forms[f],
         op # Idle => \/ Editing(op)
                      \/ /\ Locking(op) /\ \A r \in Needs(op) : Listed(op, r)
                         /\ op.op = "purchase" => op.wants # <<>> /\ Head(op.wants) = op.user
  PROVE  WInv'
<1>1. RowsOK'
  BY DEF WInv, RowsOK, history, Exists
<1>2. SessionsOK /\ None \notin Sessions
  BY WalletsAssumption DEF WInv
<1>3. SessionsOK'
  BY <1>2 DEF SessionsOK
<1>4. ASSUME NEW x \in Sessions, x # s PROVE TxOK(x)'
  <2>1. OtherKept(x)
    BY <1>2, <1>4 DEF OtherKept, SessionsOK
  <2> QED BY <2>1, OthersKeep DEF WInv
<1>5. TxOK(s)'
  <2>1. \A r \in Rows \cup Plans : holder[r] # s
    BY DEF WInv, TxOK, Locking, Lockers, Idle
  <2>2. tx'[s] = op
    BY <1>2 DEF SessionsOK
  <2>3. Locking(op) => op # Idle /\ ~Editing(op)
    BY DEF Editing, Locking, Lockers, Idle
  <2> QED BY <2>1, <2>2, <2>3 DEF TxOK
<1> QED BY <1>1, <1>3, <1>4, <1>5 DEF WInv

\* Short lists of rows are sequences of them.
LEMMA ListType ==
  /\ \A a, b \in Rows \cup Plans : <<a, b>> \in Seq(Rows \cup Plans)
  /\ \A a, b, c \in Rows \cup Plans : <<a, b, c>> \in Seq(Rows \cup Plans)
<1> PICK S : S = Rows \cup Plans
  OBVIOUS
<1>1. ASSUME NEW a \in S, NEW b \in S PROVE <<a, b>> \in Seq(S)
  OBVIOUS
<1>2. ASSUME NEW a \in S, NEW b \in S, NEW c \in S PROVE <<a, b, c>> \in Seq(S)
  OBVIOUS
<1> QED BY <1>1, <1>2

\* Redemptions, deposits and purchases begin.
LEMMA LockersStart ==
  ASSUME WInv, NEW s \in Sessions, NEW u \in Users,
         \/ \E c \in Cards : Redeem(s, u, c)
         \/ \E a \in Deposits : OpenDeposit(s, u, a)
         \/ \E b \in Purchases : OpenPurchase(s, u, b)
  PROVE  WInv'
<1>1. ASSUME NEW op, Start(s, op), Locking(op), \A r \in Needs(op) : Listed(op, r),
             op.op = "purchase" => op.wants # <<>> /\ Head(op.wants) = op.user
      PROVE  WInv'
  BY <1>1, StartKeeps DEF Start, WInv, SessionsOK
<1>2. u \in Rows /\ Unseen = [r \in Rows |-> None]
  BY DEF Rows, Unseen
<1>3. ASSUME NEW c \in Cards, Redeem(s, u, c) PROVE WInv'
  <2>1. PICK op, wants : /\ Start(s, op)
                  /\ op = [op |-> "redeem", user |-> u, card |-> c, seen |-> Unseen, wants |-> wants]
                  /\ wants = IF CardInfo[c].type = "plan" THEN <<c, u, CardInfo[c].plan>>
                                                          ELSE <<c, u>>
    BY <1>3 DEF Redeem
  <2>2. wants \in Seq(Rows \cup Plans)
    <3>1. c \in Rows /\ (CardInfo[c].type = "plan" => CardInfo[c].plan \in Plans)
      BY WalletsAssumption DEF Rows
    <3> QED BY <1>2, <2>1, <3>1, ListType
  <2>3. op.op = "redeem" /\ op.user = u /\ op.card = c /\ op.seen = Unseen /\ op.wants = wants
        /\ DOMAIN op = {"op", "user", "card", "seen", "wants"}
    BY <2>1
  <2>4. Locking(op)
    BY <1>2, <2>2, <2>3 DEF Locking, Lockers
  <2>5. CASE CardInfo[c].type = "plan"
    <3>1. /\ Len(wants) = 3 /\ wants[1] = c /\ wants[2] = u /\ wants[3] = CardInfo[c].plan
          /\ Needs(op) = {u, c, CardInfo[c].plan}
      BY <2>1, <2>3, <2>5 DEF Needs
    <3>2. \A r \in Needs(op) : Listed(op, r)
      BY <2>3, <3>1 DEF Listed
    <3> QED BY <1>1, <2>1, <2>3, <2>4, <3>2
  <2>6. CASE CardInfo[c].type # "plan"
    <3>1. /\ Len(wants) = 2 /\ wants[1] = c /\ wants[2] = u
          /\ Needs(op) = {u, c}
      BY <2>1, <2>3, <2>6 DEF Needs
    <3>2. \A r \in Needs(op) : Listed(op, r)
      BY <2>3, <3>1 DEF Listed
    <3> QED BY <1>1, <2>1, <2>3, <2>4, <3>2
  <2> QED BY <2>5, <2>6
<1>4. ASSUME NEW a \in Deposits, OpenDeposit(s, u, a) PROVE WInv'
  <2>1. PICK op : /\ Start(s, op)
                  /\ op = [op |-> "deposit", user |-> u, amount |-> a, seen |-> Unseen,
                           wants |-> <<u>>]
    BY <1>4 DEF OpenDeposit
  <2>2. op.op = "deposit" /\ op.user = u /\ op.amount = a /\ op.seen = Unseen /\ op.wants = <<u>>
        /\ DOMAIN op = {"op", "user", "amount", "seen", "wants"}
    BY <2>1
  <2>3. <<u>> \in Seq(Rows \cup Plans) /\ a \in Nat
    BY <1>2, WalletsAssumption
  <2>4. Locking(op)
    BY <1>2, <2>2, <2>3 DEF Locking, Lockers
  <2>5. Needs(op) = {u} /\ Len(op.wants) = 1 /\ op.wants[1] = u
    BY <2>2 DEF Needs
  <2>6. \A r \in Needs(op) : Listed(op, r)
    BY <2>5 DEF Listed
  <2> QED BY <1>1, <2>1, <2>2, <2>4, <2>6
<1>5. ASSUME NEW b \in Purchases, OpenPurchase(s, u, b) PROVE WInv'
  <2>1. PICK op, wants : /\ Start(s, op)
                  /\ op = [op |-> "purchase", user |-> u, buy |-> b, seen |-> Unseen,
                           wants |-> wants]
                  /\ wants = IF b.coupon = None THEN <<u, b.plan>> ELSE <<u, b.plan, b.coupon>>
    BY <1>5 DEF OpenPurchase
  <2>2. b.plan \in Plans /\ b.coupon \in Coupons \cup {None}
    BY WalletsAssumption
  <2>3. wants \in Seq(Rows \cup Plans)
    <3>1. b.coupon # None => b.coupon \in Rows
      BY <2>2 DEF Rows
    <3> QED BY <1>2, <2>1, <2>2, <3>1, ListType
  <2>4. op.op = "purchase" /\ op.user = u /\ op.buy = b /\ op.seen = Unseen /\ op.wants = wants
        /\ DOMAIN op = {"op", "user", "buy", "seen", "wants"}
    BY <2>1
  <2>5. Locking(op)
    BY <1>2, <2>3, <2>4 DEF Locking, Lockers
  <2>6. wants # <<>> /\ Head(wants) = u
    BY <2>1
  <2>7. CASE b.coupon = None
    <3>1. /\ Len(wants) = 2 /\ wants[1] = u /\ wants[2] = b.plan
          /\ Needs(op) = {u, b.plan}
      BY <2>1, <2>4, <2>7 DEF Needs
    <3>2. \A r \in Needs(op) : Listed(op, r)
      BY <2>4, <3>1 DEF Listed
    <3> QED BY <1>1, <2>1, <2>4, <2>5, <2>6, <3>2
  <2>8. CASE b.coupon # None
    <3>1. /\ Len(wants) = 3 /\ wants[1] = u /\ wants[2] = b.plan /\ wants[3] = b.coupon
          /\ Needs(op) = {u, b.plan, b.coupon}
      BY <2>1, <2>4, <2>8 DEF Needs
    <3>2. \A r \in Needs(op) : Listed(op, r)
      BY <2>4, <3>1 DEF Listed
    <3> QED BY <1>1, <2>1, <2>4, <2>5, <2>6, <3>2
  <2> QED BY <2>7, <2>8
<1> QED BY <1>3, <1>4, <1>5

\* Transfers, credits and forms begin with values that fit the columns.
LEMMA EditsStart ==
  ASSUME WInv, NEW s \in Sessions,
         \/ \E u \in Users, a \in Amounts : TransferCommission(s, u, a) \/ CreditCommission(s, u, a)
         \/ \E f \in Forms, e \in Edits : SubmitForm(s, f, e)
  PROVE  WInv'
<1>1. ASSUME NEW op, NEW r \in Rows, NEW columns, NEW basis, Start(s, op),
             op = [op |-> "edit", row |-> r, columns |-> columns, basis |-> basis],
             ColumnsOK(r, columns), ColumnsOK(r, basis)
      PROVE  WInv'
  <2>1. Editing(op)
    BY <1>1 DEF Editing
  <2> QED BY <1>1, <2>1, StartKeeps DEF Start, WInv, SessionsOK
<1>2. ASSUME NEW u \in Users, NEW a \in Amounts,
             TransferCommission(s, u, a) \/ CreditCommission(s, u, a)
      PROVE  WInv'
  <2>1. PICK row : row = rows[u]
    OBVIOUS
  <2>2. u \in Rows /\ RowOK(u, row) /\ a \in Nat
    BY <1>2, <2>1, WalletsAssumption
       DEF WInv, RowsOK, Rows, TransferCommission, CreditCommission
  <2>3. row.balance + a \in Int /\ row.commission - a \in Int /\ row.commission + a \in Int
    BY <2>2, RowColumns
  <2>4. /\ ColumnsOK(u, row)
        /\ ColumnsOK(u, [commission |-> row.commission + a])
        /\ ColumnsOK(u, [commission |-> row.commission - a, balance |-> row.balance + a])
    BY <2>2, <2>3 DEF RowOK, ColumnsOK, Columns, Values
  <2> QED BY <1>1, <1>2, <2>1, <2>2, <2>4 DEF TransferCommission, CreditCommission, Edit
<1>3. ASSUME NEW f \in Forms, NEW e \in Edits, SubmitForm(s, f, e) PROVE WInv'
  <2> DEFINE r == forms[f].row
             shown == forms[f].shown
             typed == IF e[1] \in DOMAIN shown THEN [shown EXCEPT ![e[1]] = e[2]] ELSE shown
             op == IF Exists(r)
                   THEN [op |-> "edit", row |-> r, basis |-> shown,
                         columns |-> [x \in Changed(rows[r], typed) |-> typed[x]]]
                   ELSE Idle
  <2>3. /\ tx[s] = Idle /\ tx' = [tx EXCEPT ![s] = op]
        /\ forms' = [forms EXCEPT ![f] = None] /\ forms[f] # None
        /\ UNCHANGED <<rows, redeemed, holder, now, history>>
    BY <1>3 DEF SubmitForm
  <2>4. r \in Rows /\ ColumnsOK(r, shown) /\ DOMAIN forms = Forms
    BY <2>3 DEF WInv, SessionsOK
  <2>5. ColumnsOK(r, typed)
    BY <2>4, WalletsAssumption DEF ColumnsOK
  <2>6. ColumnsOK(r, [x \in Changed(rows[r], typed) |-> typed[x]])
    BY <2>5 DEF ColumnsOK, Changed
  <2>7. op # Idle => Editing(op)
    BY <2>4, <2>6 DEF Editing
  <2>8. DOMAIN forms' = Forms /\ \A g \in Forms : forms'[g] # None => forms'[g] = forms[g]
    BY <2>3, <2>4
  <2> HIDE DEF op
  <2> QED BY <2>3, <2>7, <2>8, StartKeeps
<1> QED BY <1>2, <1>3

\* The next row is locked: it was free, and it is read as it is.
LEMMA LockKeeps ==
  ASSUME WInv, NEW s \in Sessions, LockNext(s) PROVE WInv'
<1> PICK t, r, n : t = tx[s] /\ r = Head(t.wants) /\ n = Seen(t, r)
  OBVIOUS
<1>1. /\ t.op \in Lockers /\ t.wants # <<>> /\ holder[r] = None /\ Passes(t, r)
      /\ tx' = [tx EXCEPT ![s] = n] /\ holder' = [holder EXCEPT ![r] = s]
      /\ UNCHANGED <<rows, redeemed, forms, now, due, consumed, benefits, origin>>
  BY DEF LockNext, history, Free
<1>2. SessionsOK /\ None \notin Sessions /\ RowsOK /\ TxOK(s)
  BY WalletsAssumption DEF WInv
<1>3. Locking(t)
  BY <1>1, <1>2 DEF TxOK, Editing, Lockers, Idle
<1>4. /\ Locking(n) /\ r \in Rows \cup Plans /\ n.op = t.op /\ n.user = t.user
      /\ Needs(n) = Needs(t)
      /\ \A x \in Rows : n.seen[x] = IF x = r THEN rows[r] ELSE t.seen[x]
      /\ \A x : Listed(t, x) => x = r \/ Listed(n, x)
  BY <1>1, <1>3, SeenType
<1>5. RowsOK'
  BY <1>1, <1>2 DEF RowsOK, Exists
<1>6. SessionsOK'
  BY <1>1, <1>2, <1>4 DEF SessionsOK
<1>7. ASSUME NEW x \in Sessions, x # s PROVE TxOK(x)'
  <2>1. OtherKept(x)
    BY <1>1, <1>2, <1>4, <1>7 DEF OtherKept, SessionsOK
  <2> QED BY <2>1, OthersKeep DEF WInv
<1>8. TxOK(s)'
  <2>1. /\ tx'[s] = n /\ holder'[r] = s
        /\ \A x \in Rows \cup Plans : holder'[x] = s => x = r \/ holder[x] = s
        /\ \A x \in Rows \cup Plans : holder[x] = s => holder'[x] = s
    BY <1>1, <1>2, <1>4 DEF SessionsOK
  <2>2. /\ \A x \in Rows \cup Plans : holder[x] = s /\ x \in Rows => Exists(x) /\ t.seen[x] = rows[x]
        /\ \A x \in Needs(t) : holder[x] = s \/ Listed(t, x)
        /\ t.op = "purchase" /\ holder[t.user] # s => r = t.user
    BY <1>1, <1>2, <1>3 DEF TxOK
  <2>3. ASSUME NEW x \in Rows \cup Plans, holder'[x] = s
        PROVE  x \in Rows => rows'[x] # None /\ n.seen[x] = rows'[x]
    <3>1. r \in Rows => Exists(r)
      BY <1>1 DEF Passes
    <3> QED BY <1>1, <1>4, <2>1, <2>2, <2>3, <3>1 DEF Exists
  <2>4. \A x \in Needs(n) : holder'[x] = s \/ Listed(n, x)
    BY <1>3, <1>4, <2>1, <2>2, NeedsType
  <2>5. n.op = "purchase" => holder'[n.user] = s
    BY <1>3, <1>4, <2>1, <2>2 DEF Locking, Rows
  <2> QED BY <1>4, <2>1, <2>3, <2>4, <2>5 DEF TxOK, Exists
<1> QED BY <1>5, <1>6, <1>7, <1>8 DEF WInv

\* What a session that has locked all it needs has read.
LEMMA AllLocked ==
  ASSUME WInv, NEW s \in Sessions, tx[s].op \in Lockers, tx[s].wants = <<>>
  PROVE  /\ Locking(tx[s])
         /\ \A r \in Needs(tx[s]) :
              /\ r \in Rows \cup Plans /\ holder[r] = s
              /\ r \in Rows => Exists(r) /\ tx[s].seen[r] = rows[r] /\ RowOK(r, rows[r])
<1> PICK t : t = tx[s]
  OBVIOUS
<1>1. TxOK(s) /\ RowsOK
  BY DEF WInv
<1>2. Locking(t)
  BY <1>1 DEF TxOK, Editing, Lockers, Idle
<1>3. ASSUME NEW r \in Needs(t) PROVE r \in Rows \cup Plans /\ holder[r] = s
  <2>1. ~Listed(t, r)
    BY DEF Listed
  <2> QED BY <1>1, <1>2, <1>3, <2>1, NeedsType DEF TxOK
<1> QED BY <1>1, <1>2, <1>3 DEF TxOK, RowsOK

\* A redemption writes the user's row and the card, and nothing else.
LEMMA RedeemWrites ==
  ASSUME WInv, NEW s \in Sessions, RedeemCommit(s)
  PROVE  LET t == tx[s]  c == t.card  u == t.user IN
         /\ u \in Users /\ c \in Cards /\ u # c /\ holder[u] = s /\ holder[c] = s
         /\ Exists(u) /\ Exists(c) /\ t.seen[u] = rows[u] /\ t.seen[c] = rows[c]
         /\ RowOK(u, rows[u]) /\ RowOK(c, rows[c])
         /\ rows' = [rows EXCEPT ![u] = Benefit(t),
                                 ![c] = [left |-> rows[c].left - 1,
                                         names |-> rows[c].names \cup {u}]]
         /\ RowOK(u, Benefit(t)) /\ RowOK(c, rows'[c])
         /\ <<c, u>> \notin redeemed
<1> PICK t, c, u : t = tx[s] /\ c = t.card /\ u = t.user
  OBVIOUS
<1>1. /\ t.op = "redeem" /\ t.wants = <<>> /\ ~Redeemed(c, u)
      /\ rows' = [rows EXCEPT ![u] = Benefit(t),
                              ![c] = [left |-> t.seen[c].left - 1,
                                      names |-> t.seen[c].names \cup {u}]]
  BY DEF RedeemCommit
<1>2. /\ Locking(t) /\ u \in Needs(t) /\ c \in Needs(t)
      /\ \A r \in Needs(t) :
           /\ holder[r] = s
           /\ r \in Rows => Exists(r) /\ t.seen[r] = rows[r] /\ RowOK(r, rows[r])
  BY <1>1, AllLocked DEF Lockers, Needs
<1>3. u \in Users /\ c \in Cards /\ u \in Rows /\ c \in Rows /\ u # c
  BY <1>1, <1>2, WalletsAssumption DEF Locking, Rows
<1>6. /\ Exists(u) /\ Exists(c) /\ t.seen[u] = rows[u] /\ t.seen[c] = rows[c]
      /\ RowOK(u, rows[u]) /\ RowOK(c, rows[c]) /\ u \notin Cards /\ c \notin Users
      /\ c \notin Coupons /\ u \notin Coupons /\ DOMAIN rows = Rows
      /\ holder[u] = s /\ holder[c] = s
  <2>1. /\ holder[u] = s /\ Exists(u) /\ t.seen[u] = rows[u] /\ RowOK(u, rows[u])
    BY <1>2, <1>3
  <2>2. /\ holder[c] = s /\ Exists(c) /\ t.seen[c] = rows[c] /\ RowOK(c, rows[c])
    BY <1>2, <1>3
  <2>3. u \notin Cards /\ c \notin Users /\ c \notin Coupons /\ u \notin Coupons
    BY <1>3, WalletsAssumption
  <2> QED BY <2>1, <2>2, <2>3 DEF WInv, RowsOK
<1>4. RowOK(u, Benefit(t))
  <2> PICK row, info : row = t.seen[u] /\ info = CardInfo[c]
    OBVIOUS
  <2>1. /\ row.balance \in Int /\ row.commission \in Int /\ row.plan \in Plans \cup {None}
        /\ row.expired \in Int
        /\ DOMAIN row = {"balance", "commission", "plan", "expired"}
    BY <1>3, <1>6, RowColumns
  <2>2. /\ info.type \in {"balance", "days", "plan"} /\ info.value \in Nat
        /\ info.type = "plan" => info.plan \in Plans
        /\ now \in Nat /\ Never \in Nat
    BY <1>3, WalletsAssumption DEF WInv, SessionsOK
  <2>3. PICK new : new = Benefit(t)
    OBVIOUS
  <2>4. /\ new.balance \in Int /\ new.commission \in Int /\ new.plan \in Plans \cup {None}
        /\ new.expired \in Int
        /\ DOMAIN new = {"balance", "commission", "plan", "expired"}
    <3>1. CASE info.type = "balance"
      <4>1. new = [row EXCEPT !.balance = @ + info.value]
        BY <2>3, <3>1 DEF Benefit
      <4> QED BY <2>1, <2>2, <4>1
    <3>2. CASE info.type = "days"
      <4>1. new = [row EXCEPT !.expired = Later(@, now) + info.value]
        BY <2>3, <3>2 DEF Benefit
      <4> QED BY <2>1, <2>2, <4>1 DEF Later
    <3>3. CASE info.type = "plan"
      <4>1. new = [row EXCEPT !.plan = info.plan,
                              !.expired = IF info.value = 0 THEN Never ELSE now + info.value]
        BY <2>3, <3>3 DEF Benefit
      <4> QED BY <2>1, <2>2, <3>3, <4>1
    <3> QED BY <2>2, <3>1, <3>2, <3>3
  <2> QED BY <1>3, <1>6, <2>3, <2>4, RowType
<1>5. RowOK(c, rows'[c])
  <2>1. rows[c].left \in Int /\ rows[c].names \in SUBSET Users
    BY <1>3, <1>6, RowColumns
  <2>2. rows'[c] = [left |-> rows[c].left - 1, names |-> rows[c].names \cup {u}]
    BY <1>1, <1>3, <1>6
  <2>3. /\ rows'[c].left \in Int /\ rows'[c].names \in SUBSET Users
        /\ DOMAIN rows'[c] = {"left", "names"}
    BY <1>3, <2>1, <2>2
  <2> QED BY <1>3, <1>6, <2>3, RowType
<1>7. rows' = [rows EXCEPT ![u] = Benefit(t),
                           ![c] = [left |-> rows[c].left - 1,
                                   names |-> rows[c].names \cup {u}]]
  BY <1>1, <1>6
<1>8. <<c, u>> \notin redeemed
  BY <1>1 DEF Redeemed
<1> QED BY <1>3, <1>4, <1>5, <1>6, <1>7, <1>8

\* An opened deposit writes the user's row, an opened purchase that and the
\* coupon's.
LEMMA OpenWrites ==
  ASSUME WInv, NEW s \in Sessions, OpenCommit(s)
  PROVE  LET t == tx[s]  u == t.user  user == rows[u]  k == t.buy.coupon IN
         /\ Locking(t) /\ u \in Users /\ holder[u] = s /\ Exists(u) /\ RowOK(u, user)
         /\ \/ /\ t.op = "deposit" /\ t.amount \in Nat
               /\ rows' = [rows EXCEPT ![u] = [user EXCEPT !.balance = @ + t.amount]]
               /\ UNCHANGED <<consumed, origin>>
               /\ due' = [due EXCEPT ![u] = @ + t.amount]
            \/ /\ t.op = "purchase" /\ t.buy \in Purchases /\ holder[t.buy.plan] = s
               /\ k # None => /\ k \in Coupons /\ holder[k] = s /\ Exists(k)
                              /\ RowOK(k, rows[k])
               /\ rows' = [r \in Rows |->
                    CASE r = u -> [user EXCEPT !.balance = @ - t.buy.price,
                                               !.plan = t.buy.plan,
                                               !.expired = Later(user.expired, now) + t.buy.ticks]
                      [] r = k -> [left |-> rows[k].left - 1]
                      [] OTHER -> rows[r]]
               /\ due' = [due EXCEPT ![u] = @ - t.buy.price]
               /\ consumed' = [x \in Coupons |-> consumed[x] + IF x = k THEN 1 ELSE 0]
               /\ origin' = [origin EXCEPT ![u] =
                    IF user.plan = t.buy.plan /\ Active(user, now) THEN @ ELSE "order"]
<1> DEFINE t == tx[s]
           u == t.user
           user == t.seen[u]
           k == t.buy.coupon
<1>1. /\ t.op \in {"deposit", "purchase"} /\ t.wants = <<>>
      /\ IF t.op = "deposit"
         THEN /\ rows' = [rows EXCEPT ![u] = [user EXCEPT !.balance = @ + t.amount]]
              /\ due' = [due EXCEPT ![u] = @ + t.amount]
              /\ UNCHANGED <<consumed, origin>>
         ELSE /\ rows' = [r \in Rows |->
                    CASE r = u -> [user EXCEPT !.balance = @ - t.buy.price,
                                               !.plan = t.buy.plan,
                                               !.expired = Later(user.expired, now) + t.buy.ticks]
                      [] r = k -> [left |-> t.seen[k].left - 1]
                      [] OTHER -> rows[r]]
              /\ due' = [due EXCEPT ![u] = @ - t.buy.price]
              /\ consumed' = [x \in Coupons |-> consumed[x] + IF x = k THEN 1 ELSE 0]
              /\ origin' = [origin EXCEPT ![u] =
                   IF user.plan = t.buy.plan /\ Active(user, now) THEN @ ELSE "order"]
  BY DEF OpenCommit
<1>2. Locking(t) /\ u \in Users /\ u \in Rows
  BY <1>1, AllLocked DEF Lockers, Locking, Rows
<1>3. ASSUME NEW r \in Rows, r \in Needs(t)
      PROVE  holder[r] = s /\ Exists(r) /\ t.seen[r] = rows[r] /\ RowOK(r, rows[r])
  BY <1>1, <1>3, AllLocked DEF Lockers
<1>4. holder[u] = s /\ Exists(u) /\ t.seen[u] = rows[u] /\ RowOK(u, rows[u])
  <2>1. u \in Needs(t)
    BY DEF Needs
  <2> QED BY <1>2, <1>3, <2>1
<1>5. CASE t.op = "deposit"
  <2>1. t.amount \in Nat
    BY <1>2, <1>5 DEF Locking
  <2> QED BY <1>1, <1>2, <1>4, <1>5, <2>1
<1>6. CASE t.op = "purchase"
  <2>1. t.buy \in Purchases /\ t.buy.coupon \in Coupons \cup {None}
    BY <1>2, <1>6, WalletsAssumption DEF Locking
  <2>2. t.buy.plan \in Needs(t) /\ (k # None => k \in Needs(t))
    BY <1>6 DEF Needs
  <2>3. holder[t.buy.plan] = s
    BY <1>1, <2>2, AllLocked DEF Lockers
  <2>4. k # None => /\ k \in Coupons /\ holder[k] = s /\ Exists(k) /\ t.seen[k] = rows[k]
                    /\ RowOK(k, rows[k])
    BY <1>3, <2>1, <2>2 DEF Rows
  <2>5. rows' = [r \in Rows |->
                   CASE r = u -> [rows[u] EXCEPT !.balance = @ - t.buy.price,
                                              !.plan = t.buy.plan,
                                              !.expired = Later(rows[u].expired, now) + t.buy.ticks]
                     [] r = k -> [left |-> rows[k].left - 1]
                     [] OTHER -> rows[r]]
    <3>1. k = None => k \notin Rows
      BY WalletsAssumption
    <3>2. ~(t.op = "deposit")
      BY <1>6
    <3>3. user = rows[u]
      BY <1>4
    <3>4. ASSUME NEW r \in Rows PROVE r = k => t.seen[k].left = rows[k].left
      BY <2>4, <3>1
    <3> HIDE DEF t, u, user, k
    <3> QED BY <1>1, <3>2, <3>3, <3>4
  <2> QED BY <1>1, <1>2, <1>4, <1>6, <2>1, <2>3, <2>4, <2>5
<1> QED BY <1>1, <1>5, <1>6

\* An edit writes the changed columns of one row, whatever they were.
LEMMA EditWrites ==
  ASSUME WInv, NEW s \in Sessions, EditCommit(s)
  PROVE  LET t == tx[s]  r == t.row IN
         /\ r \in Rows /\ holder[r] = None /\ Exists(r) /\ RowOK(r, rows[r])
         /\ ColumnsOK(r, t.columns) /\ ColumnsOK(r, t.basis)
         /\ rows' = [rows EXCEPT ![r] = Written(rows[r], t.columns)]
         /\ RowOK(r, Written(rows[r], t.columns))
<1> PICK t, r : t = tx[s] /\ r = t.row
  OBVIOUS
<1>1. /\ t.op = "edit" /\ holder[r] = None /\ Exists(r)
      /\ rows' = [rows EXCEPT ![r] = Written(rows[r], t.columns)]
  BY DEF EditCommit, Free
<1>2. Editing(t)
  BY <1>1 DEF WInv, TxOK, Locking, Lockers, Idle
<1>3. r \in Rows /\ RowOK(r, rows[r]) /\ ColumnsOK(r, t.columns) /\ ColumnsOK(r, t.basis)
  BY <1>1, <1>2 DEF Editing, WInv, RowsOK
<1> QED BY <1>1, <1>3, WrittenType

\* Balances, commissions and limits are whole numbers.
LEMMA MoneyType ==
  ASSUME NEW r \in Rows, NEW row, RowOK(r, row) PROVE Money(r, row) \in Int
<1>1. r \in Users \/ r \in Cards \/ r \in Coupons
  BY DEF Rows
<1> QED BY <1>1, RowColumns, WalletsAssumption DEF Money

\* Redemptions, openings and edits leave rows behind, and free their locks.
LEMMA CommitsKeep ==
  ASSUME WInv, NEW s \in Sessions, RedeemCommit(s) \/ OpenCommit(s) \/ EditCommit(s)
  PROVE  WInv'
<1>1. RowsOK /\ Finish(s)
  BY DEF WInv, RedeemCommit, OpenCommit, EditCommit
<1>2. ASSUME RedeemCommit(s)
      PROVE RowsOK' /\ \A x \in Rows : rows'[x] # rows[x] => holder[x] \in {s, None}
  <2>1. PICK t, c, u : t = tx[s] /\ c = t.card /\ u = t.user
    OBVIOUS
  <2>2. /\ u \in Users /\ c \in Cards /\ u # c /\ holder[u] = s /\ holder[c] = s
        /\ rows' = [rows EXCEPT ![u] = Benefit(t),
                                ![c] = [left |-> rows[c].left - 1,
                                        names |-> rows[c].names \cup {u}]]
        /\ RowOK(u, Benefit(t)) /\ RowOK(c, rows'[c])
    BY <1>2, <2>1, RedeemWrites
  <2>3. PICK new, card : rows' = [rows EXCEPT ![u] = new, ![c] = card] /\ RowOK(u, new)
    BY <2>2
  <2>4. u \in Rows /\ c \in Rows /\ rows'[u] = new /\ DOMAIN rows' = Rows
        /\ \A x \in Rows : x # u /\ x # c => rows'[x] = rows[x]
    BY <1>1, <2>2, <2>3 DEF Rows, RowsOK
  <2>5. \A x \in Rows : Exists(x)' => RowOK(x, rows'[x])
    BY <1>1, <2>2, <2>3, <2>4 DEF RowsOK, Exists
  <2>6. /\ redeemed' = redeemed \cup {<<c, u>>} /\ UNCHANGED consumed
        /\ due' = [due EXCEPT ![u] = @ + IF CardInfo[c].type = "balance" THEN CardInfo[c].value ELSE 0]
        /\ benefits' = [benefits EXCEPT ![<<c, u>>] = @ + 1]
        /\ DOMAIN origin' = DOMAIN origin
    BY <1>2, <2>1 DEF RedeemCommit
  <2>7. due' \in [Rows -> Int]
    BY <1>1, <2>2, <2>4, <2>6, WalletsAssumption DEF RowsOK
  <2>8. benefits' \in [Cards \X Users -> Nat]
    BY <1>1, <2>2, <2>6 DEF RowsOK
  <2> QED BY <1>1, <2>2, <2>4, <2>5, <2>6, <2>7, <2>8 DEF RowsOK
<1>3. ASSUME OpenCommit(s)
      PROVE RowsOK' /\ \A x \in Rows : rows'[x] # rows[x] => holder[x] \in {s, None}
  <2> DEFINE t == tx[s]
             u == t.user
             user == rows[u]
             k == t.buy.coupon
  <2>2. u \in Users /\ u \in Rows /\ holder[u] = s /\ Exists(u) /\ RowOK(u, user)
        /\ u \notin Cards /\ u \notin Coupons
    BY <1>3, OpenWrites, WalletsAssumption DEF Rows
  <2>3. /\ user.balance \in Int /\ user.commission \in Int /\ user.plan \in Plans \cup {None}
        /\ user.expired \in Int /\ DOMAIN user = {"balance", "commission", "plan", "expired"}
    BY <2>2, RowColumns
  <2>4. UNCHANGED <<redeemed, benefits>> /\ now \in Int
    BY <1>3, WalletsAssumption DEF OpenCommit, WInv, SessionsOK
  <2>5. CASE t.op = "deposit"
    <3>1. /\ t.amount \in Nat /\ UNCHANGED <<consumed, origin>>
          /\ rows' = [rows EXCEPT ![u] = [user EXCEPT !.balance = @ + t.amount]]
          /\ due' = [due EXCEPT ![u] = @ + t.amount]
      BY <1>3, <2>5, OpenWrites
    <3>2. PICK new : new = [user EXCEPT !.balance = @ + t.amount]
      OBVIOUS
    <3>3. /\ new.balance \in Int /\ new.commission \in Int /\ new.plan \in Plans \cup {None}
          /\ new.expired \in Int /\ DOMAIN new = {"balance", "commission", "plan", "expired"}
      BY <2>3, <3>1, <3>2
    <3>4. RowOK(u, new)
      BY <2>2, <3>3, RowType
    <3>5. rows' = [rows EXCEPT ![u] = new]
      BY <3>1, <3>2
    <3>6. due' \in [Rows -> Int]
      BY <1>1, <2>2, <3>1 DEF RowsOK
    <3> QED BY <1>1, <2>2, <2>4, <3>1, <3>4, <3>5, <3>6 DEF RowsOK, Exists
  <2>6. CASE t.op = "purchase"
    <3>1. /\ t.buy \in Purchases
          /\ k # None => k \in Coupons /\ holder[k] = s /\ Exists(k) /\ RowOK(k, rows[k])
          /\ rows' = [r \in Rows |->
               CASE r = u -> [user EXCEPT !.balance = @ - t.buy.price,
                                          !.plan = t.buy.plan,
                                          !.expired = Later(user.expired, now) + t.buy.ticks]
                 [] r = k -> [left |-> rows[k].left - 1]
                 [] OTHER -> rows[r]]
          /\ due' = [due EXCEPT ![u] = @ - t.buy.price]
          /\ consumed' = [x \in Coupons |-> consumed[x] + IF x = k THEN 1 ELSE 0]
          /\ origin' = [origin EXCEPT ![u] =
               IF user.plan = t.buy.plan /\ Active(user, now) THEN @ ELSE "order"]
      BY <1>3, <2>6, OpenWrites
    <3>2. t.buy.price \in Nat /\ t.buy.plan \in Plans /\ t.buy.ticks \in Nat
      BY <3>1, WalletsAssumption
    <3>3. PICK new, used : /\ new = [user EXCEPT !.balance = @ - t.buy.price,
                                              !.plan = t.buy.plan,
                                              !.expired = Later(user.expired, now) + t.buy.ticks]
                           /\ used = [left |-> rows[k].left - 1]
      OBVIOUS
    <3>4. /\ new.balance \in Int /\ new.commission \in Int /\ new.plan \in Plans \cup {None}
          /\ new.expired \in Int /\ DOMAIN new = {"balance", "commission", "plan", "expired"}
      BY <2>3, <2>4, <3>2, <3>3 DEF Later
    <3>5. RowOK(u, new)
      BY <2>2, <3>4, RowType
    <3>6. k # None => k \in Rows /\ RowOK(k, used)
      <4>1. SUFFICES ASSUME k # None PROVE k \in Rows /\ RowOK(k, used)
        OBVIOUS
      <4>2. k \in Coupons /\ k \in Rows /\ k \notin Users /\ k \notin Cards
        BY <3>1, <4>1, WalletsAssumption DEF Rows
      <4>3. rows[k].left \in Int
        BY <3>1, <4>1, <4>2, RowColumns
      <4>4. used.left \in Int /\ DOMAIN used = {"left"}
        BY <3>3, <4>3
      <4> QED BY <4>2, <4>4, RowType
    <3>7. /\ DOMAIN rows' = Rows /\ rows'[u] = new
          /\ \A r \in Rows : r # u => rows'[r] = IF r = k THEN used ELSE rows[r]
      <4>1. rows' = [r \in Rows |-> CASE r = u -> new [] r = k -> used [] OTHER -> rows[r]]
        BY <3>1, <3>3
      <4>2. k # None => k # u
        BY <2>2, <3>1
      <4>3. None \notin Rows
        BY WalletsAssumption
      <4> QED BY <2>2, <4>1, <4>2, <4>3
    <3>8. None \notin Rows
      BY WalletsAssumption
    <3>9. due' \in [Rows -> Int] /\ consumed' \in [Coupons -> Nat]
      BY <1>1, <2>2, <3>1, <3>2 DEF RowsOK
    <3> QED BY <1>1, <2>2, <2>4, <3>1, <3>5, <3>6, <3>7, <3>8, <3>9 DEF RowsOK, Exists
  <2> QED BY <1>3, <2>5, <2>6, OpenWrites
<1>4. ASSUME EditCommit(s)
      PROVE RowsOK' /\ \A x \in Rows : rows'[x] # rows[x] => holder[x] \in {s, None}
  <2>1. PICK t, r : t = tx[s] /\ r = t.row
    OBVIOUS
  <2>2. /\ r \in Rows /\ holder[r] = None /\ RowOK(r, rows[r])
        /\ ColumnsOK(r, t.columns) /\ ColumnsOK(r, t.basis)
        /\ rows' = [rows EXCEPT ![r] = Written(rows[r], t.columns)]
        /\ RowOK(r, Written(rows[r], t.columns))
    BY <1>4, <2>1, EditWrites
  <2>3. PICK new, basis : new = Written(rows[r], t.columns) /\ basis = Written(rows[r], t.basis)
    OBVIOUS
  <2>4. \A x \in Rows : Exists(x)' => RowOK(x, rows'[x])
    BY <1>1, <2>2 DEF RowsOK, Exists
  <2>5. Money(r, Written(basis, t.columns)) \in Int /\ Money(r, basis) \in Int
    BY <2>2, <2>3, WrittenType, MoneyType
  <2>6. /\ due' = [due EXCEPT ![r] = @ + Money(r, Written(basis, t.columns)) - Money(r, basis)]
        /\ UNCHANGED <<redeemed, benefits, consumed>> /\ DOMAIN origin' = Users
    BY <1>4, <2>1, <2>3 DEF EditCommit
  <2>7. due' \in [Rows -> Int]
    BY <1>1, <2>2, <2>5, <2>6 DEF RowsOK
  <2> QED BY <1>1, <2>2, <2>4, <2>6, <2>7 DEF RowsOK
<1> QED BY <1>1, <1>2, <1>3, <1>4, FinishKeeps DEF WInv

\* A refused or lost operation writes nothing.
LEMMA RollBackKeeps ==
  ASSUME WInv, NEW s \in Sessions, RollBack(s) PROVE WInv'
<1>1. Finish(s) /\ UNCHANGED <<rows, redeemed, history>>
  BY DEF RollBack
<1> QED BY <1>1, FinishKeeps DEF WInv, RowsOK, Exists, history

\* What happens outside the sessions: forms open, users are deleted, time goes.
LEMMA OutsideKeeps ==
  ASSUME WInv,
         \/ \E f \in Forms, r \in Rows : OpenForm(f, r)
         \/ \E u \in Users : DeleteUser(u)
         \/ Tick
         \/ UNCHANGED walletVars
  PROVE  WInv'
<1>1. RowsOK /\ SessionsOK /\ None \notin Sessions /\ MaxTime \in Nat
  BY WalletsAssumption DEF WInv
<1>2. ASSUME NEW f \in Forms, NEW r \in Rows, OpenForm(f, r) PROVE WInv'
  <2>1. PICK shown : shown = [x \in Fields(r) |-> rows[r][x]]
    OBVIOUS
  <2>2. /\ Exists(r) /\ forms' = [forms EXCEPT ![f] = [row |-> r, shown |-> shown]]
        /\ UNCHANGED <<rows, redeemed, holder, tx, now, history>>
    BY <1>2, <2>1 DEF OpenForm
  <2>3. ColumnsOK(r, shown)
    BY <1>1, <2>1, <2>2 DEF RowsOK, RowOK, ColumnsOK, Fields
  <2>4. SessionsOK'
    BY <1>1, <2>2, <2>3 DEF SessionsOK
  <2>5. \A x \in Sessions : OtherKept(x)
    BY <2>2 DEF OtherKept
  <2> QED BY <1>1, <2>2, <2>4, <2>5, OthersKeep DEF WInv, RowsOK, Exists, history
<1>3. ASSUME NEW u \in Users, DeleteUser(u) PROVE WInv'
  <2>1. /\ holder[u] = None /\ rows' = [rows EXCEPT ![u] = None]
        /\ UNCHANGED <<redeemed, holder, tx, forms, now, history>>
    BY <1>3 DEF DeleteUser, Free
  <2>2. \A x \in Sessions : OtherKept(x)
    BY <1>1, <2>1 DEF OtherKept
  <2>3. RowsOK'
    BY <1>1, <2>1 DEF RowsOK, Exists, history
  <2>4. SessionsOK'
    BY <1>1, <2>1 DEF SessionsOK
  <2> QED BY <2>2, <2>3, <2>4, OthersKeep DEF WInv
<1>4. ASSUME UNCHANGED <<rows, redeemed, holder, tx, forms, history>>, now' \in 0..MaxTime
      PROVE  WInv'
  <2>1. \A x \in Sessions : OtherKept(x)
    BY <1>4 DEF OtherKept
  <2>2. RowsOK' /\ SessionsOK'
    BY <1>1, <1>4 DEF RowsOK, SessionsOK, Exists, history
  <2> QED BY <2>1, <2>2, OthersKeep DEF WInv
<1>5. CASE Tick
  <2>1. now' \in 0..MaxTime
    BY <1>1, <1>5 DEF Tick, SessionsOK
  <2> QED BY <1>4, <1>5, <2>1 DEF Tick
<1>6. CASE UNCHANGED walletVars
  BY <1>1, <1>4, <1>6 DEF walletVars, history, SessionsOK
<1> QED BY <1>2, <1>3, <1>5, <1>6

\* Every session step, by what it is.
Steps(s) ==
  \/ \E u \in Users :
       \/ \E c \in Cards : Redeem(s, u, c)
       \/ \E a \in Deposits : OpenDeposit(s, u, a)
       \/ \E b \in Purchases : OpenPurchase(s, u, b)
  \/ \E u \in Users, a \in Amounts : TransferCommission(s, u, a) \/ CreditCommission(s, u, a)
  \/ \E f \in Forms, e \in Edits : SubmitForm(s, f, e)
  \/ LockNext(s)
  \/ RollBack(s)
  \/ RedeemCommit(s) \/ OpenCommit(s) \/ EditCommit(s)

Outside ==
  \/ \E f \in Forms, r \in Rows : OpenForm(f, r)
  \/ \E u \in Users : DeleteUser(u)
  \/ Tick
  \/ UNCHANGED walletVars

\* The next-state relation is made of these.
LEMMA NextSteps ==
  ASSUME [Next]_walletVars PROVE Outside \/ \E s \in Sessions : Steps(s)
<1> QED BY DEF Next, Steps, Outside, Refuse, EditLost

\* The invariant is inductive.
LEMMA WInvHolds == Spec => []WInv
<1>1. Init => WInv
  <2> SUFFICES ASSUME Init PROVE WInv
    OBVIOUS
  <2>1. DOMAIN rows = Rows /\ \A r \in Rows : RowOK(r, rows[r])
    BY WalletsAssumption DEF Init, RowOK, ColumnsOK
  <2>2. due \in [Rows -> Int]
    <3>1. \A r \in Rows : Money(r, StartRows[r]) \in Int
      BY <2>1, MoneyType DEF Init
    <3> QED BY <3>1 DEF Init
  <2>3. RowsOK
    BY <2>1, <2>2 DEF Init, RowsOK
  <2>4. SessionsOK
    BY WalletsAssumption DEF Init, SessionsOK
  <2>5. ASSUME NEW s \in Sessions PROVE TxOK(s)
    <3>1. tx[s] = Idle /\ None # s /\ \A r \in Rows \cup Plans : holder[r] = None
      BY WalletsAssumption DEF Init
    <3> QED BY <3>1 DEF TxOK, Locking, Lockers, Idle
  <2> QED BY <2>3, <2>4, <2>5 DEF WInv
<1>2. WInv /\ [Next]_walletVars => WInv'
  <2> SUFFICES ASSUME WInv, [Next]_walletVars PROVE WInv'
    OBVIOUS
  <2>1. CASE Outside
    BY <2>1, OutsideKeeps DEF Outside
  <2>2. ASSUME NEW s \in Sessions, Steps(s) PROVE WInv'
    BY <2>2, LockersStart, EditsStart, LockKeeps, RollBackKeeps, CommitsKeep DEF Steps
  <2> QED BY <2>1, <2>2, NextSteps
<1> QED BY <1>1, <1>2, PTL DEF Spec

-----------------------------------------------------------------------------
(***************************************************************************)
(* Gift cards.                                                             *)
(***************************************************************************)
\* A user has the benefit of a card exactly when the redemption row says so.
BenefitsRecorded ==
  \A cu \in Cards \X Users : benefits[cu] = IF cu \in redeemed THEN 1 ELSE 0

\* giftcard.py redeem: a card is good for a user once, whatever forms write
\* into its list of users, because the redemption row stays.
THEOREM CardsUsedOnce == Spec => []OncePerCard
<1>1. Init => BenefitsRecorded
  BY DEF Init, BenefitsRecorded
<1>2. WInv /\ BenefitsRecorded /\ [Next]_walletVars => BenefitsRecorded'
  <2> SUFFICES ASSUME WInv, BenefitsRecorded, [Next]_walletVars PROVE BenefitsRecorded'
    OBVIOUS
  <2>1. CASE UNCHANGED <<benefits, redeemed>>
    BY <2>1 DEF BenefitsRecorded
  <2>2. ASSUME NEW s \in Sessions, RedeemCommit(s) PROVE BenefitsRecorded'
    <3>1. PICK cu : /\ cu \notin redeemed /\ redeemed' = redeemed \cup {cu}
                    /\ benefits' = [benefits EXCEPT ![cu] = @ + 1]
      BY <2>2 DEF RedeemCommit, Redeemed
    <3> QED BY <3>1 DEF BenefitsRecorded, WInv, RowsOK
  <2>3. CASE Outside
    BY <2>1, <2>3 DEF Outside, OpenForm, DeleteUser, Tick, history, walletVars
  <2>4. ASSUME NEW s \in Sessions, Steps(s), ~RedeemCommit(s) PROVE BenefitsRecorded'
    BY <2>1, <2>4 DEF Steps, Redeem, OpenDeposit, OpenPurchase, TransferCommission,
       CreditCommission, Edit, Start, SubmitForm, LockNext, RollBack, OpenCommit, EditCommit,
       history
  <2> QED BY <2>2, <2>3, <2>4, NextSteps
<1>3. BenefitsRecorded => OncePerCard
  BY DEF BenefitsRecorded, OncePerCard
<1> QED BY <1>1, <1>2, <1>3, WInvHolds, PTL DEF Spec

\* An opening writes rows it has locked.
LEMMA OpenChanges ==
  ASSUME WInv, NEW s \in Sessions, OpenCommit(s)
  PROVE  \A r \in Rows : rows'[r] # rows[r] => holder[r] \in {s, None}
<1> DEFINE t == tx[s]
           u == t.user
           user == rows[u]
           k == t.buy.coupon
<1>1. DOMAIN rows = Rows /\ None \notin Rows /\ u \in Rows /\ holder[u] = s
  BY OpenWrites, WalletsAssumption DEF WInv, RowsOK, Rows
<1>2. CASE t.op = "deposit"
  <2>1. rows' = [rows EXCEPT ![u] = [user EXCEPT !.balance = @ + t.amount]]
    BY <1>2, OpenWrites
  <2> QED BY <1>1, <2>1
<1>3. CASE t.op = "purchase"
  <2>1. /\ rows' = [r \in Rows |->
               CASE r = u -> [user EXCEPT !.balance = @ - t.buy.price,
                                          !.plan = t.buy.plan,
                                          !.expired = Later(user.expired, now) + t.buy.ticks]
                 [] r = k -> [left |-> rows[k].left - 1]
                 [] OTHER -> rows[r]]
        /\ k # None => holder[k] = s
    BY <1>3, OpenWrites
  <2>2. ASSUME NEW r \in Rows, r # u, r # k PROVE rows'[r] = rows[r]
    BY <2>1, <2>2
  <2> QED BY <1>1, <2>1, <2>2
<1> QED BY <1>2, <1>3, OpenWrites

\* Time stands still for whoever holds a lock.
Still == now' = now \/ \A r \in Rows \cup Plans : holder[r] = None

\* A step leaves the sessions that do not take it what they hold.
LEMMA StepOthers ==
  ASSUME WInv, NEW x \in Sessions, Outside \/ \E s \in Sessions \ {x} : Steps(s)
  PROVE  OtherKept(x) /\ Still
<1>1. SessionsOK /\ None \notin Sessions /\ RowsOK
  BY WalletsAssumption DEF WInv
<1>2. CASE Outside
  <2>1. CASE UNCHANGED <<tx, holder, rows>>
    BY <1>1, <1>2, <2>1 DEF Outside, OpenForm, Tick, DeleteUser, walletVars, OtherKept, Still,
       Free, SessionsOK
  <2>2. ASSUME NEW u \in Users, DeleteUser(u) PROVE OtherKept(x) /\ Still
    BY <1>1, <2>2 DEF DeleteUser, OtherKept, Still, Free
  <2> QED BY <1>2, <2>1, <2>2 DEF Outside, OpenForm, Tick, walletVars
<1>3. ASSUME NEW s \in Sessions \ {x}, Steps(s) PROVE OtherKept(x) /\ Still
  <2>1. ASSUME NEW op, tx' = [tx EXCEPT ![s] = op], UNCHANGED <<rows, holder, now>>
        PROVE  OtherKept(x) /\ Still
    BY <1>1, <2>1 DEF OtherKept, Still, SessionsOK
  <2>2. CASE \/ \E u \in Users :
                  \/ \E c \in Cards : Redeem(s, u, c)
                  \/ \E a \in Deposits : OpenDeposit(s, u, a)
                  \/ \E b \in Purchases : OpenPurchase(s, u, b)
             \/ \E u \in Users, a \in Amounts :
                  TransferCommission(s, u, a) \/ CreditCommission(s, u, a)
             \/ \E f \in Forms, e \in Edits : SubmitForm(s, f, e)
    <3>1. (\E op : tx' = [tx EXCEPT ![s] = op]) /\ UNCHANGED <<rows, holder, now>>
      BY <2>2 DEF Redeem, OpenDeposit, OpenPurchase, TransferCommission, CreditCommission, Edit,
         Start, SubmitForm
    <3> QED BY <2>1, <3>1
  <2>3. CASE LockNext(s)
    <3>1. PICK r, n : /\ holder[r] = None /\ tx' = [tx EXCEPT ![s] = n]
                      /\ holder' = [holder EXCEPT ![r] = s] /\ UNCHANGED <<rows, now>>
      BY <2>3 DEF LockNext, Free
    <3> QED BY <1>1, <3>1 DEF OtherKept, Still, SessionsOK
  <2>4. ASSUME Finish(s), \A r \in Rows : rows'[r] # rows[r] => holder[r] \in {s, None}
        PROVE  OtherKept(x) /\ Still
    <3>1. /\ tx' = [tx EXCEPT ![s] = Idle] /\ UNCHANGED now
          /\ holder' = [r \in DOMAIN holder |-> IF holder[r] = s THEN None ELSE holder[r]]
      BY <2>4 DEF Finish
    <3> QED BY <1>1, <2>4, <3>1 DEF OtherKept, Still, SessionsOK
  <2>5. CASE RollBack(s)
    BY <2>4, <2>5 DEF RollBack
  <2>6. CASE RedeemCommit(s)
    <3> DEFINE u == tx[s].user
               c == tx[s].card
    <3>1. /\ holder[u] = s /\ holder[c] = s
          /\ rows' = [rows EXCEPT ![u] = Benefit(tx[s]),
                                  ![c] = [left |-> rows[c].left - 1,
                                          names |-> rows[c].names \cup {u}]]
      BY <2>6, RedeemWrites
    <3>2. \A r \in Rows : rows'[r] # rows[r] => r \in {u, c}
      BY <1>1, <3>1 DEF RowsOK
    <3> QED BY <2>4, <2>6, <3>1, <3>2 DEF RedeemCommit
  <2>7. CASE OpenCommit(s)
    BY <2>4, <2>7, OpenChanges DEF OpenCommit
  <2>8. CASE EditCommit(s)
    <3>1. PICK r, new : holder[r] = None /\ rows' = [rows EXCEPT ![r] = new]
      BY <2>8 DEF EditCommit, Free
    <3>2. \A q \in Rows : rows'[q] # rows[q] => q = r
      BY <1>1, <3>1 DEF RowsOK
    <3> QED BY <2>4, <2>8, <3>1, <3>2 DEF EditCommit
  <2> QED BY <1>3, <2>2, <2>3, <2>5, <2>6, <2>7, <2>8 DEF Steps
<1> QED BY <1>2, <1>3

\* The user who redeems a plan card has no running plan, from the check on the
\* locked row to the commit.
PlanFree(s) ==
  LET t == tx[s]  user == rows[t.user] IN
  t.op = "redeem" /\ holder[t.user] = s /\ CardInfo[t.card].type = "plan" =>
    user.plan = None \/ ~Active(user, now)

PlansFree == \A s \in Sessions : PlanFree(s)

\* What a step of its own does to a session under way.
LEMMA OwnSteps ==
  ASSUME WInv, NEW s \in Sessions, Steps(s)
  PROVE  \/ LockNext(s)
         \/ /\ \A r \in Rows \cup Plans : holder'[r] # s
            /\ WInv' /\ (tx'[s].op \in Lockers => Locking(tx'[s]))
<1>1. /\ SessionsOK /\ None \notin Sessions
      /\ tx[s] = Idle => \A r \in Rows \cup Plans : holder[r] # s
  BY WalletsAssumption DEF WInv, TxOK, Locking, Lockers, Idle
<1>2. WInv'
  BY LockersStart, EditsStart, LockKeeps, RollBackKeeps, CommitsKeep DEF Steps
<1>3. tx'[s].op \in Lockers => Locking(tx'[s])
  BY <1>2 DEF WInv, TxOK, Editing, Lockers, Idle
<1>4. ASSUME tx[s] = Idle, UNCHANGED holder PROVE \A r \in Rows \cup Plans : holder'[r] # s
  BY <1>1, <1>4
<1>5. ASSUME Finish(s) PROVE \A r \in Rows \cup Plans : holder'[r] # s
  BY <1>1, <1>5 DEF Finish, SessionsOK
<1> QED BY <1>2, <1>3, <1>4, <1>5 DEF Steps, Redeem, OpenDeposit, OpenPurchase,
    TransferCommission, CreditCommission, Edit, Start, SubmitForm, RollBack, RedeemCommit,
    OpenCommit, EditCommit

\* That check still holds when the redemption commits: the user's row is locked.
LEMMA PlansStayFree == Spec => []PlansFree
<1>1. Init => PlansFree
  BY DEF Init, PlansFree, PlanFree, Idle
<1>2. WInv /\ PlansFree /\ [Next]_walletVars => PlansFree'
  <2> SUFFICES ASSUME WInv, PlansFree, [Next]_walletVars, NEW x \in Sessions PROVE PlanFree(x)'
    BY DEF PlansFree
  <2>1. CASE Outside \/ \E s \in Sessions \ {x} : Steps(s)
    <3>1. OtherKept(x) /\ Still
      BY <2>1, StepOthers
    <3> PICK t, u : t = tx[x] /\ u = t.user
      OBVIOUS
    <3> SUFFICES ASSUME t.op = "redeem", holder'[u] = x, CardInfo[t.card].type = "plan"
                 PROVE  rows'[u].plan = None \/ ~Active(rows'[u], now')
      BY <3>1 DEF OtherKept, PlanFree
    <3>2. u \in Rows
      BY DEF WInv, TxOK, Editing, Locking, Lockers, Idle, Rows
    <3>3. holder[u] = x /\ rows'[u] = rows[u] /\ x # None
      BY <3>1, <3>2, WalletsAssumption DEF OtherKept
    <3>4. now' = now
      BY <3>1, <3>2, <3>3 DEF Still
    <3> QED BY <3>3, <3>4 DEF PlansFree, PlanFree, Active
  <2>2. CASE Steps(x)
    <3>1. CASE LockNext(x)
      <4> PICK t, r, n : t = tx[x] /\ r = Head(t.wants) /\ n = Seen(t, r)
        OBVIOUS
      <4>1. /\ t.op \in Lockers /\ t.wants # <<>> /\ holder[r] = None /\ Passes(t, r)
            /\ tx' = [tx EXCEPT ![x] = n] /\ holder' = [holder EXCEPT ![r] = x]
            /\ UNCHANGED <<rows, now>> /\ DOMAIN tx = Sessions
            /\ holder \in [Rows \cup Plans -> Sessions \cup {None}]
        BY <3>1 DEF LockNext, Free, WInv, SessionsOK
      <4>2. Locking(t)
        BY <4>1 DEF WInv, TxOK, Editing, Lockers, Idle
      <4>6. /\ n.op = t.op /\ n.user = t.user
            /\ t.op = "redeem" => n.card = t.card
        BY <4>1, <4>2, SeenType
      <4>3. tx'[x] = n /\ t.user \in Rows
        BY <4>1, <4>2 DEF Locking, Rows
      <4> SUFFICES ASSUME t.op = "redeem", holder'[t.user] = x, CardInfo[t.card].type = "plan"
                   PROVE  rows[t.user].plan = None \/ ~Active(rows[t.user], now)
        BY <4>1, <4>3, <4>6 DEF PlanFree, Active
      <4>4. CASE r = t.user
        BY <4>1, <4>4 DEF Passes, MayRedeem
      <4>5. CASE r # t.user
        <5>1. holder[t.user] = x
          BY <4>1, <4>3, <4>5
        <5> QED BY <5>1 DEF PlansFree, PlanFree
      <4> QED BY <4>4, <4>5
    <3>2. CASE ~LockNext(x)
      <4>1. /\ \A r \in Rows \cup Plans : holder'[r] # x
            /\ tx'[x].op \in Lockers => Locking(tx'[x])
        BY <2>2, <3>2, OwnSteps
      <4>2. tx'[x].op = "redeem" => tx'[x].user \in Rows
        BY <4>1 DEF Locking, Lockers, Rows
      <4> QED BY <4>1, <4>2 DEF PlanFree
    <3> QED BY <3>1, <3>2
  <2> QED BY <2>1, <2>2, NextSteps
<1> QED BY <1>1, <1>2, WInvHolds, PTL DEF Spec

\* What a card gives never ends earlier than what it replaces.
LEMMA BenefitLasts ==
  ASSUME WInv, PlansFree, NEW s \in Sessions, RedeemCommit(s)
  PROVE  LET u == tx[s].user IN
         rows[u].plan # None /\ Active(rows[u], now) => rows'[u].expired >= rows[u].expired
<1> DEFINE t == tx[s]
           c == t.card
           u == t.user
<1>1. /\ u \in Users /\ c \in Cards /\ u # c /\ holder[u] = s /\ t.seen[u] = rows[u]
      /\ RowOK(u, rows[u])
      /\ rows' = [rows EXCEPT ![u] = Benefit(t),
                              ![c] = [left |-> rows[c].left - 1,
                                      names |-> rows[c].names \cup {u}]]
  BY RedeemWrites
<1>2. u \in Rows /\ DOMAIN rows = Rows /\ now \in Nat /\ t.op = "redeem"
  BY <1>1, WalletsAssumption DEF Rows, WInv, RowsOK, SessionsOK, RedeemCommit
<1>3. rows'[u] = Benefit(t)
  BY <1>1, <1>2
<1>4. /\ rows[u].expired \in Int
      /\ DOMAIN rows[u] = {"balance", "commission", "plan", "expired"}
  BY <1>1, <1>2, RowColumns
<1>5. /\ CardInfo[c].type \in {"balance", "days", "plan"} /\ CardInfo[c].value \in Nat
  BY <1>1, WalletsAssumption
<1>6. CASE CardInfo[c].type = "balance"
  <2>1. Benefit(t) = [rows[u] EXCEPT !.balance = @ + CardInfo[c].value]
    BY <1>1, <1>6 DEF Benefit
  <2>2. Benefit(t).expired = rows[u].expired
    BY <1>4, <2>1
  <2> QED BY <1>3, <1>4, <2>2
<1>7. CASE CardInfo[c].type = "days"
  <2>1. Benefit(t) = [rows[u] EXCEPT !.expired = Later(@, now) + CardInfo[c].value]
    BY <1>1, <1>7 DEF Benefit
  <2>2. Benefit(t).expired = Later(rows[u].expired, now) + CardInfo[c].value
    BY <1>4, <2>1
  <2>3. Later(rows[u].expired, now) + CardInfo[c].value >= rows[u].expired
    BY <1>2, <1>4, <1>5 DEF Later
  <2> QED BY <1>3, <2>2, <2>3
<1>8. CASE CardInfo[c].type = "plan"
  BY <1>1, <1>2, <1>8 DEF PlansFree, PlanFree
<1> QED BY <1>5, <1>6, <1>7, <1>8

\* giftcard.py redeem: whoever has a running plan keeps it at least as long.
THEOREM CardsLast == Spec => CardsNeverShorten
<1>1. ASSUME WInv, PlansFree, [Next]_walletVars, NEW cu \in redeemed' \ redeemed,
             Exists(cu[2]), rows[cu[2]].plan # None, Active(rows[cu[2]], now)
      PROVE  rows'[cu[2]].expired >= rows[cu[2]].expired
  <2>1. redeemed' # redeemed
    BY <1>1
  <2>2. PICK s \in Sessions : RedeemCommit(s)
    BY <1>1, <2>1, NextSteps DEF Outside, OpenForm, DeleteUser, Tick, history, walletVars,
       Steps, Redeem, OpenDeposit, OpenPurchase, TransferCommission, CreditCommission, Edit,
       Start, SubmitForm, LockNext, RollBack, OpenCommit, EditCommit
  <2>3. cu = <<tx[s].card, tx[s].user>>
    BY <1>1, <2>2 DEF RedeemCommit
  <2>4. cu[2] = tx[s].user
    BY <2>3
  <2> QED BY <1>1, <2>2, <2>4, BenefitLasts
<1>2. WInv /\ PlansFree /\ [Next]_walletVars =>
        [\A cu \in redeemed' \ redeemed :
           Exists(cu[2]) /\ rows[cu[2]].plan # None /\ Active(rows[cu[2]], now)
             => rows'[cu[2]].expired >= rows[cu[2]].expired]_walletVars
  BY <1>1
<1> QED BY <1>2, WInvHolds, PlansStayFree, PTL DEF Spec, CardsNeverShorten

-----------------------------------------------------------------------------
(***************************************************************************)
(* Seats.  The plan row is locked from the count to the commit, so nobody  *)
(* else takes a seat by an order in between.                               *)
(***************************************************************************)
Sold(p) == {u \in Seated(p, now) : origin[u] = "order"}

SeatFree(s) ==
  LET t == tx[s]  p == t.buy.plan IN
  t.op = "purchase" /\ holder[p] = s =>
    /\ holder[t.user] = s
    /\ RequiresSlot(rows[t.user], t.buy) /\ Capacity[p] > 0 =>
         Cardinality(Sold(p) \ {t.user}) < Capacity[p]

SeatInv == SeatsSold /\ \A s \in Sessions : SeatFree(s)

\* Who has a seat by an order after a step and had none before has just bought
\* it, by a session that has the plan locked.
LEMMA SeatsAreBought ==
  ASSUME WInv, [Next]_walletVars, NEW p, NEW u \in Sold(p)', u \notin Sold(p)
  PROVE  \E s \in Sessions : /\ OpenCommit(s) /\ tx[s].op = "purchase" /\ tx[s].user = u
                             /\ tx[s].buy.plan = p /\ holder[p] = s
                             /\ RequiresSlot(rows[u], tx[s].buy)
<1>1. /\ u \in Users /\ u \in Rows /\ u \notin Cards /\ u \notin Coupons
      /\ Exists(u)' /\ rows'[u].plan = p /\ rows'[u].expired >= now' /\ origin'[u] = "order"
  BY WalletsAssumption DEF Sold, Seated, Rows
<1>2. ~(Exists(u) /\ rows[u].plan = p /\ rows[u].expired >= now /\ origin[u] = "order")
  BY <1>1 DEF Sold, Seated
<1>3. /\ DOMAIN rows = Rows /\ DOMAIN origin = Users /\ now \in Int
      /\ Exists(u) => RowOK(u, rows[u])
  BY <1>1, WalletsAssumption DEF WInv, RowsOK, SessionsOK
<1>4. Exists(u) => /\ rows[u].expired \in Int
                   /\ DOMAIN rows[u] = {"balance", "commission", "plan", "expired"}
  BY <1>1, <1>3, RowColumns
<1>5. ASSUME rows'[u] = rows[u], origin'[u] = origin[u], now' \in {now, now + 1} PROVE FALSE
  BY <1>1, <1>2, <1>3, <1>4, <1>5 DEF Exists
<1>6. CASE Outside
  <2>1. ASSUME NEW v \in Users, DeleteUser(v) PROVE FALSE
    <3>1. rows' = [rows EXCEPT ![v] = None] /\ UNCHANGED <<origin, now>>
      BY <2>1 DEF DeleteUser, history
    <3>2. CASE u = v
      BY <1>1, <1>3, <3>1, <3>2 DEF Exists
    <3> QED BY <1>5, <1>3, <3>1, <3>2
  <2> QED BY <1>5, <1>6, <2>1 DEF Outside, OpenForm, Tick, walletVars, history
<1>7. ASSUME NEW s \in Sessions, Steps(s) PROVE OpenCommit(s) \/ FALSE
  <2>1. CASE RedeemCommit(s)
    <3> DEFINE t == tx[s]
               c == t.card
               v == t.user
    <3>1. /\ v \in Users /\ c \in Cards /\ v # c /\ Exists(v) /\ t.seen[v] = rows[v]
          /\ RowOK(v, rows[v]) /\ UNCHANGED now
          /\ rows' = [rows EXCEPT ![v] = Benefit(t),
                                  ![c] = [left |-> rows[c].left - 1,
                                          names |-> rows[c].names \cup {v}]]
          /\ origin' = [origin EXCEPT ![v] =
               IF \/ CardInfo[c].type = "plan"
                  \/ CardInfo[c].type = "days" /\ ~Active(t.seen[v], now)
               THEN "card" ELSE @]
      BY <2>1, RedeemWrites DEF RedeemCommit, Finish
    <3>2. u = v
      BY <1>1, <1>3, <1>5, <3>1
    <3>3. rows'[u] = Benefit(t)
      BY <1>1, <1>3, <3>1, <3>2
    <3>4. ~(\/ CardInfo[c].type = "plan"
            \/ CardInfo[c].type = "days" /\ ~Active(rows[u], now)) /\ origin'[u] = origin[u]
      BY <1>1, <1>3, <3>1, <3>2
    <3>5. CardInfo[c].type \in {"balance", "days", "plan"}
      BY <3>1, WalletsAssumption
    <3>6. CASE CardInfo[c].type = "balance"
      <4>1. Benefit(t) = [rows[u] EXCEPT !.balance = @ + CardInfo[c].value]
        BY <3>1, <3>2, <3>6 DEF Benefit
      <4>2. Benefit(t).plan = rows[u].plan /\ Benefit(t).expired = rows[u].expired
        BY <1>4, <3>1, <3>2, <4>1
      <4> QED BY <1>1, <1>2, <3>1, <3>2, <3>3, <3>4, <4>2
    <3>7. CASE CardInfo[c].type = "days" /\ Active(rows[u], now)
      <4>1. Benefit(t) = [rows[u] EXCEPT !.expired = Later(@, now) + CardInfo[c].value]
        BY <3>1, <3>2, <3>7 DEF Benefit
      <4>2. Benefit(t).plan = rows[u].plan
        BY <1>4, <3>1, <3>2, <4>1
      <4>3. rows[u].expired >= now
        BY <1>3, <1>4, <3>1, <3>2, <3>7 DEF Active
      <4> QED BY <1>1, <1>2, <3>1, <3>2, <3>3, <3>4, <4>2, <4>3
    <3> QED BY <3>4, <3>5, <3>6, <3>7
  <2>2. CASE EditCommit(s)
    <3> PICK r, new : r = tx[s].row /\ new = Written(rows[r], tx[s].columns)
      OBVIOUS
    <3>1. /\ rows' = [rows EXCEPT ![r] = new] /\ Exists(r)
          /\ origin' = [v \in Users |->
               IF v = r /\ (new.plan # rows[v].plan \/ new.expired # rows[v].expired)
               THEN "form" ELSE origin[v]]
          /\ UNCHANGED now
      BY <2>2 DEF EditCommit, Finish
    <3>2. u = r
      BY <1>1, <1>3, <1>5, <3>1
    <3>3. rows'[u] = new /\ new.plan = rows[u].plan /\ new.expired = rows[u].expired
          /\ origin'[u] = origin[u]
      BY <1>1, <1>3, <3>1, <3>2
    <3> QED BY <1>1, <1>2, <3>1, <3>2, <3>3
  <2>3. CASE LockNext(s) \/ RollBack(s)
    BY <1>5, <2>3 DEF LockNext, RollBack, Finish, history
  <2> QED BY <1>5, <1>7, <2>1, <2>2, <2>3 DEF Steps, Redeem, OpenDeposit, OpenPurchase,
          TransferCommission, CreditCommission, Edit, Start, SubmitForm, history
<1>8. ASSUME NEW s \in Sessions, OpenCommit(s)
      PROVE  /\ tx[s].op = "purchase" /\ tx[s].user = u
             /\ tx[s].buy.plan = p /\ holder[p] = s
             /\ RequiresSlot(rows[u], tx[s].buy)
  <2> DEFINE t == tx[s]
             v == t.user
             user == rows[v]
             k == t.buy.coupon
  <2>1. v \in Users /\ v \in Rows /\ Exists(v) /\ UNCHANGED now
    BY <1>8, OpenWrites DEF Rows, OpenCommit, Finish
  <2>2. CASE t.op = "deposit"
    <3>1. /\ rows' = [rows EXCEPT ![v] = [user EXCEPT !.balance = @ + t.amount]]
          /\ UNCHANGED origin
      BY <1>8, <2>2, OpenWrites
    <3>2. u = v
      BY <1>1, <1>3, <1>5, <2>1, <3>1
    <3>3. rows'[u].plan = rows[u].plan /\ rows'[u].expired = rows[u].expired
      BY <1>1, <1>3, <1>4, <2>1, <3>1, <3>2
    <3> QED BY <1>1, <1>2, <2>1, <3>1, <3>2, <3>3
  <2>3. CASE t.op = "purchase"
    <3>1. /\ rows' = [r \in Rows |->
               CASE r = v -> [user EXCEPT !.balance = @ - t.buy.price,
                                          !.plan = t.buy.plan,
                                          !.expired = Later(user.expired, now) + t.buy.ticks]
                 [] r = k -> [left |-> rows[k].left - 1]
                 [] OTHER -> rows[r]]
          /\ origin' = [origin EXCEPT ![v] =
               IF user.plan = t.buy.plan /\ Active(user, now) THEN @ ELSE "order"]
          /\ k # None => k \in Coupons
          /\ holder[t.buy.plan] = s
      BY <1>8, <2>3, OpenWrites
    <3>2. u # k
      BY <1>1, <3>1, WalletsAssumption
    <3>3. u = v
      <4>1. ASSUME u # v PROVE rows'[u] = rows[u]
        BY <1>1, <3>1, <3>2, <4>1
      <4> QED BY <1>1, <1>3, <1>5, <2>1, <3>1, <4>1
    <3>4. rows'[v] = [user EXCEPT !.balance = @ - t.buy.price, !.plan = t.buy.plan,
                                  !.expired = Later(user.expired, now) + t.buy.ticks]
      <4>1. PICK new, used :
              /\ new = [user EXCEPT !.balance = @ - t.buy.price, !.plan = t.buy.plan,
                                    !.expired = Later(user.expired, now) + t.buy.ticks]
              /\ used = [left |-> rows[k].left - 1]
        OBVIOUS
      <4>2. rows' = [r \in Rows |-> CASE r = v -> new [] r = k -> used [] OTHER -> rows[r]]
        BY <3>1, <4>1
      <4> QED BY <2>1, <3>2, <3>3, <4>1, <4>2
    <3>5. t.buy.plan = p
      BY <1>1, <1>4, <2>1, <3>3, <3>4
    <3>6. ~(user.plan = t.buy.plan /\ Active(user, now))
      <4>1. SUFFICES ASSUME user.plan = t.buy.plan, Active(user, now) PROVE FALSE
        OBVIOUS
      <4>2. origin'[u] = origin[u]
        BY <1>1, <1>3, <3>1, <3>3, <4>1
      <4>3. rows[u].expired >= now
        BY <1>3, <1>4, <2>1, <3>3, <4>1 DEF Active
      <4> QED BY <1>1, <1>2, <2>1, <3>3, <3>5, <4>1, <4>2, <4>3
    <3> QED BY <2>3, <3>1, <3>3, <3>5, <3>6 DEF RequiresSlot
  <2> QED BY <1>8, <2>2, <2>3, OpenWrites
<1> QED BY <1>6, <1>7, <1>8, NextSteps

\* Capacities bind finite sets of users.
LEMMA SeatSets ==
  ASSUME NEW p
  PROVE  /\ IsFiniteSet(Sold(p)) /\ IsFiniteSet(Seated(p, now))
         /\ Cardinality(Sold(p)) <= Cardinality(Seated(p, now))
         /\ Cardinality(Sold(p)) \in Nat /\ Cardinality(Seated(p, now)) \in Nat
<1>1. Seated(p, now) \subseteq Users /\ Sold(p) \subseteq Seated(p, now)
  BY DEF Sold, Seated
<1>2. IsFiniteSet(Seated(p, now))
  BY <1>1, WalletsAssumption, FS_Subset
<1> QED BY <1>1, <1>2, FS_Subset, FS_CardinalityType

\* Between its count of the seats and its commit, a purchase keeps its seat.
LEMMA SeatsStayFree ==
  ASSUME WInv, \A s \in Sessions : SeatFree(s), [Next]_walletVars, NEW x \in Sessions
  PROVE  SeatFree(x)'
<1>1. /\ SessionsOK /\ None \notin Sessions /\ Plans \cap Rows = {} /\ Users \subseteq Rows
      /\ Capacity \in [Plans -> Nat] /\ \A b \in Purchases : b.plan \in Plans
  BY WalletsAssumption DEF WInv, Rows
<1>2. ASSUME NEW t, Locking(t), t.op = "purchase"
      PROVE  t.user \in Rows /\ t.buy.plan \in Plans
  BY <1>1, <1>2 DEF Locking
<1>3. CASE Outside \/ \E s \in Sessions \ {x} : Steps(s)
  <2>1. OtherKept(x) /\ Still
    BY <1>3, StepOthers
  <2> PICK t, u, p : t = tx[x] /\ u = t.user /\ p = t.buy.plan
    OBVIOUS
  <2>2. tx'[x] = t
    BY <2>1 DEF OtherKept
  <2> SUFFICES ASSUME t.op = "purchase", holder'[p] = x
               PROVE  /\ holder'[u] = x
                      /\ RequiresSlot(rows[u], t.buy)' /\ Capacity[p] > 0 =>
                           Cardinality(Sold(p)' \ {u}) < Capacity[p]
    BY <2>2 DEF SeatFree, RequiresSlot, Active
  <2>3. u \in Rows /\ p \in Plans
    BY <1>2 DEF WInv, TxOK, Editing, Idle
  <2>4. holder[p] = x /\ now' = now
    BY <1>1, <2>1, <2>3 DEF OtherKept, Still
  <2>5. holder[u] = x
    BY <2>4 DEF SeatFree
  <2>6. holder'[u] = x /\ rows'[u] = rows[u]
    BY <2>1, <2>3, <2>5 DEF OtherKept
  <2>7. RequiresSlot(rows[u], t.buy)' <=> RequiresSlot(rows[u], t.buy)
    BY <2>4, <2>6 DEF RequiresSlot, Active
  <2>8. Sold(p)' \subseteq Sold(p)
    <3>1. SUFFICES ASSUME NEW v \in Sold(p)', v \notin Sold(p) PROVE FALSE
      OBVIOUS
    <3>2. PICK s \in Sessions : OpenCommit(s) /\ holder[p] = s
      BY <3>1, SeatsAreBought
    <3>3. s = x /\ tx' = [tx EXCEPT ![s] = Idle]
      BY <2>4, <3>2 DEF OpenCommit, Finish
    <3> QED BY <1>1, <2>2, <3>3 DEF SessionsOK, Idle
  <2>9. ASSUME RequiresSlot(rows[u], t.buy), Capacity[p] > 0
        PROVE  Cardinality(Sold(p)' \ {u}) < Capacity[p]
    <3>1. Cardinality(Sold(p) \ {u}) < Capacity[p]
      BY <2>4, <2>9 DEF SeatFree
    <3>2. Sold(p)' \ {u} \subseteq Sold(p) \ {u} /\ IsFiniteSet(Sold(p) \ {u})
      BY <2>8, SeatSets, FS_Subset
    <3>3. /\ Cardinality(Sold(p)' \ {u}) <= Cardinality(Sold(p) \ {u})
          /\ Cardinality(Sold(p)' \ {u}) \in Nat /\ Cardinality(Sold(p) \ {u}) \in Nat
      BY <3>2, FS_Subset, FS_CardinalityType
    <3> QED BY <1>1, <2>3, <3>1, <3>3
  <2> QED BY <2>6, <2>7, <2>9
<1>4. CASE LockNext(x)
  <2> PICK t, r, n, u, p : /\ t = tx[x] /\ r = Head(t.wants) /\ n = Seen(t, r)
                           /\ u = n.user /\ p = n.buy.plan
    OBVIOUS
  <2>1. /\ t.op \in Lockers /\ t.wants # <<>> /\ holder[r] = None /\ Passes(t, r)
        /\ tx' = [tx EXCEPT ![x] = n] /\ holder' = [holder EXCEPT ![r] = x]
        /\ UNCHANGED <<rows, now, origin>> /\ DOMAIN tx = Sessions
        /\ holder \in [Rows \cup Plans -> Sessions \cup {None}]
    BY <1>4 DEF LockNext, Free, WInv, SessionsOK, history
  <2>2. Locking(t)
    BY <2>1 DEF WInv, TxOK, Editing, Lockers, Idle
  <2>3. /\ n.op = t.op /\ n.user = t.user
        /\ t.op = "purchase" => n.buy = t.buy
    BY <2>1, <2>2, SeenType
  <2>4. Sold(p)' = Sold(p)
    BY <2>1 DEF Sold, Seated, Exists
  <2>5. tx'[x] = n
    BY <2>1
  <2> SUFFICES ASSUME t.op = "purchase", holder'[p] = x
               PROVE  /\ holder'[u] = x
                      /\ RequiresSlot(rows[u], t.buy) /\ Capacity[p] > 0 =>
                           Cardinality(Sold(p) \ {u}) < Capacity[p]
    BY <2>1, <2>3, <2>4, <2>5 DEF SeatFree, RequiresSlot, Active
  <2>6. u = t.user /\ u \in Rows /\ p = t.buy.plan /\ p \in Plans /\ p # u
    BY <1>1, <1>2, <2>2, <2>3
  <2>7. CASE r = p
    <3>1. holder[u] = x /\ t.seen[u] = rows[u]
      BY <2>1, <2>2, <2>6, <2>7 DEF WInv, TxOK
    <3>2. RequiresSlot(rows[u], t.buy) => HasSeat(p)
      BY <2>1, <2>6, <2>7, <3>1 DEF Passes
    <3>3. ASSUME Capacity[p] > 0, HasSeat(p) PROVE Cardinality(Sold(p) \ {u}) < Capacity[p]
      <4>1. Cardinality(Sold(p)) <= Cardinality(Seated(p, now))
        BY SeatSets
      <4>2. /\ Cardinality(Sold(p) \ {u}) <= Cardinality(Sold(p))
            /\ Cardinality(Sold(p) \ {u}) \in Nat
            /\ Cardinality(Sold(p)) \in Nat /\ Cardinality(Seated(p, now)) \in Nat
        BY SeatSets, FS_Subset, FS_CardinalityType
      <4>3. Cardinality(Seated(p, now)) < Capacity[p] /\ Capacity[p] \in Nat
        BY <1>1, <2>6, <3>3 DEF HasSeat
      <4> QED BY <4>1, <4>2, <4>3
    <3> QED BY <2>1, <2>6, <3>1, <3>2, <3>3
  <2>8. CASE r # p
    <3>1. holder[p] = x
      BY <2>1, <2>6, <2>8
    <3> QED BY <1>1, <2>1, <2>6, <3>1 DEF SeatFree
  <2> QED BY <2>7, <2>8
<1>5. CASE Steps(x) /\ ~LockNext(x)
  <2>1. /\ \A r \in Rows \cup Plans : holder'[r] # x
        /\ tx'[x].op \in Lockers => Locking(tx'[x])
    BY <1>5, OwnSteps
  <2>2. tx'[x].op = "purchase" => tx'[x].buy.plan \in Plans
    BY <1>2, <2>1 DEF Lockers
  <2> QED BY <2>1, <2>2 DEF SeatFree
<1> QED BY <1>3, <1>4, <1>5, NextSteps

\* order.py _ensure_plan_capacity_available: orders do not sell more seats than
\* a plan has, however purchases, cards, forms and deletions interleave.
THEOREM SeatsNotOversold == Spec => []SeatsSold
<1>1. Init => SeatInv
  <2> SUFFICES ASSUME Init PROVE SeatInv
    OBVIOUS
  <2>1. ASSUME NEW p \in Plans PROVE Sold(p) = {} /\ Capacity[p] \in Nat
    BY WalletsAssumption DEF Init, Sold, Seated
  <2>2. SeatsSold
    BY <2>1, FS_EmptySet DEF SeatsSold, Sold
  <2>3. ASSUME NEW s \in Sessions PROVE SeatFree(s)
    BY DEF Init, SeatFree, Idle
  <2> QED BY <2>2, <2>3 DEF SeatInv
<1>2. WInv /\ SeatInv /\ [Next]_walletVars => SeatInv'
  <2> SUFFICES ASSUME WInv, SeatInv, [Next]_walletVars PROVE SeatInv'
    OBVIOUS
  <2>1. ASSUME NEW s \in Sessions PROVE SeatFree(s)'
    BY <2>1, SeatsStayFree DEF SeatInv
  <2>2. ASSUME NEW p \in Plans, Capacity[p] > 0 PROVE Cardinality(Sold(p)') <= Capacity[p]
    <3>1. Capacity[p] \in Nat /\ Cardinality(Sold(p)) <= Capacity[p]
      BY <2>2, WalletsAssumption DEF SeatInv, SeatsSold, Sold
    <3>2. CASE Sold(p)' \subseteq Sold(p)
      <4>1. /\ Cardinality(Sold(p)') <= Cardinality(Sold(p))
            /\ Cardinality(Sold(p)') \in Nat /\ Cardinality(Sold(p)) \in Nat
        BY <3>2, SeatSets, FS_Subset, FS_CardinalityType
      <4> QED BY <3>1, <4>1
    <3>3. ASSUME NEW u \in Sold(p)', u \notin Sold(p) PROVE Cardinality(Sold(p)') <= Capacity[p]
      <4>1. PICK s \in Sessions : /\ tx[s].op = "purchase" /\ tx[s].user = u
                                  /\ tx[s].buy.plan = p /\ holder[p] = s
                                  /\ RequiresSlot(rows[u], tx[s].buy)
        BY <3>3, SeatsAreBought
      <4>2. Cardinality(Sold(p) \ {u}) < Capacity[p]
        BY <2>2, <4>1 DEF SeatInv, SeatFree
      <4>3. ASSUME NEW v \in Sold(p)', v \notin Sold(p) PROVE v = u
        BY <4>1, <4>3, SeatsAreBought
      <4>4. Sold(p)' \subseteq (Sold(p) \ {u}) \cup {u} /\ u \notin Sold(p) \ {u}
        BY <4>3
      <4>5. IsFiniteSet(Sold(p) \ {u})
        BY SeatSets, FS_Subset
      <4>6. /\ IsFiniteSet((Sold(p) \ {u}) \cup {u})
            /\ Cardinality((Sold(p) \ {u}) \cup {u}) = Cardinality(Sold(p) \ {u}) + 1
        BY <4>4, <4>5, FS_AddElement
      <4>7. /\ Cardinality(Sold(p)') <= Cardinality((Sold(p) \ {u}) \cup {u})
            /\ Cardinality(Sold(p)') \in Nat /\ Cardinality(Sold(p) \ {u}) \in Nat
        BY <4>4, <4>5, <4>6, FS_Subset, FS_CardinalityType
      <4> QED BY <3>1, <4>2, <4>6, <4>7
    <3> QED BY <3>2, <3>3
  <2> QED BY <2>1, <2>2 DEF SeatInv, SeatsSold, Sold
<1>3. SeatInv => SeatsSold
  BY DEF SeatInv
<1> QED BY <1>1, <1>2, <1>3, WInvHolds, PTL DEF Spec

-----------------------------------------------------------------------------
(***************************************************************************)
(* The ledger.                                                             *)
(***************************************************************************)
LedgerAt(r) == r \notin raced /\ Exists(r) => Money(r, rows[r]) + Uses(r) = due[r]

\* The uses of a row, by the table it is in.
LEMMA UsesOf ==
  ASSUME NEW r
  PROVE  /\ r \in Users => Uses(r) = 0
         /\ r \in Cards => Uses(r) = Cardinality({u \in Users : <<r, u>> \in redeemed})
         /\ r \in Coupons => Uses(r) = consumed[r]
<1> QED BY WalletsAssumption DEF Uses

\* The same after a step.
LEMMA UsesAfter ==
  ASSUME NEW r
  PROVE  /\ r \in Users => Uses(r)' = 0
         /\ r \in Cards => Uses(r)' = Cardinality({u \in Users : <<r, u>> \in redeemed'})
         /\ r \in Coupons => Uses(r)' = consumed'[r]
<1> QED BY WalletsAssumption DEF Uses

\* A row that a step does not write stays in balance.
LEMMA LedgerKept ==
  ASSUME NEW r \in Rows, LedgerAt(r), rows'[r] = rows[r], due'[r] = due[r],
         Uses(r)' = Uses(r), raced \subseteq raced'
  PROVE  LedgerAt(r)'
<1>1. Money(r, rows[r])' = Money(r, rows[r])
  BY DEF Money
<1> QED BY <1>1 DEF LedgerAt, Exists

\* A card's uses, before and after one more user redeems it.
LEMMA OneMoreUse ==
  ASSUME NEW c \in Cards, NEW u \in Users, <<c, u>> \notin redeemed,
         redeemed' = redeemed \cup {<<c, u>>}
  PROVE  /\ Uses(c) \in Nat /\ Uses(c)' = Uses(c) + 1
         /\ \A d \in Cards : d # c => Uses(d)' = Uses(d)
<1> DEFINE before == {v \in Users : <<c, v>> \in redeemed}
<1>1. {v \in Users : <<c, v>> \in redeemed'} = before \cup {u} /\ u \notin before
  OBVIOUS
<1>2. IsFiniteSet(before)
  BY WalletsAssumption, FS_Subset
<1>3. Cardinality(before \cup {u}) = Cardinality(before) + 1 /\ Cardinality(before) \in Nat
  BY <1>1, <1>2, FS_AddElement, FS_CardinalityType
<1>4. ASSUME NEW d \in Cards, d # c PROVE Uses(d)' = Uses(d)
  <2>1. {v \in Users : <<d, v>> \in redeemed'} = {v \in Users : <<d, v>> \in redeemed}
    BY <1>4
  <2> QED BY <2>1, UsesOf, UsesAfter
<1> QED BY <1>1, <1>3, <1>4, UsesOf, UsesAfter

\* A redemption adds the card's value to the user and a use to the card.
LEMMA RedeemBalances ==
  ASSUME WInv, Ledger, NEW s \in Sessions, RedeemCommit(s), NEW r \in Rows
  PROVE  LedgerAt(r)'
<1> DEFINE t == tx[s]
           c == t.card
           u == t.user
<1>1. /\ u \in Users /\ c \in Cards /\ u # c /\ Exists(u) /\ Exists(c) /\ t.seen[u] = rows[u]
      /\ RowOK(u, rows[u]) /\ RowOK(c, rows[c])
      /\ rows' = [rows EXCEPT ![u] = Benefit(t),
                              ![c] = [left |-> rows[c].left - 1,
                                      names |-> rows[c].names \cup {u}]]
      /\ <<c, u>> \notin redeemed
  BY RedeemWrites
<1>2. /\ u \in Rows /\ c \in Rows /\ u \notin Cards /\ c \notin Users /\ u \notin Coupons
      /\ c \notin Coupons
      /\ DOMAIN rows = Rows /\ due \in [Rows -> Int] /\ consumed \in [Coupons -> Nat]
  BY <1>1, WalletsAssumption DEF Rows, WInv, RowsOK
<1>3. /\ redeemed' = redeemed \cup {<<c, u>>} /\ UNCHANGED <<raced, consumed>>
      /\ due' = [due EXCEPT ![u] = @ + IF CardInfo[c].type = "balance"
                                       THEN CardInfo[c].value ELSE 0]
  BY DEF RedeemCommit
<1>4. LedgerAt(r)
  BY DEF Ledger, LedgerAt
<1>5. CASE r = u
  <2>1. /\ rows[u].balance \in Int /\ rows[u].commission \in Int
        /\ DOMAIN rows[u] = {"balance", "commission", "plan", "expired"}
    BY <1>1, <1>2, RowColumns
  <2>2. CardInfo[c].type \in {"balance", "days", "plan"} /\ CardInfo[c].value \in Nat
    BY <1>1, WalletsAssumption
  <2>3. PICK new : new = Benefit(t) /\ rows' = [rows EXCEPT ![u] = new, ![c] = rows'[c]]
    BY <1>1, <1>2
  <2>4. /\ new.commission = rows[u].commission
        /\ new.balance = rows[u].balance + IF CardInfo[c].type = "balance"
                                           THEN CardInfo[c].value ELSE 0
    <3>1. CASE CardInfo[c].type = "balance"
      <4>1. new = [rows[u] EXCEPT !.balance = @ + CardInfo[c].value]
        BY <1>1, <2>3, <3>1 DEF Benefit
      <4> QED BY <2>1, <3>1, <4>1
    <3>2. CASE CardInfo[c].type = "days"
      <4>1. new = [rows[u] EXCEPT !.expired = Later(@, now) + CardInfo[c].value]
        BY <1>1, <2>3, <3>2 DEF Benefit
      <4> QED BY <2>1, <3>2, <4>1
    <3>3. CASE CardInfo[c].type = "plan"
      <4>1. new = [rows[u] EXCEPT !.plan = CardInfo[c].plan,
                     !.expired = IF CardInfo[c].value = 0 THEN Never
                                                          ELSE now + CardInfo[c].value]
        BY <1>1, <2>3, <3>3 DEF Benefit
      <4> QED BY <2>1, <3>3, <4>1
    <3> QED BY <2>2, <3>1, <3>2, <3>3
  <2>5. rows'[u] = new
    BY <1>1, <1>2, <2>3
  <2>6. /\ Money(r, rows[r]) = rows[u].balance + rows[u].commission
        /\ Money(r, rows[r])' = new.balance + new.commission
        /\ Uses(r) = 0 /\ Uses(r)' = 0
    BY <1>1, <1>5, <2>5, UsesOf, UsesAfter DEF Money
  <2>7. due'[u] = due[u] + IF CardInfo[c].type = "balance" THEN CardInfo[c].value ELSE 0
    BY <1>2, <1>3
  <2>8. ASSUME r \notin raced PROVE rows[u].balance + rows[u].commission = due[r]
    BY <1>1, <1>2, <1>4, <1>5, <2>1, <2>6, <2>8 DEF LedgerAt
  <2>9. ASSUME r \notin raced PROVE (new.balance + new.commission) + 0 = due'[r]
    BY <1>2, <1>5, <2>1, <2>2, <2>4, <2>7, <2>8, <2>9
  <2> QED BY <1>3, <1>5, <2>6, <2>9 DEF LedgerAt
<1>6. CASE r = c
  <2>1. rows[c].left \in Int /\ due[c] \in Int
    BY <1>1, <1>2, RowColumns
  <2>2. rows'[c] = [left |-> rows[c].left - 1, names |-> rows[c].names \cup {u}]
    BY <1>1, <1>2
  <2>3. /\ Money(r, rows[r]) = rows[c].left /\ Money(r, rows[r])' = rows[c].left - 1
        /\ due'[r] = due[r]
    BY <1>1, <1>2, <1>3, <1>6, <2>2 DEF Money
  <2>4. Uses(r) \in Nat /\ Uses(r)' = Uses(r) + 1
    BY <1>1, <1>3, <1>6, OneMoreUse
  <2>5. ASSUME r \notin raced PROVE rows[c].left + Uses(r) = due[r]
    BY <1>1, <1>4, <1>6, <2>3, <2>5 DEF LedgerAt
  <2>6. ASSUME r \notin raced PROVE (rows[c].left - 1) + (Uses(r) + 1) = due[r]
    BY <1>6, <2>1, <2>4, <2>5, <2>6
  <2>7. ASSUME r \notin raced PROVE Money(r, rows[r])' + Uses(r)' = due'[r]
    BY <2>3, <2>4, <2>6, <2>7
  <2> QED BY <1>3, <2>7 DEF LedgerAt
<1>7. CASE r # u /\ r # c
  <2>1. rows'[r] = rows[r] /\ due'[r] = due[r]
    BY <1>1, <1>2, <1>3, <1>7
  <2>2. Uses(r)' = Uses(r)
    BY <1>1, <1>3, <1>7, OneMoreUse, UsesOf, UsesAfter DEF Rows
  <2> QED BY <1>3, <1>4, <2>1, <2>2, LedgerKept
<1> QED BY <1>5, <1>6, <1>7

\* A step that redeems nothing and consumes no coupon leaves the uses alone.
LEMMA UsesKept ==
  ASSUME NEW r \in Rows, UNCHANGED redeemed, r \in Coupons => consumed'[r] = consumed[r]
  PROVE  Uses(r)' = Uses(r)
<1> QED BY UsesOf, UsesAfter DEF Rows

\* An opening moves the user's balance, and a use from the coupon's limit.
LEMMA OpenBalances ==
  ASSUME WInv, Ledger, NEW s \in Sessions, OpenCommit(s), NEW r \in Rows
  PROVE  LedgerAt(r)'
<1> DEFINE t == tx[s]
           u == t.user
           user == rows[u]
           k == t.buy.coupon
<1>1. /\ u \in Users /\ u \in Rows /\ Exists(u) /\ RowOK(u, user) /\ Locking(t)
      /\ UNCHANGED <<redeemed, raced>>
  BY OpenWrites DEF Rows, OpenCommit
<1>2. /\ DOMAIN rows = Rows /\ due \in [Rows -> Int] /\ consumed \in [Coupons -> Nat]
      /\ Users \cap Coupons = {} /\ None \notin Rows /\ Cards \cap Coupons = {}
  BY WalletsAssumption DEF WInv, RowsOK
<1>3. /\ user.balance \in Int /\ user.commission \in Int
      /\ DOMAIN user = {"balance", "commission", "plan", "expired"}
  BY <1>1, RowColumns
<1>4. LedgerAt(r)
  BY DEF Ledger, LedgerAt
<1>5. ASSUME r = u, NEW new, NEW n \in Int, rows'[r] = new, new.balance = user.balance + n,
             new.commission = user.commission, due'[r] = due[r] + n
      PROVE  LedgerAt(r)'
  <2>1. /\ Money(r, rows[r]) = user.balance + user.commission
        /\ Money(r, rows[r])' = new.balance + new.commission
        /\ Uses(r) = 0 /\ Uses(r)' = 0
    BY <1>1, <1>5, UsesOf, UsesAfter DEF Money
  <2>2. ASSUME r \notin raced PROVE user.balance + user.commission = due[r]
    BY <1>1, <1>3, <1>4, <1>5, <2>1, <2>2 DEF LedgerAt
  <2>3. ASSUME r \notin raced PROVE (new.balance + new.commission) + 0 = due'[r]
    BY <1>2, <1>3, <1>5, <2>2, <2>3
  <2> QED BY <1>1, <2>1, <2>3 DEF LedgerAt
<1>6. CASE t.op = "deposit"
  <2>1. /\ t.amount \in Nat /\ UNCHANGED consumed
        /\ rows' = [rows EXCEPT ![u] = [user EXCEPT !.balance = @ + t.amount]]
        /\ due' = [due EXCEPT ![u] = @ + t.amount]
    BY <1>6, OpenWrites
  <2>2. CASE r = u
    <3>1. PICK new : new = [user EXCEPT !.balance = @ + t.amount] /\ rows'[u] = new
      BY <1>1, <1>2, <2>1
    <3>2. new.balance = user.balance + t.amount /\ new.commission = user.commission
      BY <1>3, <3>1
    <3>3. due'[r] = due[r] + t.amount /\ rows'[r] = new /\ t.amount \in Int
      BY <1>1, <1>2, <2>1, <2>2, <3>1
    <3> QED BY <1>5, <2>2, <3>2, <3>3
  <2>3. CASE r # u
    <3>1. rows'[r] = rows[r] /\ due'[r] = due[r] /\ Uses(r)' = Uses(r)
      BY <1>1, <1>2, <2>1, <2>3, UsesKept
    <3> QED BY <1>1, <1>4, <3>1, LedgerKept
  <2> QED BY <2>2, <2>3
<1>7. CASE t.op = "purchase"
  <2>1. /\ t.buy \in Purchases
        /\ k # None => k \in Coupons /\ Exists(k) /\ RowOK(k, rows[k])
        /\ rows' = [x \in Rows |->
             CASE x = u -> [user EXCEPT !.balance = @ - t.buy.price,
                                        !.plan = t.buy.plan,
                                        !.expired = Later(user.expired, now) + t.buy.ticks]
               [] x = k -> [left |-> rows[k].left - 1]
               [] OTHER -> rows[x]]
        /\ due' = [due EXCEPT ![u] = @ - t.buy.price]
        /\ consumed' = [x \in Coupons |-> consumed[x] + IF x = k THEN 1 ELSE 0]
    BY <1>7, OpenWrites
  <2>2. t.buy.price \in Nat
    BY <2>1, WalletsAssumption
  <2>3. PICK new, used : /\ new = [user EXCEPT !.balance = @ - t.buy.price,
                                            !.plan = t.buy.plan,
                                            !.expired = Later(user.expired, now) + t.buy.ticks]
                         /\ used = [left |-> rows[k].left - 1]
    OBVIOUS
  <2>4. /\ rows'[u] = new
        /\ \A x \in Rows : x # u => rows'[x] = IF x = k THEN used ELSE rows[x]
    <3>1. rows' = [x \in Rows |-> CASE x = u -> new [] x = k -> used [] OTHER -> rows[x]]
      BY <2>1, <2>3
    <3>2. k # None => k # u
      BY <1>1, <1>2, <2>1
    <3> QED BY <1>1, <1>2, <3>1, <3>2
  <2>5. CASE r = u
    <3>1. new.balance = user.balance + (-t.buy.price) /\ new.commission = user.commission
      BY <1>3, <2>2, <2>3
    <3>2. due'[u] = due[u] + (-t.buy.price) /\ -t.buy.price \in Int
      BY <1>1, <1>2, <2>1, <2>2
    <3> QED BY <1>5, <2>4, <2>5, <3>1, <3>2
  <2>6. CASE r = k /\ r # u
    <3>1. k \in Coupons /\ k \notin Users /\ k \notin Cards /\ Exists(k) /\ RowOK(k, rows[k])
      BY <1>2, <2>1, <2>6
    <3>2. rows[k].left \in Int /\ due[k] \in Int /\ consumed[k] \in Nat
      BY <1>2, <2>6, <3>1, RowColumns
    <3>3. rows'[r] = used /\ used.left = rows[k].left - 1
      BY <2>3, <2>4, <2>6
    <3>4. Uses(r) = consumed[r] /\ Uses(r)' = consumed'[r] /\ consumed'[r] = consumed[r] + 1
      BY <2>1, <2>6, <3>1, UsesOf, UsesAfter
    <3>5. due'[r] = due[r]
      BY <1>2, <2>1, <2>6
    <3>6. Money(r, rows[r]) = rows[k].left /\ Money(r, rows[r])' = rows[k].left - 1
      BY <2>6, <3>1, <3>3 DEF Money
    <3>7. ASSUME r \notin raced PROVE rows[k].left + consumed[r] = due[r]
      BY <1>4, <2>6, <3>1, <3>4, <3>6, <3>7 DEF LedgerAt
    <3>8. ASSUME r \notin raced PROVE (rows[k].left - 1) + (consumed[r] + 1) = due[r]
      BY <2>6, <3>2, <3>7, <3>8
    <3> QED BY <1>1, <2>6, <3>4, <3>5, <3>6, <3>8 DEF LedgerAt
  <2>7. CASE r # k /\ r # u
    <3>1. rows'[r] = rows[r] /\ due'[r] = due[r]
      BY <1>1, <1>2, <2>1, <2>4, <2>7
    <3>2. r \in Coupons => consumed'[r] = consumed[r]
      BY <1>2, <2>1, <2>7
    <3>3. Uses(r)' = Uses(r)
      BY <1>1, <3>2, UsesKept
    <3> QED BY <1>1, <1>4, <3>1, <3>3, LedgerKept
  <2> QED BY <2>5, <2>6, <2>7
<1> QED BY <1>6, <1>7, OpenWrites

\* An edit that finds the columns as they were when it was decided moves the
\* row by as much as the decision did.
LEMMA EditBalances ==
  ASSUME WInv, Ledger, NEW s \in Sessions, EditCommit(s), NEW q \in Rows
  PROVE  LedgerAt(q)'
<1> PICK t, r, row : t = tx[s] /\ r = t.row /\ row = rows[r]
  OBVIOUS
<1> PICK new, basis, next : /\ new = Written(row, t.columns) /\ basis = Written(row, t.basis)
                            /\ next = Written(basis, t.columns)
  OBVIOUS
<1>1. /\ r \in Rows /\ Exists(r) /\ RowOK(r, row)
      /\ ColumnsOK(r, t.columns) /\ ColumnsOK(r, t.basis)
      /\ rows' = [rows EXCEPT ![r] = new]
  BY EditWrites
<1>2. /\ due' = [due EXCEPT ![r] = @ + Money(r, next) - Money(r, basis)]
      /\ raced' = IF \E x \in DOMAIN t.columns : row[x] # basis[x]
                  THEN raced \cup {r} ELSE raced
      /\ UNCHANGED <<redeemed, consumed>>
  BY DEF EditCommit
<1>3. DOMAIN rows = Rows /\ due \in [Rows -> Int]
  BY DEF WInv, RowsOK
<1>4. LedgerAt(q) /\ LedgerAt(r) /\ Uses(q)' = Uses(q)
  BY <1>1, <1>2, UsesKept DEF Ledger, LedgerAt
<1>5. CASE q # r
  BY <1>1, <1>2, <1>3, <1>4, <1>5, LedgerKept
<1>6. CASE q = r
  <2> SUFFICES ASSUME r \notin raced' PROVE Money(r, new) + Uses(r) = due'[r]
    <3>1. rows'[r] = new /\ (Money(r, rows[r])' = Money(r, new))
      BY <1>1, <1>3 DEF Money
    <3> QED BY <1>4, <1>6, <3>1 DEF LedgerAt
  <2>1. r \notin raced /\ \A x \in DOMAIN t.columns : row[x] = basis[x]
    BY <1>2
  <2>2. Money(r, row) + Uses(r) = due[r]
    BY <1>1, <1>4, <2>1 DEF LedgerAt
  <2>3. /\ DOMAIN new = DOMAIN row /\ DOMAIN next = DOMAIN row /\ DOMAIN basis = DOMAIN row
        /\ \A x \in DOMAIN row :
             \/ next[x] = new[x] /\ basis[x] = row[x]
             \/ next[x] = basis[x] /\ new[x] = row[x]
    BY <2>1 DEF Written
  <2>4. RowOK(r, new) /\ RowOK(r, basis) /\ RowOK(r, next)
    BY <1>1, WrittenType
  <2>5. Money(r, new) - Money(r, row) = Money(r, next) - Money(r, basis)
    <3>1. CASE r \in Users
      <4>1. /\ row.balance \in Int /\ row.commission \in Int /\ new.balance \in Int
            /\ new.commission \in Int /\ basis.balance \in Int /\ basis.commission \in Int
            /\ next.balance \in Int /\ next.commission \in Int
            /\ DOMAIN row = {"balance", "commission", "plan", "expired"}
        BY <1>1, <2>4, <3>1, RowColumns
      <4>2. /\ new.balance - row.balance = next.balance - basis.balance
            /\ new.commission - row.commission = next.commission - basis.commission
        BY <2>3, <4>1
      <4>3. (new.balance + new.commission) - (row.balance + row.commission)
              = (next.balance + next.commission) - (basis.balance + basis.commission)
        BY <4>1, <4>2
      <4> QED BY <3>1, <4>3 DEF Money
    <3>2. CASE r \notin Users
      <4>1. /\ row.left \in Int /\ new.left \in Int /\ basis.left \in Int /\ next.left \in Int
            /\ "left" \in DOMAIN row
        BY <1>1, <2>4, <3>2, RowColumns DEF Rows
      <4>2. new.left - row.left = next.left - basis.left
        BY <2>3, <4>1
      <4> QED BY <3>2, <4>2 DEF Money
    <3> QED BY <3>1, <3>2
  <2>6. /\ Money(r, new) \in Int /\ Money(r, row) \in Int /\ Money(r, next) \in Int
        /\ Money(r, basis) \in Int
    BY <1>1, <2>4, MoneyType
  <2>7. Uses(r) \in Int
    <3>1. IsFiniteSet({u \in Users : <<r, u>> \in redeemed})
      BY WalletsAssumption, FS_Subset
    <3>2. Cardinality({u \in Users : <<r, u>> \in redeemed}) \in Nat
      BY <3>1, FS_CardinalityType
    <3>3. consumed \in [Coupons -> Nat]
      BY DEF WInv, RowsOK
    <3> QED BY <1>1, <3>2, <3>3, UsesOf DEF Rows
  <2>8. due'[r] = due[r] + Money(r, next) - Money(r, basis) /\ due[r] \in Int
    BY <1>1, <1>2, <1>3
  <2> QED BY <2>2, <2>5, <2>6, <2>7, <2>8
<1> QED BY <1>5, <1>6

\* services/giftcard.py, order.py and the administrator's forms: what a user
\* holds and what is left of a card or coupon is what the operations add up
\* to, but for the rows that an unlocked write took back to an older value.
THEOREM WalletsAddUp == Spec => []Ledger
<1>1. Init => Ledger
  <2> SUFFICES ASSUME Init, NEW r \in Rows PROVE Money(r, rows[r]) + Uses(r) = due[r]
    BY DEF Ledger
  <2>1. Money(r, rows[r]) = due[r] /\ due[r] \in Int
    <3>1. RowOK(r, StartRows[r])
      BY WalletsAssumption DEF RowOK, ColumnsOK
    <3> QED BY <3>1, MoneyType DEF Init
  <2>2. Uses(r) = 0
    <3>1. {u \in Users : <<r, u>> \in redeemed} = {}
      BY DEF Init
    <3>2. Cardinality({u \in Users : <<r, u>> \in redeemed}) = 0
      BY <3>1, FS_EmptySet
    <3> QED BY <3>2, UsesOf DEF Init, Rows
  <2> QED BY <2>1, <2>2
<1>2. WInv /\ Ledger /\ [Next]_walletVars => Ledger'
  <2> SUFFICES ASSUME WInv, Ledger, [Next]_walletVars, NEW r \in Rows PROVE LedgerAt(r)'
    BY DEF Ledger, LedgerAt
  <2>1. LedgerAt(r) /\ DOMAIN rows = Rows
    BY DEF Ledger, LedgerAt, WInv, RowsOK
  <2>2. ASSUME UNCHANGED <<redeemed, history>>, rows'[r] = rows[r] PROVE LedgerAt(r)'
    BY <2>1, <2>2, UsesKept, LedgerKept DEF history
  <2>3. CASE Outside
    <3>1. ASSUME NEW u \in Users, DeleteUser(u) PROVE LedgerAt(r)'
      <4>1. CASE u = r
        <5>1. rows'[r] = None
          BY <2>1, <3>1, <4>1 DEF DeleteUser
        <5> QED BY <5>1 DEF LedgerAt, Exists
      <4>2. CASE u # r
        BY <2>1, <2>2, <3>1, <4>2 DEF DeleteUser
      <4> QED BY <4>1, <4>2
    <3> QED BY <2>2, <2>3, <3>1 DEF Outside, OpenForm, Tick, walletVars, history
  <2>4. ASSUME NEW s \in Sessions, Steps(s) PROVE LedgerAt(r)'
    BY <2>2, <2>4, RedeemBalances, OpenBalances, EditBalances DEF Steps, Redeem, OpenDeposit,
       OpenPurchase, TransferCommission, CreditCommission, Edit, Start, SubmitForm, LockNext,
       RollBack
  <2> QED BY <2>3, <2>4, NextSteps
<1> QED BY <1>1, <1>2, WInvHolds, PTL DEF Spec
=============================================================================
