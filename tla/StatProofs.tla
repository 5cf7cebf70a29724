------------------------------ MODULE StatProofs ------------------------------
(***************************************************************************)
(* Theorems about StatRecords for any number of users, nodes, reports,     *)
(* jobs at a time and days.                                                *)
(***************************************************************************)
EXTENDS StatRecords, SumTheorems

(***************************************************************************)
(* The inductive invariant.  Every row of a record has a share of what was *)
(* to be added to the record; no row holds more than its share, and nobody *)
(* remembers more of it.  While only one transaction at a time works on a  *)
(* record there is one row, and what the transaction remembers is true.    *)
(***************************************************************************)
Entry == [sum : Nat, made : Days]

RowsOK ==
  /\ rows \in [StatKeys -> [Days -> Seq(Entry)]]
  /\ written \in [StatKeys -> [Days -> Nat]]
  /\ \A key \in StatKeys, d \in Days : \A i \in DOMAIN rows[key][d] : rows[key][d][i].made >= d

\* A runner adds to the records of its report, on the day it began or later.
Adding(c) ==
  /\ c.report \in Reports /\ c.at \in 0..today
  /\ c.seen # <<>> =>
       /\ DOMAIN c.seen = DOMAIN Additions(c.step, c.report) /\ c.made \in c.at..today
       /\ \A key \in DOMAIN c.seen :
            /\ c.seen[key] = <<c.seen[key][1], c.seen[key][2]>>
            /\ c.seen[key][1] \in 0..Len(rows[key][c.at]) /\ c.seen[key][2] \in Nat
            /\ c.seen[key][1] = 0 => c.seen[key][2] = 0

RunnerOK(c) ==
  /\ c = [step |-> c.step, report |-> c.report, at |-> c.at, made |-> c.made, seen |-> c.seen]
  /\ c.step \in Kinds \cup {"idle", "aggregate"}
  /\ c.step \in Kinds => Adding(c)

Sums(list) == [i \in DOMAIN list |-> list[i].sum]
Kept(key, d) == Total(Sums(rows[key][d]))

\* Runner r works on the record of the day.
Works(r, key, d) == run[r].step \in Kinds /\ run[r].at = d /\ key \in DOMAIN run[r].seen

\* The shares of the rows of a record.
SharesOK(share, key, d) ==
  /\ share \in [1..Len(rows[key][d]) -> Nat] /\ SumFunctionOnSet(share, 1..Len(rows[key][d])) = written[key][d]
  /\ \A i \in 1..Len(rows[key][d]) : rows[key][d][i].sum <= share[i]
  /\ \A r \in Runners : Works(r, key, d) /\ run[r].seen[key][1] # 0 => run[r].seen[key][2] <= share[run[r].seen[key][1]]

Shared(key, d) == \E share : SharesOK(share, key, d)

\* A record that no two transactions worked on at the same time.
Alone(key, d) ==
  <<key, d>> \notin overlapped =>
    /\ Len(rows[key][d]) <= 1 /\ Kept(key, d) = written[key][d]
    /\ \A r \in Runners : Works(r, key, d) => run[r].seen[key] = <<Len(rows[key][d]), Kept(key, d)>>
    /\ \A r, q \in Runners : Works(r, key, d) /\ Works(q, key, d) => r = q

RecordInv ==
  /\ today \in Days /\ RowsOK
  /\ DOMAIN run = Runners /\ \A r \in Runners : RunnerOK(run[r])
  /\ \A key \in StatKeys, d \in Days : Shared(key, d) /\ Alone(key, d)

AllReported == Total([n \in Nodes |-> Total([d \in Days |-> written[<<"stat_server", n>>][d]])])

\* A sum of the day, taken when nothing of it was open.
Final(d, sum) ==
  /\ d \in Days /\ d < today /\ sum \in Nat /\ sum <= AllReported
  /\ d \notin late => sum = TransferUsed(d) /\ ~StillOpen(d)

AggregateInv ==
  /\ DOMAIN stat = Days
  /\ \A d \in Days : stat[d] # None => Final(d, stat[d])
  /\ \A r \in Runners : run[r].step = "aggregate" => Final(run[r].at, run[r].seen[1])

\* The records a job adds to.
LEMMA AdditionsAt ==
  ASSUME NEW kind \in Kinds, NEW p \in Reports, NEW more, more = Additions(kind, p)
  PROVE  /\ DOMAIN more \subseteq StatKeys /\ DOMAIN more # {}
         /\ \A key \in DOMAIN more : more[key] \in Nat
         /\ kind # "stat_server" => \A n \in Nodes : <<"stat_server", n>> \notin DOMAIN more
<1>1. PICK load, node : load = Report[p].load /\ node = Report[p].node
  OBVIOUS
<1>2. node \in Nodes /\ load \in [DOMAIN load -> Nat] /\ DOMAIN load \subseteq Users /\ DOMAIN load # {} /\ IsFiniteSet(DOMAIN load)
  BY <1>1, StatAssumption, FS_Subset
<1>3. CASE kind = "stat_user"
  <2>1. more = [key \in {<<"stat_user", u, Rate[node]>> : u \in DOMAIN load} |-> load[key[2]]]
    BY <1>1, <1>3 DEF Additions
  <2>2. \A u \in DOMAIN load : <<"stat_user", u, Rate[node]>> \in StatKeys
    BY <1>2 DEF StatKeys
  <2>3. ASSUME NEW key \in DOMAIN more PROVE more[key] \in Nat
    <3>1. PICK u \in DOMAIN load : key = <<"stat_user", u, Rate[node]>>
      BY <2>1
    <3>2. more[key] = load[u]
      BY <2>1, <3>1
    <3> QED BY <1>2, <3>2
  <2>4. \A n, u, x : <<"stat_server", n>> # <<"stat_user", u, x>>
    OBVIOUS
  <2> QED BY <1>2, <2>1, <2>2, <2>3, <2>4
<1>4. CASE kind = "stat_server"
  <2>1. more = [key \in {<<"stat_server", node>>} |-> Total(load)]
    BY <1>1, <1>4 DEF Additions
  <2>2. Total(load) \in Nat
    BY <1>2, SumFunctionType DEF Total
  <2>3. <<"stat_server", node>> \in StatKeys
    BY <1>2 DEF StatKeys
  <2> QED BY <1>4, <2>1, <2>2, <2>3
<1> QED BY <1>3, <1>4 DEF Kinds

\* The sums of a list of rows.
LEMMA SumsAt ==
  ASSUME NEW list \in Seq(Entry)
  PROVE  /\ IsFiniteSet(1..Len(list)) /\ Len(list) \in Nat
         /\ Sums(list) \in [1..Len(list) -> Nat] /\ \A i \in 1..Len(list) : Sums(list)[i] = list[i].sum /\ list[i] \in Entry
         /\ Total(Sums(list)) = SumFunctionOnSet(Sums(list), 1..Len(list))
         /\ Total(Sums(list)) \in Nat
<1>1. Len(list) \in Nat /\ DOMAIN list = 1..Len(list) /\ \A i \in 1..Len(list) : list[i] \in Entry
  OBVIOUS
<1>2. IsFiniteSet(1..Len(list))
  BY <1>1, FS_Interval
<1>3. Sums(list) \in [1..Len(list) -> Nat] /\ \A i \in 1..Len(list) : Sums(list)[i] = list[i].sum
  BY <1>1 DEF Sums, Entry
<1>4. DOMAIN Sums(list) = 1..Len(list)
  BY <1>1 DEF Sums
<1>5. Total(Sums(list)) = SumFunctionOnSet(Sums(list), 1..Len(list))
  BY <1>4 DEF Total, SumFunction
<1>6. Total(Sums(list)) \in Nat
  BY <1>2, <1>3, <1>5, SumType
<1> QED BY <1>1, <1>2, <1>3, <1>5, <1>6

\* Of no row, and of one.
LEMMA SumsShort ==
  ASSUME NEW list \in Seq(Entry)
  PROVE  /\ Len(list) = 0 => Total(Sums(list)) = 0
         /\ Len(list) = 1 => Total(Sums(list)) = list[1].sum
<1>1. CASE Len(list) = 0
  <2>1. 1..Len(list) = {}
    BY <1>1
  <2>2. Total(Sums(list)) = SumFunctionOnSet(Sums(list), {})
    BY <2>1, SumsAt
  <2>3. SumFunctionOnSet(Sums(list), {}) = 0
    BY SumEmpty
  <2> QED BY <1>1, <2>2, <2>3
<1>2. CASE Len(list) = 1
  <2>1. 1..Len(list) = {1} /\ 1 \in 1..Len(list)
    BY <1>2
  <2>2. Sums(list)[1] = list[1].sum /\ Sums(list)[1] \in Nat /\ IsFiniteSet({1})
    BY <2>1, SumsAt
  <2>3. PICK rest : rest = {1} \ {1} /\ rest = {}
    OBVIOUS
  <2>4. SumFunctionOnSet(Sums(list), {1}) = Sums(list)[1] + SumFunctionOnSet(Sums(list), rest)
    BY <2>2, <2>3, SumRemove
  <2>6. SumFunctionOnSet(Sums(list), rest) = 0
    BY <2>3, SumEmpty
  <2>5. SumFunctionOnSet(Sums(list), {1}) = Sums(list)[1]
    BY <2>2, <2>4, <2>6
  <2> QED BY <1>2, <2>1, <2>2, <2>5, SumsAt
<1> QED BY <1>1, <1>2

\* The rows have shares, and the new row no more than the one it is stored in and
\* what is added.
Fits(list, i, row, share, x) ==
  /\ list \in Seq(Entry) /\ i \in 0..Len(list) /\ row \in Entry /\ x \in Nat
  /\ share \in [1..Len(list) -> Nat] /\ \A j \in 1..Len(list) : list[j].sum <= share[j]
  /\ (i = 0 => row.sum = x) /\ (i # 0 => row.sum <= share[i] + x)

\* The shares of the rows after it, of which none is smaller.
Grown(more, share, list, new, x) ==
  /\ more \in [1..Len(new) -> Nat]
  /\ SumFunctionOnSet(more, 1..Len(new)) = SumFunctionOnSet(share, 1..Len(list)) + x
  /\ \A j \in 1..Len(new) : new[j].sum <= more[j]
  /\ \A j \in 1..Len(list) : share[j] <= more[j]

\* A write keeps the shares: the row's grows by what is added.
LEMMA SharesGrow ==
  ASSUME NEW list, NEW i, NEW row, NEW new, NEW share, NEW x, Fits(list, i, row, share, x), new = Stored(list, i, row)
  PROVE  \E more : Grown(more, share, list, new, x)
<1>0. PICK a \in Nat : a = x
  BY DEF Fits
<1>a. /\ list \in Seq(Entry) /\ i \in 0..Len(list) /\ row \in Entry
      /\ share \in [1..Len(list) -> Nat] /\ \A j \in 1..Len(list) : list[j].sum <= share[j]
      /\ (i = 0 => row.sum = a) /\ (i # 0 => row.sum <= share[i] + a)
  BY <1>0 DEF Fits
<1> USE <1>a
<1>1. PICK k, n, m : k = (IF i = 0 THEN Len(list) + 1 ELSE i) /\ n = Len(list) /\ m = Len(new)
  OBVIOUS
<1>2. /\ new \in Seq(Entry) /\ m = (IF i = 0 THEN n + 1 ELSE n) /\ k \in 1..m /\ new[k].sum = row.sum
      /\ \A j \in 1..m : j # k => j \in 1..n /\ new[j] = list[j]
  <2>1. CASE i = 0
    <3>1. new = Append(list, row)
      BY <2>1 DEF Stored
    <3>2. new \in Seq(Entry) /\ Len(new) = Len(list) + 1 /\ \A j \in 1..Len(list) : new[j] = list[j]
      BY <3>1
    <3>3. new[Len(list) + 1] = row
      BY <3>1
    <3>4. m = n + 1 /\ k = n + 1 /\ new[k] = row /\ n \in Nat
      BY <1>1, <2>1, <3>2, <3>3
    <3>5. \A j \in 1..m : j # k => j \in 1..n /\ new[j] = list[j]
      BY <1>1, <3>2, <3>4
    <3> QED BY <2>1, <3>2, <3>4, <3>5
  <2>2. CASE i # 0
    <3>1. PICK old : old = [sum |-> row.sum, made |-> list[i].made]
      OBVIOUS
    <3>2. i \in 1..Len(list) /\ list[i] \in Entry
      BY <2>2
    <3>3. old \in Entry /\ old.sum = row.sum
      BY <3>1, <3>2 DEF Entry
    <3>4. new = [list EXCEPT ![i] = old]
      BY <2>2, <3>1 DEF Stored
    <3> QED BY <1>1, <2>2, <3>2, <3>3, <3>4
  <2> QED BY <2>1, <2>2
<1>3. n \in Nat /\ m \in Nat /\ IsFiniteSet(1..n) /\ IsFiniteSet(1..m)
  <2>1. n \in Nat /\ m \in Nat
    BY <1>1, <1>2
  <2>2. 1 \in Int /\ n \in Int /\ m \in Int
    BY <2>1
  <2> QED BY <2>1, <2>2, FS_Interval
<1>4. PICK more : more = [j \in 1..m |-> IF j = k THEN (IF i = 0 THEN 0 ELSE share[i]) + a ELSE share[j]]
  OBVIOUS
<1>5. more \in [1..m -> Nat] /\ more[k] = (IF i = 0 THEN 0 ELSE share[i]) + a /\ \A j \in 1..m : j # k => more[j] = share[j]
  BY <1>1, <1>2, <1>4
<1>6. \A j \in 1..m : new[j].sum <= more[j]
  <2>1. ASSUME NEW j \in 1..m, j # k PROVE new[j].sum <= more[j]
    BY <1>1, <1>2, <1>5, <2>1
  <2>2. new[k].sum <= more[k]
    <3>1. row.sum \in Nat
      BY DEF Entry
    <3>2. CASE i = 0
      BY <1>0, <1>2, <1>5, <3>1, <3>2
    <3>3. CASE i # 0
      BY <1>0, <1>2, <1>5, <3>3
    <3> QED BY <3>2, <3>3
  <2> QED BY <2>1, <2>2
<1>7. \A j \in 1..n : share[j] <= more[j]
  <2> SUFFICES ASSUME NEW j \in 1..n PROVE share[j] <= more[j]
    OBVIOUS
  <2>1. share[j] \in Nat /\ j \in 1..m
    BY <1>1, <1>2, <1>3
  <2>2. CASE j # k
    BY <1>5, <2>1, <2>2
  <2>3. CASE j = k
    <3>1. i # 0 /\ i = j
      BY <1>1, <2>3
    <3>2. more[j] = share[j] + a
      BY <1>5, <2>3, <3>1
    <3> QED BY <2>1, <3>2
  <2> QED BY <2>2, <2>3
<1>8. SumFunctionOnSet(more, 1..m) = SumFunctionOnSet(share, 1..n) + a
  <2>0. PICK N, M : N = 1..n /\ M = 1..m
    OBVIOUS
  <2>1. /\ IsFiniteSet(N) /\ IsFiniteSet(M) /\ k \in M
        /\ \A j \in N : share[j] \in Nat
        /\ \A j \in M : more[j] \in Nat /\ (j # k => more[j] = share[j])
    BY <1>1, <1>2, <1>3, <1>5, <2>0
  <2>2. SumFunctionOnSet(share, N) \in Nat
    BY <2>1, SumType
  <2>3. CASE i = 0
    <3>1. M = N \cup {k} /\ k \notin N /\ more[k] = a
      BY <1>1, <1>2, <1>3, <1>5, <2>0, <2>3
    <3>2. SumFunctionOnSet(more, M) = more[k] + SumFunctionOnSet(more, N)
      BY <2>1, <3>1, SumAdd
    <3>3. SumFunctionOnSet(more, N) = SumFunctionOnSet(share, N)
      BY <2>1, <3>1, SumSame
    <3> QED BY <2>0, <2>2, <3>1, <3>2, <3>3
  <2>4. CASE i # 0
    <3>1. M = N /\ k \in N /\ more[k] = share[k] + a /\ share[k] \in Nat
      BY <1>1, <1>2, <1>5, <2>0, <2>1, <2>4
    <3>2. PICK R, b, c, d : R = N \ {k} /\ b = SumFunctionOnSet(share, R) /\ c = SumFunctionOnSet(share, N) /\ d = share[k]
      OBVIOUS
    <3>3. IsFiniteSet(R) /\ \A j \in R : share[j] \in Nat /\ more[j] = share[j]
      BY <2>1, <3>1, <3>2, FS_RemoveElement
    <3>5. SumFunctionOnSet(more, N) = more[k] + SumFunctionOnSet(more, R)
      BY <2>1, <3>1, <3>2, SumRemove
    <3>6. SumFunctionOnSet(share, N) = share[k] + SumFunctionOnSet(share, R)
      BY <2>1, <3>1, <3>2, SumRemove
    <3>7. SumFunctionOnSet(more, R) = SumFunctionOnSet(share, R)
      BY <3>3, SumSame
    <3>8. b \in Nat
      BY <3>2, <3>3, SumType
    <3>9. d \in Nat /\ c = d + b
      BY <3>1, <3>2, <3>6
    <3>10. (d + a) + b = c + a
      BY <3>8, <3>9
    <3>4. SumFunctionOnSet(more, N) = SumFunctionOnSet(share, N) + a
      BY <3>1, <3>2, <3>5, <3>7, <3>10
    <3> QED BY <2>0, <3>1, <3>4
  <2> QED BY <2>3, <2>4
<1> QED BY <1>0, <1>1, <1>5, <1>6, <1>7, <1>8 DEF Grown

\* What a write does to the number of rows and their times.
LEMMA RowsGrow ==
  ASSUME NEW list \in Seq(Entry), NEW i \in 0..Len(list), NEW row \in Entry, NEW new, new = Stored(list, i, row),
         NEW d \in Nat, row.made >= d, \A j \in DOMAIN list : list[j].made >= d
  PROVE  /\ new \in Seq(Entry) /\ Len(new) >= Len(list) /\ Len(new) # 0
         /\ \A j \in DOMAIN new : new[j].made >= d
<1>1. CASE i = 0
  <2>1. new = Append(list, row)
    BY <1>1 DEF Stored
  <2> QED BY <2>1
<1>2. CASE i # 0
  <2>1. PICK old : old = [sum |-> row.sum, made |-> list[i].made]
    OBVIOUS
  <2>2. i \in 1..Len(list) /\ list[i] \in Entry /\ list[i].made >= d
    BY <1>2
  <2>3. old \in Entry /\ old.made >= d
    BY <2>1, <2>2 DEF Entry
  <2>4. new = [list EXCEPT ![i] = old]
    BY <1>2, <2>1 DEF Stored
  <2> QED BY <1>2, <2>2, <2>3, <2>4
<1> QED BY <1>1, <1>2

\* A record that is one row, or none, is one row after the write.
LEMMA OneRow ==
  ASSUME NEW list \in Seq(Entry), Len(list) <= 1, NEW row \in Entry, NEW new, new = Stored(list, Len(list), row)
  PROVE  Len(new) = 1 /\ Total(Sums(new)) = row.sum
<1>1. new \in Seq(Entry) /\ Len(new) = 1 /\ new[1].sum = row.sum
  <2>1. CASE Len(list) = 0
    <3>1. new = Append(list, row)
      BY <2>1 DEF Stored
    <3>5. new \in Seq(Entry) /\ Len(new) = Len(list) + 1
      BY <3>1
    <3>2. new \in Seq(Entry) /\ Len(new) = 1
      BY <2>1, <3>5
    <3>3. new[Len(list) + 1] = row
      BY <3>1
    <3>4. new[1] = row
      BY <2>1, <3>3
    <3> QED BY <3>2, <3>4
  <2>2. CASE Len(list) = 1
    <3>1. PICK old : old = [sum |-> row.sum, made |-> list[1].made]
      OBVIOUS
    <3>2. list[1] \in Entry
      BY <2>2
    <3>3. old \in Entry /\ old.sum = row.sum
      BY <3>1, <3>2 DEF Entry
    <3>4. new = [list EXCEPT ![1] = old]
      BY <2>2, <3>1 DEF Stored
    <3>7. new \in Seq(Entry) /\ Len(new) = Len(list)
      <4>1. PICK i \in 1..Len(list) : i = 1
        BY <2>2
      <4>2. new = [list EXCEPT ![i] = old]
        BY <3>4, <4>1
      <4> QED BY <3>3, <4>1, <4>2
    <3>5. new \in Seq(Entry) /\ Len(new) = 1
      BY <2>2, <3>7
    <3>6. new[1] = old
      BY <2>2, <3>4
    <3> QED BY <3>3, <3>5, <3>6
  <2> QED BY <2>1, <2>2
<1> QED BY <1>1, SumsShort

\* The records stay as they are when no row is written and nobody begins to
\* work on one.
LEMMA RecordsRest ==
  ASSUME RecordInv, rows' = rows, written' = written, overlapped' = overlapped,
         \A q \in Runners : \A key, d : Works(q, key, d)' => Works(q, key, d) /\ run'[q] = run[q]
  PROVE  \A key \in StatKeys, d \in Days : Shared(key, d)' /\ Alone(key, d)'
<1> SUFFICES ASSUME NEW key \in StatKeys, NEW d \in Days PROVE Shared(key, d)' /\ Alone(key, d)'
  OBVIOUS
<1>1. Shared(key, d) /\ Alone(key, d)
  BY DEF RecordInv
<1>2. Shared(key, d)'
  <2>1. PICK share : SharesOK(share, key, d)
    BY <1>1 DEF Shared
  <2>2. \A q \in Runners : Works(q, key, d)' /\ run'[q].seen[key][1] # 0 => run'[q].seen[key][2] <= share[run'[q].seen[key][1]]
    BY <2>1 DEF SharesOK
  <2>3. SharesOK(share, key, d)'
    BY <2>1, <2>2 DEF SharesOK
  <2> QED BY <2>3 DEF Shared
<1>3. Alone(key, d)'
  <2>1. Kept(key, d)' = Kept(key, d)
    BY DEF Kept
  <2> SUFFICES ASSUME <<key, d>> \notin overlapped
               PROVE  /\ Len(rows'[key][d]) <= 1 /\ Kept(key, d)' = written'[key][d]
                      /\ \A q \in Runners : Works(q, key, d)' => run'[q].seen[key] = <<Len(rows'[key][d]), Kept(key, d)'>>
                      /\ \A q, p \in Runners : Works(q, key, d)' /\ Works(p, key, d)' => q = p
    BY DEF Alone
  <2>2. /\ Len(rows[key][d]) <= 1 /\ Kept(key, d) = written[key][d]
        /\ \A q \in Runners : Works(q, key, d) => run[q].seen[key] = <<Len(rows[key][d]), Kept(key, d)>>
        /\ \A q, p \in Runners : Works(q, key, d) /\ Works(p, key, d) => q = p
    BY <1>1 DEF Alone
  <2> QED BY <2>1, <2>2
<1> QED BY <1>2, <1>3

\* A step of one runner that neither reads nor writes a record.
LEMMA Rests ==
  ASSUME RecordInv, NEW r \in Runners, NEW c, run' = [run EXCEPT ![r] = c], RunnerOK(c),
         c.step \in Kinds => c.seen = <<>>, UNCHANGED <<today, rows, written, overlapped>>
  PROVE  RecordInv'
<1>1. DOMAIN run' = Runners /\ run'[r] = c /\ \A q \in Runners : q # r => run'[q] = run[q]
  BY DEF RecordInv
<1>2. \A q \in Runners : \A key, d : Works(q, key, d)' => Works(q, key, d) /\ run'[q] = run[q]
  <2> SUFFICES ASSUME NEW q \in Runners, NEW key, NEW d, Works(q, key, d)' PROVE q # r
    BY <1>1 DEF Works
  <2>1. run'[q].step \in Kinds /\ key \in DOMAIN run'[q].seen
    BY DEF Works
  <2>2. DOMAIN <<>> = {}
    OBVIOUS
  <2> QED BY <1>1, <2>1, <2>2
<1>3. \A q \in Runners : RunnerOK(run[q])'
  <2> SUFFICES ASSUME NEW q \in Runners PROVE RunnerOK(run[q])'
    OBVIOUS
  <2>1. PICK e : e = run'[q] /\ RunnerOK(e)
    BY <1>1 DEF RecordInv
  <2>2. RunnerOK(e)'
    BY <2>1 DEF RunnerOK, Adding
  <2> QED BY <2>1, <2>2 DEF RunnerOK, Adding
<1>4. today' \in Days /\ RowsOK'
  BY DEF RecordInv, RowsOK
<1> QED BY <1>1, <1>2, <1>3, <1>4, RecordsRest DEF RecordInv

\* The actions that do so.
LEMMA OthersKeep ==
  ASSUME RecordInv, NEW r \in Runners,
         \/ \E kind \in Kinds, p \in Reports : Start(r, kind, p)
         \/ Fail(r) \/ Aggregate(r) \/ CommitAggregate(r)
  PROVE  RecordInv'
<1>1. UNCHANGED <<today, rows, written, overlapped>>
  BY DEF Start, Fail, Aggregate, CommitAggregate, history
<1>2. RunnerOK(Idle) /\ Idle.step \notin Kinds
  BY DEF RunnerOK, Idle, Transaction, Kinds
<1>3. CASE \E kind \in Kinds, p \in Reports : Start(r, kind, p)
  <2>1. PICK kind \in Kinds, p \in Reports : Start(r, kind, p)
    BY <1>3
  <2>2. PICK c : c = [step |-> kind, report |-> p, at |-> today, made |-> 0, seen |-> <<>>]
    OBVIOUS
  <2>3. run' = [run EXCEPT ![r] = c]
    BY <2>1, <2>2 DEF Start, Transaction
  <2>4. RunnerOK(c)
    BY <2>2 DEF RunnerOK, Adding, RecordInv, Days
  <2> QED BY <1>1, <2>2, <2>3, <2>4, Rests
<1>4. CASE Fail(r)
  BY <1>1, <1>2, <1>4, Rests DEF Fail
<1>5. CASE Aggregate(r)
  <2>1. PICK c : c = [step |-> "aggregate", report |-> None, at |-> today - 1, made |-> 0, seen |-> <<TransferUsed(today - 1), stat[today - 1]>>]
    OBVIOUS
  <2>2. run' = [run EXCEPT ![r] = c]
    BY <1>5, <2>1 DEF Aggregate, Transaction
  <2>3. RunnerOK(c) /\ c.step \notin Kinds
    BY <2>1 DEF RunnerOK, Kinds
  <2> QED BY <1>1, <2>2, <2>3, Rests
<1>6. CASE CommitAggregate(r)
  BY <1>1, <1>2, <1>6, Rests DEF CommitAggregate
<1> QED BY <1>3, <1>4, <1>5, <1>6

\* Midnight.
LEMMA MidnightKeeps ==
  ASSUME RecordInv, NextDay PROVE RecordInv'
<1>1. today' = today + 1 /\ today' \in Days /\ today \in Days /\ UNCHANGED <<run, rows, written, overlapped>>
  BY StatAssumption DEF NextDay, history, RecordInv, Days
<1>2. \A q \in Runners : \A key, d : Works(q, key, d)' => Works(q, key, d) /\ run'[q] = run[q]
  BY <1>1 DEF Works
<1>3. \A q \in Runners : RunnerOK(run[q])'
  <2> SUFFICES ASSUME NEW q \in Runners PROVE RunnerOK(run[q])'
    OBVIOUS
  <2>1. PICK e : e = run[q] /\ run'[q] = e /\ RunnerOK(e)
    BY <1>1 DEF RecordInv
  <2>2. Adding(e) => Adding(e)'
    <3> SUFFICES ASSUME Adding(e) PROVE Adding(e)'
      OBVIOUS
    <3>1. e.at \in 0..today' /\ (e.seen # <<>> => e.made \in e.at..today')
      BY <1>1 DEF Adding, Days
    <3> QED BY <1>1, <3>1 DEF Adding
  <2>3. RunnerOK(e)'
    BY <2>1, <2>2 DEF RunnerOK
  <2> QED BY <2>1, <2>3 DEF RunnerOK, Adding
<1>4. RowsOK'
  BY <1>1 DEF RecordInv, RowsOK
<1> QED BY <1>1, <1>2, <1>3, <1>4, RecordsRest DEF RecordInv

\* What a transaction reads of a record is one of its rows, or that there is none.
LEMMA PositionsAt ==
  ASSUME NEW kind \in Kinds, NEW key, NEW d, rows[key][d] \in Seq(Entry), NEW i \in Positions(kind, key, d)
  PROVE  /\ i \in 0..Len(rows[key][d]) /\ (i = 0 <=> Len(rows[key][d]) = 0)
         /\ Sum(key, d, i) \in Nat /\ (i = 0 => Sum(key, d, i) = 0)
         /\ i # 0 => Sum(key, d, i) = rows[key][d][i].sum
         /\ Len(rows[key][d]) <= 1 => i = Len(rows[key][d]) /\ Sum(key, d, i) = Kept(key, d)
<1>1. i \in 0..Len(rows[key][d]) /\ (i = 0 <=> Len(rows[key][d]) = 0)
  BY DEF Positions
<1>2. i # 0 => Sum(key, d, i) = rows[key][d][i].sum /\ rows[key][d][i].sum \in Nat
  <2>1. PICK list : list = rows[key][d] /\ list \in Seq(Entry)
    OBVIOUS
  <2>2. \A j \in 1..Len(list) : list[j] \in Entry
    BY <2>1
  <2>3. \A j \in 1..Len(list) : list[j].sum \in Nat
    BY <2>2 DEF Entry
  <2> QED BY <1>1, <2>1, <2>3 DEF Sum
<1>3. i = 0 => Sum(key, d, i) = 0
  BY DEF Sum
<1>4. Len(rows[key][d]) <= 1 => i = Len(rows[key][d]) /\ Sum(key, d, i) = Kept(key, d)
  <2>1. PICK list : list = rows[key][d] /\ list \in Seq(Entry)
    OBVIOUS
  <2>2. /\ Len(list) = 0 => Total(Sums(list)) = 0
        /\ Len(list) = 1 => Total(Sums(list)) = list[1].sum
    BY <2>1, SumsShort
  <2>3. ASSUME Len(list) <= 1 PROVE i = Len(list)
    BY <1>1, <2>1, <2>3
  <2>4. ASSUME Len(list) <= 1 PROVE Sum(key, d, i) = Total(Sums(list))
    <3>1. CASE Len(list) = 0
      BY <1>3, <2>2, <2>3, <2>4, <3>1
    <3>2. CASE Len(list) = 1
      BY <1>2, <2>1, <2>2, <2>3, <2>4, <3>2
    <3>3. Len(list) = 0 \/ Len(list) = 1
      <4>1. PICK n : n = Len(list) /\ n \in Nat
        BY <2>1
      <4> QED BY <2>4, <4>1
    <3> QED BY <3>1, <3>2, <3>3
  <2> QED BY <2>1, <2>3, <2>4 DEF Kept
<1> QED BY <1>1, <1>2, <1>3, <1>4

\* A read: it finds what the rows hold, or the record becomes an overlapped one.
LEMMA ReadKeeps ==
  ASSUME RecordInv, NEW r \in Runners, Read(r)
  PROVE  RecordInv'
<1>1. PICK kind, p, day, keys : kind = run[r].step /\ p = run[r].report /\ day = run[r].at /\ keys = DOMAIN Additions(kind, p)
  OBVIOUS
<1>2. kind \in Kinds /\ run[r].seen = <<>> /\ UNCHANGED <<today, rows, written>>
  BY <1>1 DEF Read
<1>3. p \in Reports /\ day \in 0..today /\ today \in Days /\ day \in Days
  BY <1>1, <1>2, StatAssumption DEF RecordInv, RunnerOK, Adding, Days
<1>4. keys \subseteq StatKeys
  BY <1>1, <1>2, <1>3, AdditionsAt
<1>5. PICK at : /\ at \in [keys -> 0..Cardinality(Runners)]
                /\ \A key \in keys : at[key] \in Positions(kind, key, day)
                /\ run' = [run EXCEPT ![r] = Transaction(kind, p, day, today, [key \in keys |-> <<at[key], Sum(key, day, at[key])>>])]
  <2>1. \E at \in [DOMAIN Additions(run[r].step, run[r].report) -> 0..Cardinality(Runners)] :
          /\ \A key \in DOMAIN Additions(run[r].step, run[r].report) : at[key] \in Positions(run[r].step, key, run[r].at)
          /\ run' = [run EXCEPT ![r] = Transaction(run[r].step, run[r].report, run[r].at, today,
                       [key \in DOMAIN Additions(run[r].step, run[r].report) |-> <<at[key], Sum(key, run[r].at, at[key])>>])]
    BY DEF Read
  <2>2. PICK at :
          /\ at \in [DOMAIN Additions(run[r].step, run[r].report) -> 0..Cardinality(Runners)]
          /\ \A key \in DOMAIN Additions(run[r].step, run[r].report) : at[key] \in Positions(run[r].step, key, run[r].at)
          /\ run' = [run EXCEPT ![r] = Transaction(run[r].step, run[r].report, run[r].at, today,
                       [key \in DOMAIN Additions(run[r].step, run[r].report) |-> <<at[key], Sum(key, run[r].at, at[key])>>])]
    BY <2>1
  <2>3. at \in [keys -> 0..Cardinality(Runners)]
    BY <1>1, <2>2
  <2>4. \A key \in keys : at[key] \in Positions(kind, key, day)
    BY <1>1, <2>2
  <2>5. run' = [run EXCEPT ![r] = Transaction(kind, p, day, today, [key \in keys |-> <<at[key], Sum(key, day, at[key])>>])]
    BY <1>1, <2>2
  <2> QED BY <2>3, <2>4, <2>5
<1>6. PICK seen, c : /\ seen = [key \in keys |-> <<at[key], Sum(key, day, at[key])>>]
                     /\ c = [step |-> kind, report |-> p, at |-> day, made |-> today, seen |-> seen]
  OBVIOUS
<1>7. run' = [run EXCEPT ![r] = c]
  BY <1>5, <1>6 DEF Transaction
<1>8. DOMAIN run' = Runners /\ run'[r] = c /\ \A q \in Runners : q # r => run'[q] = run[q]
  BY <1>7 DEF RecordInv
<1>9. \A key \in keys : /\ seen[key] = <<seen[key][1], seen[key][2]>> /\ seen[key][1] = at[key]
                        /\ seen[key][2] = Sum(key, day, at[key])
  BY <1>6
<1>10. \A key \in keys : rows[key][day] \in Seq(Entry)
  BY <1>3, <1>4 DEF RecordInv, RowsOK
<1>11. \A key \in keys :
         /\ seen[key][1] \in 0..Len(rows[key][day])
         /\ seen[key][2] \in Nat /\ (seen[key][1] = 0 => seen[key][2] = 0)
         /\ seen[key][1] # 0 => seen[key][2] = rows[key][day][seen[key][1]].sum
         /\ Len(rows[key][day]) <= 1 => seen[key] = <<Len(rows[key][day]), Kept(key, day)>>
  <2> SUFFICES ASSUME NEW key \in keys
               PROVE  /\ seen[key][1] \in 0..Len(rows[key][day])
                      /\ seen[key][2] \in Nat /\ (seen[key][1] = 0 => seen[key][2] = 0)
                      /\ seen[key][1] # 0 => seen[key][2] = rows[key][day][seen[key][1]].sum
                      /\ Len(rows[key][day]) <= 1 => seen[key] = <<Len(rows[key][day]), Kept(key, day)>>
    OBVIOUS
  <2>1. PICK i : i = at[key] /\ i \in Positions(kind, key, day)
    BY <1>5
  <2>2. /\ i \in 0..Len(rows[key][day])
        /\ Sum(key, day, i) \in Nat /\ (i = 0 => Sum(key, day, i) = 0)
        /\ i # 0 => Sum(key, day, i) = rows[key][day][i].sum
        /\ Len(rows[key][day]) <= 1 => i = Len(rows[key][day]) /\ Sum(key, day, i) = Kept(key, day)
    BY <1>2, <1>10, <2>1, PositionsAt
  <2>3. seen[key] = <<i, Sum(key, day, i)>> /\ seen[key][1] = i /\ seen[key][2] = Sum(key, day, i)
    BY <1>9, <2>1
  <2> QED BY <2>2, <2>3
<1>12. \A q \in Runners : RunnerOK(run[q])'
  <2> SUFFICES ASSUME NEW q \in Runners PROVE RunnerOK(run[q])'
    OBVIOUS
  <2>1. PICK e : e = run'[q]
    OBVIOUS
  <2>2. CASE q = r
    <3>1. e = c
      BY <1>8, <2>1, <2>2
    <3>2. today \in day..today
      BY <1>3 DEF Days
    <3>3. DOMAIN seen = keys
      BY <1>6
    <3>4. Adding(c)
      BY <1>1, <1>3, <1>6, <1>9, <1>11, <3>2, <3>3 DEF Adding
    <3>5. RunnerOK(c)
      BY <1>2, <1>6, <3>4 DEF RunnerOK
    <3>6. RunnerOK(c)'
      BY <1>2, <3>5 DEF RunnerOK, Adding
    <3> QED BY <2>1, <3>1, <3>6 DEF RunnerOK, Adding
  <2>3. CASE q # r
    <3>1. RunnerOK(e)
      BY <1>8, <2>1, <2>3 DEF RecordInv
    <3>2. RunnerOK(e)'
      BY <1>2, <3>1 DEF RunnerOK, Adding
    <3> QED BY <2>1, <3>2 DEF RunnerOK, Adding
  <2> QED BY <2>2, <2>3
<1>13. RowsOK'
  BY <1>2 DEF RecordInv, RowsOK
<1>14. \A q \in Runners : \A key, d : Works(q, key, d)' => (q = r /\ d = day /\ key \in keys) \/ (q # r /\ Works(q, key, d))
  BY <1>6, <1>8 DEF Works
<1>15. \A key \in StatKeys, d \in Days : Shared(key, d)'
  <2> SUFFICES ASSUME NEW key \in StatKeys, NEW d \in Days PROVE Shared(key, d)'
    OBVIOUS
  <2>1. PICK share : SharesOK(share, key, d)
    BY DEF RecordInv, Shared
  <2>2. ASSUME NEW q \in Runners, Works(q, key, d)', run'[q].seen[key][1] # 0
        PROVE  run'[q].seen[key][2] <= share[run'[q].seen[key][1]]
    <3>1. CASE q # r
      BY <1>8, <1>14, <2>1, <2>2, <3>1 DEF SharesOK
    <3>2. CASE q = r
      <4>1. d = day /\ key \in keys /\ run'[q].seen = seen
        BY <1>6, <1>8, <1>14, <2>2, <3>2
      <4>2. PICK i : i = seen[key][1] /\ i \in 1..Len(rows[key][d]) /\ seen[key][2] = rows[key][d][i].sum
        BY <1>11, <2>2, <4>1
      <4> QED BY <2>1, <4>1, <4>2 DEF SharesOK
    <3> QED BY <3>1, <3>2
  <2>3. SharesOK(share, key, d)'
    BY <1>2, <2>1, <2>2 DEF SharesOK
  <2> QED BY <2>3 DEF Shared
<1>16. \A key \in StatKeys, d \in Days : Alone(key, d)'
  <2> SUFFICES ASSUME NEW key \in StatKeys, NEW d \in Days, <<key, d>> \notin overlapped'
               PROVE  /\ Len(rows'[key][d]) <= 1 /\ Kept(key, d)' = written'[key][d]
                      /\ \A q \in Runners : Works(q, key, d)' => run'[q].seen[key] = <<Len(rows'[key][d]), Kept(key, d)'>>
                      /\ \A q, o \in Runners : Works(q, key, d)' /\ Works(o, key, d)' => q = o
    BY DEF Alone
  <2>1. Kept(key, d)' = Kept(key, d)
    BY <1>2 DEF Kept
  <2>2. overlapped' = overlapped \cup
          {<<k, day>> : k \in {k \in keys : \E q \in Runners \ {r} :
                                 /\ run[q].step \in Kinds /\ run[q].at = day
                                 /\ k \in DOMAIN run[q].seen}}
    BY <1>1 DEF Read
  <2>3. <<key, d>> \notin overlapped
    BY <2>2
  <2>4. d = day /\ key \in keys => \A q \in Runners : q # r => ~Works(q, key, d)
    BY <2>2 DEF Works
  <2>5. /\ Len(rows[key][d]) <= 1 /\ Kept(key, d) = written[key][d]
        /\ \A q \in Runners : Works(q, key, d) => run[q].seen[key] = <<Len(rows[key][d]), Kept(key, d)>>
        /\ \A q, o \in Runners : Works(q, key, d) /\ Works(o, key, d) => q = o
    BY <2>3 DEF RecordInv, Alone
  <2>6. ASSUME NEW q \in Runners, Works(q, key, d)'
        PROVE  run'[q].seen[key] = <<Len(rows[key][d]), Kept(key, d)>>
    <3>1. CASE q # r
      BY <1>8, <1>14, <2>5, <2>6, <3>1
    <3>2. CASE q = r
      BY <1>6, <1>8, <1>11, <1>14, <2>5, <2>6, <3>2
    <3> QED BY <3>1, <3>2
  <2>7. ASSUME NEW q \in Runners, NEW o \in Runners, Works(q, key, d)', Works(o, key, d)' PROVE q = o
    BY <1>14, <2>4, <2>5, <2>7
  <2> QED BY <1>2, <2>1, <2>5, <2>6, <2>7
<1> QED BY <1>2, <1>3, <1>8, <1>12, <1>13, <1>15, <1>16 DEF RecordInv

\* A write adds to the records of the job, on the day it began, and to no other.
LEMMA WriteAt ==
  ASSUME RecordInv, NEW r \in Runners, Write(r),
         NEW seen, seen = run[r].seen, NEW day, day = run[r].at,
         NEW more, more = Additions(run[r].step, run[r].report)
  PROVE  /\ run[r].step \in Kinds /\ day \in Days /\ DOMAIN seen \subseteq StatKeys
         /\ rows' \in [StatKeys -> [Days -> Seq(Entry)]] /\ written' \in [StatKeys -> [Days -> Nat]]
         /\ \A key \in StatKeys, d \in Days :
              \/ Works(r, key, d)
                 /\ more[key] \in Nat /\ seen[key][2] \in Nat /\ seen[key][1] \in 0..Len(rows[key][d])
                 /\ (seen[key][1] = 0 => seen[key][2] = 0)
                 /\ written'[key][d] = written[key][d] + more[key]
                 /\ \E row \in Entry : row.sum = seen[key][2] + more[key] /\ row.made >= d
                                       /\ rows'[key][d] = Stored(rows[key][d], seen[key][1], row)
              \/ ~Works(r, key, d) /\ rows'[key][d] = rows[key][d] /\ written'[key][d] = written[key][d]
<1>1. PICK kind, p, made : kind = run[r].step /\ p = run[r].report /\ made = run[r].made
  OBVIOUS
<1>2. kind \in Kinds /\ seen # <<>>
  BY <1>1 DEF Write
<1>3. Adding(run[r])
  BY <1>1, <1>2 DEF RecordInv, RunnerOK
<1>4. p \in Reports /\ day \in 0..today /\ today \in Days /\ day \in Days
  BY <1>1, <1>3, StatAssumption DEF RecordInv, Adding, Days
<1>5. made \in day..today /\ made \in Days /\ made >= day
  BY <1>1, <1>2, <1>3, <1>4, StatAssumption DEF Adding, Days
<1>6. /\ DOMAIN seen = DOMAIN more
      /\ \A key \in DOMAIN seen : /\ seen[key][1] \in 0..Len(rows[key][day]) /\ seen[key][2] \in Nat
                                  /\ seen[key][1] = 0 => seen[key][2] = 0
  BY <1>1, <1>2, <1>3 DEF Adding
<1>7. DOMAIN more \subseteq StatKeys /\ \A key \in DOMAIN more : more[key] \in Nat
  BY <1>1, <1>2, <1>4, AdditionsAt
<1>8. PICK new : new = [key \in DOMAIN seen |-> [sum |-> seen[key][2] + more[key], made |-> made]]
  OBVIOUS
<1>9. \A key \in DOMAIN seen : new[key] \in Entry /\ new[key].sum = seen[key][2] + more[key] /\ new[key].made = made
  BY <1>5, <1>6, <1>7, <1>8 DEF Entry
<1>10. rows' = [key \in StatKeys |->
                  IF key \notin DOMAIN seen THEN rows[key]
                  ELSE [rows[key] EXCEPT ![day] = Stored(rows[key][day], seen[key][1], new[key])]]
  <2>1. rows' = [key \in StatKeys |->
                  IF key \notin DOMAIN seen THEN rows[key]
                  ELSE [rows[key] EXCEPT ![day] = Stored(rows[key][day], seen[key][1], [sum |-> seen[key][2] + more[key], made |-> made])]]
    BY <1>1 DEF Write
  <2>2. \A key \in DOMAIN seen : new[key] = [sum |-> seen[key][2] + more[key], made |-> made]
    BY <1>8
  <2> QED BY <2>1, <2>2
<1>11. written' = [key \in StatKeys |-> IF key \in DOMAIN seen
                                        THEN [written[key] EXCEPT ![day] = written[key][day] + more[key]]
                                        ELSE written[key]]
  BY <1>1 DEF Write
<1>12. \A key \in StatKeys : rows[key] \in [Days -> Seq(Entry)] /\ written[key] \in [Days -> Nat]
  BY DEF RecordInv, RowsOK
<1>13. \A key \in DOMAIN seen : Stored(rows[key][day], seen[key][1], new[key]) \in Seq(Entry)
  <2> SUFFICES ASSUME NEW key \in DOMAIN seen PROVE Stored(rows[key][day], seen[key][1], new[key]) \in Seq(Entry)
    OBVIOUS
  <2>1. PICK list, i, row, x : list = rows[key][day] /\ i = seen[key][1] /\ row = new[key] /\ x = Stored(list, i, row)
    OBVIOUS
  <2>2. list \in Seq(Entry) /\ i \in 0..Len(list) /\ row \in Entry /\ day \in Nat /\ row.made >= day
    <3>1. day \in Nat /\ key \in StatKeys
      BY <1>4, <1>6, <1>7, StatAssumption DEF Days
    <3>2. list \in Seq(Entry)
      BY <1>4, <1>12, <2>1, <3>1
    <3>3. i \in 0..Len(list)
      BY <1>6, <2>1
    <3>4. row \in Entry /\ row.made >= day
      BY <1>5, <1>9, <2>1
    <3> QED BY <3>1, <3>2, <3>3, <3>4
  <2>3. \A j \in DOMAIN list : list[j].made >= day
    BY <1>4, <1>6, <1>7, <2>1 DEF RecordInv, RowsOK
  <2>4. x \in Seq(Entry)
    BY <2>1, <2>2, <2>3, RowsGrow
  <2> QED BY <2>1, <2>4
<1>14. /\ rows' \in [StatKeys -> [Days -> Seq(Entry)]]
       /\ \A key \in StatKeys, d \in Days :
            rows'[key][d] = IF key \in DOMAIN seen /\ d = day THEN Stored(rows[key][d], seen[key][1], new[key]) ELSE rows[key][d]
  BY <1>4, <1>6, <1>7, <1>10, <1>12, <1>13
<1>15. /\ written' \in [StatKeys -> [Days -> Nat]]
       /\ \A key \in StatKeys, d \in Days :
            written'[key][d] = IF key \in DOMAIN seen /\ d = day THEN written[key][d] + more[key] ELSE written[key][d]
  BY <1>4, <1>6, <1>7, <1>11, <1>12
<1>16. \A key, d : Works(r, key, d) <=> key \in DOMAIN seen /\ d = day
  BY <1>1, <1>2 DEF Works
<1>17. ASSUME NEW key \in StatKeys, NEW d \in Days
       PROVE  \/ Works(r, key, d)
                 /\ more[key] \in Nat /\ seen[key][2] \in Nat /\ seen[key][1] \in 0..Len(rows[key][d])
                 /\ (seen[key][1] = 0 => seen[key][2] = 0)
                 /\ written'[key][d] = written[key][d] + more[key]
                 /\ \E row \in Entry : row.sum = seen[key][2] + more[key] /\ row.made >= d
                                       /\ rows'[key][d] = Stored(rows[key][d], seen[key][1], row)
              \/ ~Works(r, key, d) /\ rows'[key][d] = rows[key][d] /\ written'[key][d] = written[key][d]
  <2>1. CASE Works(r, key, d)
    <3>1. key \in DOMAIN seen /\ d = day
      BY <1>16, <2>1
    <3>2. PICK row \in Entry : row = new[key] /\ row.sum = seen[key][2] + more[key] /\ row.made >= d
      BY <1>5, <1>9, <3>1
    <3>3. rows'[key][d] = Stored(rows[key][d], seen[key][1], row)
      BY <1>14, <3>1, <3>2
    <3>4. written'[key][d] = written[key][d] + more[key]
      BY <1>15, <3>1
    <3> QED BY <1>6, <1>7, <2>1, <3>1, <3>2, <3>3, <3>4
  <2>2. CASE ~Works(r, key, d)
    BY <1>14, <1>15, <1>16, <2>2
  <2> QED BY <2>1, <2>2
<1> QED BY <1>1, <1>2, <1>4, <1>6, <1>7, <1>14, <1>15, <1>17

\* A write keeps the invariant: a job that worked alone on a record leaves one
\* row with everything, and no write makes more of a record than was added.
LEMMA WriteKeeps ==
  ASSUME RecordInv, NEW r \in Runners, Write(r)
  PROVE  RecordInv'
<1>1. PICK seen, day, more : seen = run[r].seen /\ day = run[r].at /\ more = Additions(run[r].step, run[r].report)
  OBVIOUS
<1>2. /\ run[r].step \in Kinds /\ day \in Days /\ DOMAIN seen \subseteq StatKeys
      /\ rows' \in [StatKeys -> [Days -> Seq(Entry)]] /\ written' \in [StatKeys -> [Days -> Nat]]
  BY <1>1, WriteAt
<1>3. \A key \in StatKeys, d \in Days :
        Works(r, key, d) =>
          /\ more[key] \in Nat /\ seen[key][2] \in Nat /\ seen[key][1] \in 0..Len(rows[key][d])
          /\ (seen[key][1] = 0 => seen[key][2] = 0)
          /\ written'[key][d] = written[key][d] + more[key]
          /\ \E row \in Entry : row.sum = seen[key][2] + more[key] /\ row.made >= d
                                /\ rows'[key][d] = Stored(rows[key][d], seen[key][1], row)
  BY <1>1, WriteAt
<1>4. \A key \in StatKeys, d \in Days : ~Works(r, key, d) => rows'[key][d] = rows[key][d] /\ written'[key][d] = written[key][d]
  BY <1>1, WriteAt
<1>5. run' = [run EXCEPT ![r] = Idle] /\ UNCHANGED <<today, overlapped>>
  BY DEF Write
<1>6. DOMAIN run' = Runners /\ run'[r] = Idle /\ \A q \in Runners : q # r => run'[q] = run[q]
  BY <1>5 DEF RecordInv
<1>7. RunnerOK(Idle) /\ Idle.step \notin Kinds
  BY DEF RunnerOK, Idle, Transaction, Kinds
<1>8. \A q \in Runners : \A key, d : Works(q, key, d)' => q # r /\ Works(q, key, d) /\ run'[q] = run[q]
  BY <1>6, <1>7 DEF Works
<1>9. \A key \in StatKeys, d \in Days : rows[key][d] \in Seq(Entry) /\ written[key][d] \in Nat /\ d \in Nat
  <2>1. \A key \in StatKeys, d \in Days : rows[key][d] \in Seq(Entry) /\ written[key][d] \in Nat
    BY DEF RecordInv, RowsOK
  <2>2. \A d \in Days : d \in Nat
    BY StatAssumption DEF Days
  <2> QED BY <2>1, <2>2
<1>10. \A key \in StatKeys, d \in Days : /\ Len(rows'[key][d]) >= Len(rows[key][d])
                                         /\ \A j \in DOMAIN rows'[key][d] : rows'[key][d][j].made >= d
  <2> SUFFICES ASSUME NEW key \in StatKeys, NEW d \in Days
               PROVE  /\ Len(rows'[key][d]) >= Len(rows[key][d])
                      /\ \A j \in DOMAIN rows'[key][d] : rows'[key][d][j].made >= d
    OBVIOUS
  <2>1. PICK list, new : list = rows[key][d] /\ new = rows'[key][d] /\ list \in Seq(Entry)
    BY <1>9
  <2>2. \A j \in DOMAIN list : list[j].made >= d
    BY <2>1 DEF RecordInv, RowsOK
  <2>3. CASE Works(r, key, d)
    <3>1. PICK i, row : /\ i \in 0..Len(list) /\ row \in Entry
                        /\ row.made >= d /\ new = Stored(list, i, row)
      BY <1>3, <2>1, <2>3
    <3>2. Len(new) >= Len(list) /\ \A j \in DOMAIN new : new[j].made >= d
      BY <1>9, <2>1, <2>2, <3>1, RowsGrow
    <3> QED BY <2>1, <3>2
  <2>4. CASE ~Works(r, key, d)
    BY <1>4, <2>1, <2>2, <2>4
  <2> QED BY <2>3, <2>4
<1>11. RowsOK'
  BY <1>2, <1>10 DEF RowsOK
<1>12. \A q \in Runners : RunnerOK(run[q])'
  <2> SUFFICES ASSUME NEW q \in Runners PROVE RunnerOK(run[q])'
    OBVIOUS
  <2>1. PICK e : e = run'[q] /\ RunnerOK(e)
    BY <1>6, <1>7 DEF RecordInv
  <2>2. ASSUME e.step \in Kinds PROVE Adding(e)'
    <3>1. Adding(e)
      BY <2>1, <2>2 DEF RunnerOK
    <3>2. e.at \in Days
      BY <3>1, StatAssumption DEF Adding, RecordInv, Days
    <3>3. e.seen # <<>> => \A key \in DOMAIN e.seen : key \in StatKeys
      BY <2>2, <3>1, AdditionsAt DEF Adding
    <3>4. ASSUME e.seen # <<>>, NEW key \in DOMAIN e.seen PROVE e.seen[key][1] \in 0..Len(rows'[key][e.at])
      <4>1. PICK n, m, i : n = Len(rows[key][e.at]) /\ m = Len(rows'[key][e.at]) /\ i = e.seen[key][1]
        OBVIOUS
      <4>2. i \in 0..n
        BY <3>1, <3>4, <4>1 DEF Adding
      <4>3. n \in Nat /\ m \in Nat /\ m >= n
        BY <1>2, <1>9, <1>10, <3>2, <3>3, <3>4, <4>1
      <4> QED BY <4>1, <4>2, <4>3
    <3> QED BY <1>5, <3>1, <3>4 DEF Adding
  <2>3. RunnerOK(e)'
    BY <2>1, <2>2 DEF RunnerOK
  <2> QED BY <2>1, <2>3 DEF RunnerOK, Adding
<1>13. \A key \in StatKeys, d \in Days : Shared(key, d)'
  <2> SUFFICES ASSUME NEW key \in StatKeys, NEW d \in Days PROVE Shared(key, d)'
    OBVIOUS
  <2>1. PICK share : SharesOK(share, key, d)
    BY DEF RecordInv, Shared
  <2>2. CASE ~Works(r, key, d)
    <3>1. rows'[key][d] = rows[key][d] /\ written'[key][d] = written[key][d]
      BY <1>4, <2>2
    <3>2. \A q \in Runners : Works(q, key, d)' /\ run'[q].seen[key][1] # 0 => run'[q].seen[key][2] <= share[run'[q].seen[key][1]]
      BY <1>8, <2>1 DEF SharesOK
    <3>3. SharesOK(share, key, d)'
      BY <2>1, <3>1, <3>2 DEF SharesOK
    <3> QED BY <3>3 DEF Shared
  <2>3. CASE Works(r, key, d)
    <3>1. PICK list, new, i, v, a : list = rows[key][d] /\ new = rows'[key][d] /\ i = seen[key][1] /\ v = seen[key][2] /\ a = more[key]
      OBVIOUS
    <3>2. PICK row \in Entry : row.sum = v + a /\ new = Stored(list, i, row)
      BY <1>3, <2>3, <3>1
    <3>3. /\ list \in Seq(Entry) /\ i \in 0..Len(list) /\ v \in Nat /\ a \in Nat /\ (i = 0 => v = 0)
          /\ written'[key][d] = written[key][d] + a
      BY <1>3, <1>9, <2>3, <3>1
    <3>4. /\ share \in [1..Len(list) -> Nat] /\ SumFunctionOnSet(share, 1..Len(list)) = written[key][d]
          /\ \A j \in 1..Len(list) : list[j].sum <= share[j]
          /\ i # 0 => v <= share[i]
      BY <1>1, <2>1, <2>3, <3>1 DEF SharesOK
    <3>9. Fits(list, i, row, share, a)
      <4>1. i # 0 => share[i] \in Nat
        BY <3>3, <3>4
      <4>2. (i = 0 => row.sum = a) /\ (i # 0 => row.sum <= share[i] + a)
        BY <3>2, <3>3, <3>4, <4>1
      <4> QED BY <3>3, <3>4, <4>2 DEF Fits
    <3>10. PICK big : Grown(big, share, list, new, a)
      BY <3>2, <3>9, SharesGrow
    <3>5. /\ big \in [1..Len(new) -> Nat]
          /\ SumFunctionOnSet(big, 1..Len(new)) = SumFunctionOnSet(share, 1..Len(list)) + a
          /\ \A j \in 1..Len(new) : new[j].sum <= big[j]
          /\ \A j \in 1..Len(list) : share[j] <= big[j]
      BY <3>10 DEF Grown
    <3>6. ASSUME NEW q \in Runners, Works(q, key, d)', run'[q].seen[key][1] # 0
          PROVE  run'[q].seen[key][2] <= big[run'[q].seen[key][1]]
      <4>1. PICK j, w : j = run'[q].seen[key][1] /\ w = run'[q].seen[key][2]
        OBVIOUS
      <4>2. Works(q, key, d) /\ run[q] = run'[q]
        BY <1>8, <3>6
      <4>3. Adding(run[q])
        BY <4>2 DEF RecordInv, RunnerOK, Works
      <4>4. run[q].seen # <<>> /\ run[q].at = d /\ key \in DOMAIN run[q].seen
        BY <4>2 DEF Works
      <4>5. j \in 0..Len(list) /\ w \in Nat
        BY <3>1, <4>1, <4>2, <4>3, <4>4 DEF Adding
      <4>6. w <= share[j]
        BY <2>1, <3>6, <4>1, <4>2 DEF SharesOK
      <4>7. j \in 1..Len(list) /\ j \in 1..Len(new)
        <5>1. Len(new) \in Nat /\ Len(list) \in Nat /\ Len(list) <= Len(new)
          BY <1>2, <1>10, <3>1, <3>3
        <5>2. j # 0
          BY <3>6, <4>1
        <5> QED BY <4>5, <5>1, <5>2
      <4>8. share[j] \in Nat /\ big[j] \in Nat /\ share[j] <= big[j]
        BY <3>4, <3>5, <4>7
      <4>9. w <= big[j]
        BY <4>5, <4>6, <4>8
      <4> QED BY <4>1, <4>9
    <3>7. SharesOK(big, key, d)'
      BY <3>1, <3>3, <3>4, <3>5, <3>6 DEF SharesOK
    <3> QED BY <3>7 DEF Shared
  <2> QED BY <2>2, <2>3
<1>14. \A key \in StatKeys, d \in Days : Alone(key, d)'
  <2> SUFFICES ASSUME NEW key \in StatKeys, NEW d \in Days, <<key, d>> \notin overlapped
               PROVE  /\ Len(rows'[key][d]) <= 1 /\ Kept(key, d)' = written'[key][d]
                      /\ \A q \in Runners : Works(q, key, d)' => run'[q].seen[key] = <<Len(rows'[key][d]), Kept(key, d)'>>
                      /\ \A q, o \in Runners : Works(q, key, d)' /\ Works(o, key, d)' => q = o
    BY <1>5 DEF Alone
  <2>1. /\ Len(rows[key][d]) <= 1 /\ Kept(key, d) = written[key][d]
        /\ \A q \in Runners : Works(q, key, d) => run[q].seen[key] = <<Len(rows[key][d]), Kept(key, d)>>
        /\ \A q, o \in Runners : Works(q, key, d) /\ Works(o, key, d) => q = o
    BY DEF RecordInv, Alone
  <2>2. CASE ~Works(r, key, d)
    <3>1. rows'[key][d] = rows[key][d] /\ written'[key][d] = written[key][d]
      BY <1>4, <2>2
    <3>2. Kept(key, d)' = Kept(key, d)
      BY <3>1 DEF Kept
    <3> QED BY <1>8, <2>1, <3>1, <3>2
  <2>3. CASE Works(r, key, d)
    <3>1. \A q \in Runners : ~Works(q, key, d)'
      BY <1>8, <2>1, <2>3
    <3>2. PICK list, new, i, v, a : list = rows[key][d] /\ new = rows'[key][d] /\ i = seen[key][1] /\ v = seen[key][2] /\ a = more[key]
      OBVIOUS
    <3>3. PICK row \in Entry : row.sum = v + a /\ new = Stored(list, i, row)
      BY <1>3, <2>3, <3>2
    <3>4. i = Len(list) /\ v = written[key][d] /\ list \in Seq(Entry) /\ Len(list) <= 1 /\ written'[key][d] = written[key][d] + a
      BY <1>1, <1>3, <1>9, <2>1, <2>3, <3>2
    <3>5. new = Stored(list, Len(list), row)
      BY <3>3, <3>4
    <3>6. Len(new) = 1 /\ Total(Sums(new)) = row.sum
      BY <3>4, <3>5, OneRow
    <3>7. Kept(key, d)' = Total(Sums(new))
      BY <3>2 DEF Kept
    <3>8. Len(rows'[key][d]) = 1 /\ Kept(key, d)' = written'[key][d]
      BY <3>2, <3>3, <3>4, <3>6, <3>7
    <3>9. Len(rows'[key][d]) <= 1
      BY <3>8
    <3> QED BY <3>1, <3>8, <3>9
  <2> QED BY <2>2, <2>3
<1> QED BY <1>5, <1>6, <1>11, <1>12, <1>13, <1>14 DEF RecordInv

\* No rows, nothing to add.
LEMMA RecordInvInit == Init => RecordInv
<1> SUFFICES ASSUME Init PROVE RecordInv
  OBVIOUS
<1>1. today = 0 /\ 0 \in Days /\ run = [r \in Runners |-> Idle]
  BY StatAssumption DEF Init, Days
<1>2. RunnerOK(Idle) /\ Idle.step \notin Kinds
  BY DEF RunnerOK, Idle, Transaction, Kinds
<1>3. PICK none : none = <<>>
  OBVIOUS
<1>4. none \in Seq(Entry) /\ Len(none) = 0 /\ DOMAIN none = {} /\ 1..Len(none) = {}
  BY <1>3
<1>5. rows = [key \in StatKeys |-> [d \in Days |-> none]] /\ written = [key \in StatKeys |-> [d \in Days |-> 0]]
  BY <1>3 DEF Init
<1>6. \A key \in StatKeys, d \in Days : rows[key][d] = none /\ written[key][d] = 0
  BY <1>5
<1>7. RowsOK
  BY <1>4, <1>5, <1>6 DEF RowsOK
<1>8. \A r \in Runners : \A key, d : ~Works(r, key, d)
  BY <1>1, <1>2 DEF Works
<1>9. ASSUME NEW key \in StatKeys, NEW d \in Days PROVE Shared(key, d) /\ Alone(key, d)
  <2>1. PICK share : share = [i \in {} |-> 0]
    OBVIOUS
  <2>2. share \in [1..Len(none) -> Nat]
    BY <1>4, <2>1
  <2>3. SumFunctionOnSet(share, 1..Len(none)) = 0
    BY <1>4, SumEmpty
  <2>4. SharesOK(share, key, d)
    BY <1>4, <1>6, <1>8, <1>9, <2>2, <2>3 DEF SharesOK
  <2>5. Kept(key, d) = 0
    <3>1. Total(Sums(none)) = 0
      BY <1>4, SumsShort
    <3> QED BY <1>6, <1>9, <3>1 DEF Kept
  <2>6. Alone(key, d)
    BY <1>4, <1>6, <1>8, <1>9, <2>5 DEF Alone
  <2> QED BY <2>4, <2>6 DEF Shared
<1> QED BY <1>1, <1>2, <1>7, <1>9 DEF RecordInv

\* Every step keeps the invariant of the records.
LEMMA RecordInvKept == RecordInv /\ [Next]_vars => RecordInv'
<1> SUFFICES ASSUME RecordInv, [Next]_vars PROVE RecordInv'
  OBVIOUS
<1>1. CASE NextDay
  BY <1>1, MidnightKeeps
<1>2. ASSUME NEW r \in Runners, \/ \E kind \in Kinds, p \in Reports : Start(r, kind, p)
                                \/ Read(r) \/ Write(r) \/ Fail(r) \/ Aggregate(r) \/ CommitAggregate(r)
      PROVE  RecordInv'
  <2>1. CASE Read(r)
    BY <2>1, ReadKeeps
  <2>2. CASE Write(r)
    BY <2>2, WriteKeeps
  <2> QED BY <1>2, <2>1, <2>2, OthersKeep
<1>3. CASE UNCHANGED vars
  <2>1. UNCHANGED <<today, run, rows, written, overlapped>>
    BY <1>3 DEF vars, history
  <2>2. \A q \in Runners : \A key, d : Works(q, key, d)' => Works(q, key, d) /\ run'[q] = run[q]
    BY <2>1 DEF Works
  <2>3. \A q \in Runners : RunnerOK(run[q])'
    BY <2>1 DEF RecordInv, RunnerOK, Adding
  <2>4. RowsOK'
    BY <2>1 DEF RecordInv, RowsOK
  <2> QED BY <2>1, <2>2, <2>3, <2>4, RecordsRest DEF RecordInv
<1> QED BY <1>1, <1>2, <1>3 DEF Next

\* The records' invariant, in every state.
LEMMA RecordInvHolds == Spec => []RecordInv
  BY RecordInvInit, RecordInvKept, PTL DEF Spec

\* stat_user and stat_server: a record is one row with all that was added to it
\* unless two jobs worked on it at the same time, and such jobs only ever lose
\* traffic.
THEOREM RecordsExact == Spec => []RecordExact
<1>1. RecordInv => RecordExact
  <2> SUFFICES ASSUME RecordInv, NEW key \in StatKeys, NEW d \in Days
               PROVE  /\ Kept(key, d) <= written[key][d]
                      /\ <<key, d>> \notin overlapped => Len(rows[key][d]) <= 1 /\ Kept(key, d) = written[key][d]
    BY DEF RecordExact, Kept, Sums
  <2>1. <<key, d>> \notin overlapped => Len(rows[key][d]) <= 1 /\ Kept(key, d) = written[key][d]
    BY DEF RecordInv, Alone
  <2>2. PICK share : SharesOK(share, key, d)
    BY DEF RecordInv, Shared
  <2>3. PICK list, N, sums : list = rows[key][d] /\ N = 1..Len(list) /\ sums = Sums(list) /\ list \in Seq(Entry)
    BY DEF RecordInv, RowsOK
  <2>4. IsFiniteSet(N) /\ (\A i \in N : sums[i] \in Nat /\ sums[i] = list[i].sum) /\ Total(sums) = SumFunctionOnSet(sums, N)
    BY <2>3, SumsAt
  <2>5. \A i \in N : share[i] \in Nat /\ sums[i] \in Nat /\ sums[i] <= share[i]
    BY <2>2, <2>3, <2>4 DEF SharesOK
  <2>6. SumFunctionOnSet(sums, N) <= SumFunctionOnSet(share, N)
    BY <2>4, <2>5, SumMonotone
  <2>7. SumFunctionOnSet(share, N) = written[key][d]
    BY <2>2, <2>3 DEF SharesOK
  <2> QED BY <2>1, <2>3, <2>4, <2>6, <2>7 DEF Kept
<1> QED BY <1>1, RecordInvHolds, PTL

-----------------------------------------------------------------------------
(***************************************************************************)
(* The aggregations.  What a day's sum is made of lies in rows of that day *)
(* and the days before it; only jobs that began by then write to those.    *)
(***************************************************************************)
\* What one list of rows says was made on day d.
MadeIn(list, d) == [i \in DOMAIN list |-> IF list[i].made = d THEN list[i].sum ELSE 0]

\* TransferUsed, of any rows.
Used(table, d) == Total([n \in Nodes |-> Total([e \in Days |-> Total(MadeIn(table[<<"stat_server", n>>][e], d))])])

\* The sum of smaller numbers is smaller.
LEMMA TotalMonotone ==
  ASSUME NEW S, IsFiniteSet(S), NEW f \in [S -> Nat], NEW g \in [S -> Nat], \A x \in S : g[x] <= f[x]
  PROVE  Total(f) \in Nat /\ Total(g) \in Nat /\ Total(g) <= Total(f)
<1>1. DOMAIN f = S /\ DOMAIN g = S /\ \A x \in S : f[x] \in Nat /\ g[x] \in Nat /\ g[x] <= f[x]
  OBVIOUS
<1>2. SumFunctionOnSet(g, S) <= SumFunctionOnSet(f, S)
  BY <1>1, SumMonotone
<1>3. SumFunctionOnSet(f, S) \in Nat /\ SumFunctionOnSet(g, S) \in Nat
  BY <1>1, SumType
<1> QED BY <1>1, <1>2, <1>3 DEF Total, SumFunction

\* The days are finitely many numbers.
LEMMA DaysFinite == IsFiniteSet(Days) /\ Days \subseteq Nat
<1>1. 0 \in Int /\ MaxDay \in Int
  BY StatAssumption
<1> QED BY <1>1, StatAssumption, FS_Interval DEF Days

\* Of the rows of a list, those of one day make no more than all.
LEMMA MadeInLess ==
  ASSUME NEW list \in Seq(Entry), NEW d
  PROVE  Total(MadeIn(list, d)) \in Nat /\ Total(MadeIn(list, d)) <= Total(Sums(list))
<1>1. PICK S, f, g : S = 1..Len(list) /\ f = Sums(list) /\ g = MadeIn(list, d)
  OBVIOUS
<1>2. IsFiniteSet(S) /\ f \in [S -> Nat] /\ \A i \in S : f[i] = list[i].sum /\ list[i] \in Entry
  BY <1>1, SumsAt
<1>3. g = [i \in S |-> IF list[i].made = d THEN list[i].sum ELSE 0]
  BY <1>1 DEF MadeIn
<1>4. \A i \in S : f[i] \in Nat /\ (g[i] = f[i] \/ g[i] = 0)
  BY <1>2, <1>3
<1>5. g \in [S -> Nat] /\ \A i \in S : g[i] <= f[i]
  BY <1>2, <1>3, <1>4
<1>6. Total(g) \in Nat /\ Total(g) <= Total(f)
  BY <1>2, <1>5, TotalMonotone
<1> QED BY <1>1, <1>6

\* Rows made later make nothing.
LEMMA MadeInNothing ==
  ASSUME NEW list \in Seq(Entry), NEW d, \A i \in DOMAIN list : list[i].made # d
  PROVE  Total(MadeIn(list, d)) = 0
<1>1. PICK S, g : S = DOMAIN list /\ S = 1..Len(list) /\ g = MadeIn(list, d)
  OBVIOUS
<1>2. IsFiniteSet(S)
  BY <1>1, SumsAt
<1>3. g = [i \in S |-> IF list[i].made = d THEN list[i].sum ELSE 0]
  BY <1>1 DEF MadeIn
<1>4. DOMAIN g = S /\ \A i \in S : g[i] = 0
  BY <1>1, <1>3
<1>5. SumFunctionOnSet(g, S) = 0
  BY <1>2, <1>4, SumZero
<1> QED BY <1>1, <1>4, <1>5 DEF Total, SumFunction

\* What the rows of a record hold was written.
LEMMA KeptLess ==
  ASSUME RecordInv, NEW key \in StatKeys, NEW d \in Days
  PROVE  Kept(key, d) \in Nat /\ Kept(key, d) <= written[key][d] /\ written[key][d] \in Nat
<1>1. PICK share : SharesOK(share, key, d)
  BY DEF RecordInv, Shared
<1>2. PICK list, N, sums : list = rows[key][d] /\ N = 1..Len(list) /\ sums = Sums(list) /\ list \in Seq(Entry)
  BY DEF RecordInv, RowsOK
<1>3. /\ IsFiniteSet(N) /\ (\A i \in N : sums[i] \in Nat /\ sums[i] = list[i].sum)
      /\ Total(sums) = SumFunctionOnSet(sums, N) /\ Total(sums) \in Nat
  BY <1>2, SumsAt
<1>4. \A i \in N : share[i] \in Nat /\ sums[i] \in Nat /\ sums[i] <= share[i]
  BY <1>1, <1>2, <1>3 DEF SharesOK
<1>5. SumFunctionOnSet(sums, N) <= SumFunctionOnSet(share, N)
  BY <1>3, <1>4, SumMonotone
<1>6. SumFunctionOnSet(share, N) = written[key][d]
  BY <1>1, <1>2 DEF SharesOK
<1>7. written[key][d] \in Nat
  BY DEF RecordInv, RowsOK
<1> QED BY <1>2, <1>3, <1>5, <1>6, <1>7 DEF Kept

\* Sums over all nodes and days.
LEMMA AllMonotone ==
  ASSUME NEW f \in [Nodes -> [Days -> Nat]], NEW g \in [Nodes -> [Days -> Nat]],
         \A n \in Nodes, d \in Days : g[n][d] <= f[n][d]
  PROVE  /\ Total([n \in Nodes |-> Total(f[n])]) \in Nat /\ Total([n \in Nodes |-> Total(g[n])]) \in Nat
         /\ Total([n \in Nodes |-> Total(g[n])]) <= Total([n \in Nodes |-> Total(f[n])])
<1>1. \A n \in Nodes : Total(f[n]) \in Nat /\ Total(g[n]) \in Nat /\ Total(g[n]) <= Total(f[n])
  <2> SUFFICES ASSUME NEW n \in Nodes PROVE Total(f[n]) \in Nat /\ Total(g[n]) \in Nat /\ Total(g[n]) <= Total(f[n])
    OBVIOUS
  <2>1. PICK a, b : a = f[n] /\ b = g[n] /\ a \in [Days -> Nat] /\ b \in [Days -> Nat] /\ \A d \in Days : b[d] <= a[d]
    OBVIOUS
  <2>2. Total(a) \in Nat /\ Total(b) \in Nat /\ Total(b) <= Total(a)
    BY <2>1, DaysFinite, TotalMonotone
  <2> QED BY <2>1, <2>2
<1>2. PICK a, b : a = [n \in Nodes |-> Total(f[n])] /\ b = [n \in Nodes |-> Total(g[n])]
  OBVIOUS
<1>3. a \in [Nodes -> Nat] /\ b \in [Nodes -> Nat] /\ \A n \in Nodes : b[n] <= a[n]
  BY <1>1, <1>2
<1>4. Total(a) \in Nat /\ Total(b) \in Nat /\ Total(b) <= Total(a)
  BY <1>3, StatAssumption, TotalMonotone
<1> QED BY <1>2, <1>4

\* What was written to the records of the nodes.
Reported(table) == [n \in Nodes |-> [d \in Days |-> table[<<"stat_server", n>>][d]]]

\* A day's sum, and the sum of all days, are never more than was written.
LEMMA NeverMore ==
  ASSUME RecordInv
  PROVE  /\ AllReported \in Nat
         /\ \A d \in Days : TransferUsed(d) \in Nat /\ TransferUsed(d) <= AllReported
         /\ Total([n \in Nodes |-> Ranked(<<"stat_server", n>>, "all")]) <= AllReported
<1>1. \A n \in Nodes : <<"stat_server", n>> \in StatKeys
  BY DEF StatKeys
<1>2. PICK f : f = Reported(written)
  OBVIOUS
<1>3. /\ f \in [Nodes -> [Days -> Nat]] /\ \A n \in Nodes, d \in Days : f[n][d] = written[<<"stat_server", n>>][d]
  BY <1>1, <1>2 DEF Reported, RecordInv, RowsOK
<1>4. AllReported = Total([n \in Nodes |-> Total(f[n])])
  <2>1. \A n \in Nodes : f[n] = [d \in Days |-> written[<<"stat_server", n>>][d]]
    BY <1>2 DEF Reported
  <2> QED BY <2>1 DEF AllReported
<1>5. ASSUME NEW d \in Days PROVE TransferUsed(d) \in Nat /\ TransferUsed(d) <= AllReported
  <2>1. PICK g : g = [n \in Nodes |-> [e \in Days |-> Total(MadeIn(rows[<<"stat_server", n>>][e], d))]]
    OBVIOUS
  <2>2. ASSUME NEW n \in Nodes, NEW e \in Days
        PROVE  g[n][e] \in Nat /\ g[n][e] <= f[n][e]
    <3>1. PICK key : key = <<"stat_server", n>> /\ key \in StatKeys
      BY <1>1
    <3>2. PICK list, a, b, c : /\ list = rows[key][e] /\ list \in Seq(Entry) /\ a = Total(MadeIn(list, d))
                               /\ b = Total(Sums(list)) /\ c = written[key][e]
      BY <3>1 DEF RecordInv, RowsOK
    <3>3. a \in Nat /\ a <= b
      BY <3>2, MadeInLess
    <3>4. b \in Nat /\ c \in Nat /\ b <= c
      BY <3>1, <3>2, KeptLess DEF Kept
    <3>5. g[n][e] = a /\ f[n][e] = c
      BY <1>3, <2>1, <3>1, <3>2
    <3> QED BY <3>3, <3>4, <3>5
  <2>3. g \in [Nodes -> [Days -> Nat]]
    <3>1. \A n \in Nodes : g[n] = [e \in Days |-> g[n][e]]
      BY <2>1
    <3>2. \A n \in Nodes : g[n] \in [Days -> Nat]
      BY <2>2, <3>1
    <3> QED BY <2>1, <3>2
  <2>4. \A n \in Nodes, e \in Days : g[n][e] <= f[n][e]
    BY <2>2
  <2>5. PICK x, y : x = Total([n \in Nodes |-> Total(g[n])]) /\ y = Total([n \in Nodes |-> Total(f[n])])
    OBVIOUS
  <2>6. x \in Nat /\ x <= y
    BY <1>3, <2>3, <2>4, <2>5, AllMonotone
  <2>7. TransferUsed(d) = x
    <3>1. \A n \in Nodes : Total(g[n]) = MadeOn(<<"stat_server", n>>, d)
      BY <2>1 DEF MadeOn, MadeIn
    <3> QED BY <2>5, <3>1 DEF TransferUsed
  <2> QED BY <1>4, <2>5, <2>6, <2>7
<1>6. Total([n \in Nodes |-> Ranked(<<"stat_server", n>>, "all")]) <= AllReported /\ AllReported \in Nat
  <2>1. PICK g : g = [n \in Nodes |-> [e \in Days |-> Kept(<<"stat_server", n>>, e)]]
    OBVIOUS
  <2>2. ASSUME NEW n \in Nodes, NEW e \in Days
        PROVE  g[n][e] \in Nat /\ g[n][e] <= f[n][e]
    <3>1. PICK key, b : key = <<"stat_server", n>> /\ key \in StatKeys /\ b = Kept(key, e)
      BY <1>1
    <3>2. b \in Nat /\ b <= written[key][e]
      BY <3>1, KeptLess
    <3>3. g[n][e] = b
      BY <2>1, <3>1
    <3>4. f[n][e] = written[key][e]
      BY <1>3, <3>1
    <3> QED BY <3>2, <3>3, <3>4
  <2>3. g \in [Nodes -> [Days -> Nat]]
    <3>1. \A n \in Nodes : g[n] = [e \in Days |-> g[n][e]]
      BY <2>1
    <3>2. \A n \in Nodes : g[n] \in [Days -> Nat]
      BY <2>2, <3>1
    <3> QED BY <2>1, <3>2
  <2>4. \A n \in Nodes, e \in Days : g[n][e] <= f[n][e]
    BY <2>2
  <2>5. PICK x, y : x = Total([n \in Nodes |-> Total(g[n])]) /\ y = Total([n \in Nodes |-> Total(f[n])])
    OBVIOUS
  <2>6. x <= y /\ y \in Nat
    BY <1>3, <2>3, <2>4, <2>5, AllMonotone
  <2>7. Total([n \in Nodes |-> Ranked(<<"stat_server", n>>, "all")]) = x
    <3>1. PeriodDays("all") \cap Days = Days
      BY DEF PeriodDays
    <3>2. \A n \in Nodes : Total(g[n]) = Ranked(<<"stat_server", n>>, "all")
      BY <2>1, <3>1 DEF Ranked, Kept, Sums
    <3> QED BY <2>5, <3>2
  <2> QED BY <1>4, <2>5, <2>6, <2>7
<1> QED BY <1>5, <1>6

\* The nodes' records only grow.
LEMMA ReportedGrows ==
  ASSUME RecordInv, written' \in [StatKeys -> [Days -> Nat]],
         \A key \in StatKeys, d \in Days : written[key][d] <= written'[key][d]
  PROVE  AllReported \in Nat /\ AllReported' \in Nat /\ AllReported <= AllReported'
<1>1. \A n \in Nodes : <<"stat_server", n>> \in StatKeys
  BY DEF StatKeys
<1>2. PICK f, g : f = Reported(written') /\ g = Reported(written)
  OBVIOUS
<1>3. /\ f \in [Nodes -> [Days -> Nat]] /\ \A n \in Nodes, d \in Days : f[n][d] = written'[<<"stat_server", n>>][d]
      /\ g \in [Nodes -> [Days -> Nat]] /\ \A n \in Nodes, d \in Days : g[n][d] = written[<<"stat_server", n>>][d]
  BY <1>1, <1>2 DEF Reported, RecordInv, RowsOK
<1>4. AllReported = Total([n \in Nodes |-> Total(g[n])])
  <2>1. \A n \in Nodes : g[n] = [d \in Days |-> written[<<"stat_server", n>>][d]]
    BY <1>2 DEF Reported
  <2> QED BY <2>1 DEF AllReported
<1>5. AllReported' = Total([n \in Nodes |-> Total(f[n])])
  <2>1. \A n \in Nodes : f[n] = [d \in Days |-> written'[<<"stat_server", n>>][d]]
    BY <1>2 DEF Reported
  <2> QED BY <2>1 DEF AllReported
<1>6. \A n \in Nodes, d \in Days : g[n][d] <= f[n][d]
  BY <1>1, <1>3
<1>7. PICK x, y : x = Total([n \in Nodes |-> Total(g[n])]) /\ y = Total([n \in Nodes |-> Total(f[n])])
  OBVIOUS
<1>8. x \in Nat /\ y \in Nat /\ x <= y
  BY <1>3, <1>6, <1>7, AllMonotone
<1> QED BY <1>4, <1>5, <1>7, <1>8

\* A day's sum stays when nothing made on it changes.
LEMMA UsedSame ==
  ASSUME NEW d, \A n \in Nodes, e \in Days :
           Total(MadeIn(rows'[<<"stat_server", n>>][e], d)) = Total(MadeIn(rows[<<"stat_server", n>>][e], d))
  PROVE  TransferUsed(d)' = TransferUsed(d)
<1>1. TransferUsed(d) = Used(rows, d) /\ TransferUsed(d)' = Used(rows', d)
  BY DEF TransferUsed, MadeOn, MadeIn, Used
<1>2. Used(rows', d) = Used(rows, d)
  BY DEF Used
<1> QED BY <1>1, <1>2

\* A write leaves a day's sum alone unless it is of a stat_server job that began
\* by that day: its rows are made later, or they are not of a node.
LEMMA WriteSettles ==
  ASSUME RecordInv, NEW r \in Runners, Write(r), NEW d \in Days,
         ~(run[r].step = "stat_server" /\ run[r].at <= d)
  PROVE  TransferUsed(d)' = TransferUsed(d)
<1>1. RecordInv'
  BY WriteKeeps
<1>2. PICK seen, day, more : seen = run[r].seen /\ day = run[r].at /\ more = Additions(run[r].step, run[r].report)
  OBVIOUS
<1>3. run[r].step \in Kinds /\ day \in Days
  BY <1>2, WriteAt
<1>4. ASSUME NEW n \in Nodes, NEW e \in Days
      PROVE  Total(MadeIn(rows'[<<"stat_server", n>>][e], d)) = Total(MadeIn(rows[<<"stat_server", n>>][e], d))
  <2>0. \A m \in Nodes : <<"stat_server", m>> \in StatKeys
    BY DEF StatKeys
  <2>1. PICK key : key = <<"stat_server", n>> /\ key \in StatKeys
    BY <2>0
  <2>2. CASE ~Works(r, key, e)
    <3>1. rows'[key][e] = rows[key][e]
      BY <1>2, <2>1, <2>2, WriteAt
    <3> QED BY <2>1, <3>1
  <2>3. CASE Works(r, key, e)
    <3>1. Adding(run[r])
      BY <1>3 DEF RecordInv, RunnerOK
    <3>2. run[r].at = e /\ key \in DOMAIN run[r].seen /\ run[r].seen # <<>>
      BY <2>3 DEF Works, Write
    <3>3. key \in DOMAIN more /\ run[r].report \in Reports
      BY <1>2, <3>1, <3>2 DEF Adding
    <3>4. run[r].step = "stat_server"
      BY <1>2, <1>3, <2>1, <3>3, AdditionsAt
    <3>5. e > d
      <4>1. d \in Nat /\ e \in Nat
        BY DaysFinite
      <4> QED BY <3>2, <3>4, <4>1
    <3>6. PICK list, new : list = rows[key][e] /\ new = rows'[key][e]
      OBVIOUS
    <3>7. list \in Seq(Entry) /\ \A i \in DOMAIN list : list[i].made >= e
      BY <2>1, <3>6 DEF RecordInv, RowsOK
    <3>8. new \in Seq(Entry) /\ \A i \in DOMAIN new : new[i].made >= e
      BY <1>1, <2>1, <3>6 DEF RecordInv, RowsOK
    <3>9. \A x \in Days : x >= e => x # d
      BY <3>5, DaysFinite
    <3>10. (\A i \in DOMAIN list : list[i].made \in Days) /\ \A i \in DOMAIN new : new[i].made \in Days
      <4>1. (\A i \in DOMAIN list : list[i] \in Entry) /\ \A i \in DOMAIN new : new[i] \in Entry
        BY <3>7, <3>8
      <4> QED BY <4>1 DEF Entry
    <3>11. Total(MadeIn(list, d)) = 0
      BY <3>7, <3>9, <3>10, MadeInNothing
    <3>12. Total(MadeIn(new, d)) = 0
      BY <3>8, <3>9, <3>10, MadeInNothing
    <3> QED BY <2>1, <3>6, <3>11, <3>12
  <2> QED BY <2>2, <2>3
<1> QED BY <1>4, UsedSame

\* What was written only grows with a write.
LEMMA WriteGrows ==
  ASSUME RecordInv, NEW r \in Runners, Write(r)
  PROVE  AllReported \in Nat /\ AllReported' \in Nat /\ AllReported <= AllReported'
<1>1. PICK seen, day, more : seen = run[r].seen /\ day = run[r].at /\ more = Additions(run[r].step, run[r].report)
  OBVIOUS
<1>2. written' \in [StatKeys -> [Days -> Nat]]
  BY <1>1, WriteAt
<1>3. ASSUME NEW key \in StatKeys, NEW d \in Days PROVE written[key][d] <= written'[key][d]
  <2>1. written[key][d] \in Nat
    BY DEF RecordInv, RowsOK
  <2>2. CASE ~Works(r, key, d)
    <3>1. written'[key][d] = written[key][d]
      BY <1>1, <2>2, WriteAt
    <3> QED BY <2>1, <3>1
  <2>3. CASE Works(r, key, d)
    <3>1. more[key] \in Nat /\ written'[key][d] = written[key][d] + more[key]
      BY <1>1, <2>3, WriteAt
    <3> QED BY <2>1, <3>1
  <2> QED BY <2>2, <2>3
<1> QED BY <1>2, <1>3, ReportedGrows

\* A day that is over and has nothing open stays so, and its sum stays.
LEMMA StepSettles ==
  ASSUME RecordInv, [Next]_vars
  PROVE  /\ today <= today' /\ today \in Nat /\ today' \in Nat /\ late \subseteq late'
         /\ AllReported \in Nat /\ AllReported' \in Nat /\ AllReported <= AllReported'
         /\ \A d \in Days : d < today /\ ~StillOpen(d) => TransferUsed(d)' = TransferUsed(d) /\ ~StillOpen(d)'
<1>1. today \in Nat /\ AllReported \in Nat /\ DOMAIN run = Runners
  BY DaysFinite, NeverMore DEF RecordInv
<1>2. today <= today' /\ today' \in Nat /\ late \subseteq late'
  <2>1. today' = today \/ today' = today + 1
    BY DEF Next, NextDay, Start, Read, Write, Fail, Aggregate, CommitAggregate, vars
  <2>2. late \subseteq late'
    BY DEF Next, NextDay, Start, Read, Write, Fail, Aggregate, CommitAggregate, vars, history
  <2> QED BY <1>1, <2>1, <2>2
<1>3. AllReported' \in Nat /\ AllReported <= AllReported'
  <2>1. CASE written' = written
    <3>1. AllReported' = AllReported
      BY <2>1 DEF AllReported
    <3> QED BY <1>1, <3>1
  <2>2. CASE \E r \in Runners : Write(r)
    BY <2>2, WriteGrows
  <2>3. written' = written \/ \E r \in Runners : Write(r)
    BY DEF Next, NextDay, Start, Read, Fail, Aggregate, CommitAggregate, vars, history
  <2> QED BY <2>1, <2>2, <2>3
<1>4. ASSUME NEW d \in Days, d < today, ~StillOpen(d)
      PROVE  TransferUsed(d)' = TransferUsed(d)
  <2>1. CASE rows' = rows
    BY <2>1 DEF TransferUsed, MadeOn
  <2>2. CASE \E r \in Runners : Write(r)
    <3>1. PICK r \in Runners : Write(r)
      BY <2>2
    <3>2. ~(run[r].step = "stat_server" /\ run[r].at <= d)
      BY <1>4 DEF StillOpen
    <3> QED BY <3>1, <3>2, WriteSettles
  <2>3. rows' = rows \/ \E r \in Runners : Write(r)
    BY DEF Next, NextDay, Start, Read, Fail, Aggregate, CommitAggregate, vars, history
  <2> QED BY <2>1, <2>2, <2>3
<1>5. ASSUME NEW q \in Runners, run'[q].step = "stat_server"
      PROVE  run'[q].at = today \/ (run[q].step = "stat_server" /\ run'[q].at = run[q].at)
  <2>1. CASE run' = run
    BY <1>5, <2>1
  <2>2. ASSUME NEW r \in Runners, NEW c, run' = [run EXCEPT ![r] = c],
               c.step = "stat_server" => c.at = today \/ (run[r].step = "stat_server" /\ c.at = run[r].at)
        PROVE  run'[q].at = today \/ (run[q].step = "stat_server" /\ run'[q].at = run[q].at)
    <3>1. run'[q] = IF q = r THEN c ELSE run[q]
      BY <1>1, <2>2
    <3> QED BY <1>5, <2>2, <3>1
  <2>3. ASSUME NEW r \in Runners, NEW kind \in Kinds, NEW p \in Reports, Start(r, kind, p)
        PROVE  run'[q].at = today \/ (run[q].step = "stat_server" /\ run'[q].at = run[q].at)
    <3>1. PICK c : c = [step |-> kind, report |-> p, at |-> today, made |-> 0, seen |-> <<>>]
      OBVIOUS
    <3>2. run' = [run EXCEPT ![r] = c] /\ c.at = today
      BY <2>3, <3>1 DEF Start, Transaction
    <3> QED BY <2>2, <3>2
  <2>4. ASSUME NEW r \in Runners, Read(r)
        PROVE  run'[q].at = today \/ (run[q].step = "stat_server" /\ run'[q].at = run[q].at)
    <3>1. \E seen : run' = [run EXCEPT ![r] = Transaction(run[r].step, run[r].report, run[r].at, today, seen)]
      BY <2>4 DEF Read
    <3>2. PICK seen, c : /\ c = [step |-> run[r].step, report |-> run[r].report, at |-> run[r].at, made |-> today, seen |-> seen]
                         /\ run' = [run EXCEPT ![r] = c]
      BY <3>1 DEF Transaction
    <3>3. c.step = run[r].step /\ c.at = run[r].at
      BY <3>2
    <3> QED BY <2>2, <3>2, <3>3
  <2>5. ASSUME NEW r \in Runners, Write(r) \/ Fail(r) \/ CommitAggregate(r)
        PROVE  run'[q].at = today \/ (run[q].step = "stat_server" /\ run'[q].at = run[q].at)
    <3>1. run' = [run EXCEPT ![r] = Idle] /\ Idle.step # "stat_server"
      BY <2>5 DEF Write, Fail, CommitAggregate, Idle, Transaction
    <3> QED BY <2>2, <3>1
  <2>6. ASSUME NEW r \in Runners, Aggregate(r)
        PROVE  run'[q].at = today \/ (run[q].step = "stat_server" /\ run'[q].at = run[q].at)
    <3>1. PICK c : /\ c = [step |-> "aggregate", report |-> None, at |-> today - 1, made |-> 0,
                           seen |-> <<TransferUsed(today - 1), stat[today - 1]>>]
                   /\ run' = [run EXCEPT ![r] = c]
      BY <2>6 DEF Aggregate, Transaction
    <3>2. c.step # "stat_server"
      BY <3>1
    <3> QED BY <2>2, <3>1, <3>2
  <2>7. CASE NextDay \/ UNCHANGED vars
    <3>1. run' = run
      BY <2>7 DEF NextDay, vars
    <3> QED BY <2>1, <3>1
  <2> QED BY <2>3, <2>4, <2>5, <2>6, <2>7 DEF Next
<1>6. ASSUME NEW d \in Days, d < today, ~StillOpen(d)
      PROVE  ~StillOpen(d)'
  <2> SUFFICES ASSUME NEW q \in Runners, run'[q].step = "stat_server", run'[q].at <= d PROVE FALSE
    BY DEF StillOpen
  <2>1. CASE run'[q].at = today
    <3>1. d \in Nat
      BY DaysFinite
    <3> QED BY <1>1, <1>6, <2>1, <3>1
  <2>2. CASE run[q].step = "stat_server" /\ run'[q].at = run[q].at
    BY <1>6, <2>2 DEF StillOpen
  <2> QED BY <1>5, <2>1, <2>2
<1> QED BY <1>1, <1>2, <1>3, <1>4, <1>6

\* A sum that is final stays final.
LEMMA FinalStays ==
  ASSUME RecordInv, RecordInv', [Next]_vars, NEW d, NEW sum, Final(d, sum)
  PROVE  Final(d, sum)'
<1>1. /\ today <= today' /\ today \in Nat /\ today' \in Nat /\ late \subseteq late'
      /\ AllReported \in Nat /\ AllReported' \in Nat /\ AllReported <= AllReported'
  BY StepSettles
<1>2. d \in Days /\ d \in Nat /\ d < today /\ sum \in Nat /\ sum <= AllReported
  BY DaysFinite DEF Final
<1>3. d < today' /\ sum <= AllReported'
  BY <1>1, <1>2
<1>4. d \notin late' => sum = TransferUsed(d)' /\ ~StillOpen(d)'
  BY <1>1, <1>2, StepSettles DEF Final
<1> QED BY <1>2, <1>3, <1>4 DEF Final

\* No day is aggregated at first.
LEMMA AggregateInvInit == Init => AggregateInv
<1> SUFFICES ASSUME Init PROVE AggregateInv
  OBVIOUS
<1>1. stat = [d \in Days |-> None] /\ run = [r \in Runners |-> Idle]
  BY DEF Init
<1>2. Idle.step # "aggregate"
  BY DEF Idle, Transaction
<1>3. DOMAIN stat = Days /\ \A d \in Days : stat[d] = None
  BY <1>1
<1>4. \A r \in Runners : run[r].step # "aggregate"
  BY <1>1, <1>2
<1> QED BY <1>3, <1>4 DEF AggregateInv

\* Every step keeps the invariant of the aggregations.
LEMMA AggregateInvKept == RecordInv /\ AggregateInv /\ [Next]_vars => AggregateInv'
<1> SUFFICES ASSUME RecordInv, AggregateInv, [Next]_vars PROVE AggregateInv'
  OBVIOUS
<1>1. RecordInv'
  BY RecordInvKept
<1>2. DOMAIN run = Runners /\ DOMAIN stat = Days
  BY DEF RecordInv, AggregateInv
<1>3. \A d, sum : Final(d, sum) => Final(d, sum)'
  BY <1>1, FinalStays
<1>4. \A d \in Days : stat[d] # None => Final(d, stat[d])
  BY DEF AggregateInv
<1>5. \A r \in Runners : run[r].step = "aggregate" => Final(run[r].at, run[r].seen[1])
  BY DEF AggregateInv
<1>6. SUFFICES /\ DOMAIN stat' = Days
               /\ \A d \in Days : \A sum : stat'[d] = sum /\ sum # None => Final(d, sum)'
               /\ \A r \in Runners : \A d, sum : run'[r].step = "aggregate" /\ run'[r].at = d /\ run'[r].seen[1] = sum => Final(d, sum)'
  BY <1>6 DEF AggregateInv, Final
<1>7. \A d \in Days : \A sum : stat[d] = sum /\ sum # None => Final(d, sum)'
  BY <1>3, <1>4
<1>8. \A r \in Runners : \A d, sum : run[r].step = "aggregate" /\ run[r].at = d /\ run[r].seen[1] = sum => Final(d, sum)'
  BY <1>3, <1>5
<1>9. ASSUME NEW r \in Runners, NEW c, run' = [run EXCEPT ![r] = c],
             \A d, sum : c.step = "aggregate" /\ c.at = d /\ c.seen[1] = sum => Final(d, sum)'
      PROVE  \A q \in Runners : \A d, sum : run'[q].step = "aggregate" /\ run'[q].at = d /\ run'[q].seen[1] = sum => Final(d, sum)'
  <2>1. \A q \in Runners : run'[q] = c \/ run'[q] = run[q]
    BY <1>2, <1>9
  <2> QED BY <1>8, <1>9, <2>1
<1>10. ASSUME NEW r \in Runners, NEW c, run' = [run EXCEPT ![r] = c], c.step # "aggregate", stat' = stat
       PROVE  /\ DOMAIN stat' = Days
              /\ \A d \in Days : \A sum : stat'[d] = sum /\ sum # None => Final(d, sum)'
              /\ \A q \in Runners : \A d, sum : run'[q].step = "aggregate" /\ run'[q].at = d /\ run'[q].seen[1] = sum => Final(d, sum)'
  BY <1>2, <1>7, <1>9, <1>10
<1>11. Idle.step # "aggregate"
  BY DEF Idle, Transaction
<1>12. CASE NextDay \/ UNCHANGED vars
  BY <1>2, <1>7, <1>8, <1>12 DEF NextDay, vars
<1>13. ASSUME NEW r \in Runners, NEW kind \in Kinds, NEW p \in Reports, Start(r, kind, p)
       PROVE  \E c : run' = [run EXCEPT ![r] = c] /\ c.step # "aggregate" /\ stat' = stat
  <2>1. PICK c : c = [step |-> kind, report |-> p, at |-> today, made |-> 0, seen |-> <<>>]
    OBVIOUS
  <2>2. c.step # "aggregate"
    BY <2>1 DEF Kinds
  <2> QED BY <1>13, <2>1, <2>2 DEF Start, Transaction
<1>14. ASSUME NEW r \in Runners, Read(r)
       PROVE  \E c : run' = [run EXCEPT ![r] = c] /\ c.step # "aggregate" /\ stat' = stat
  <2>1. run[r].step \in Kinds /\ stat' = stat
        /\ \E seen : run' = [run EXCEPT ![r] = Transaction(run[r].step, run[r].report, run[r].at, today, seen)]
    BY <1>14 DEF Read
  <2>2. PICK seen, c : /\ c = [step |-> run[r].step, report |-> run[r].report, at |-> run[r].at, made |-> today, seen |-> seen]
                       /\ run' = [run EXCEPT ![r] = c]
    BY <2>1 DEF Transaction
  <2>3. c.step # "aggregate"
    BY <2>1, <2>2 DEF Kinds
  <2> QED BY <2>1, <2>2, <2>3
<1>15. ASSUME NEW r \in Runners, Write(r) \/ Fail(r)
       PROVE  run' = [run EXCEPT ![r] = Idle] /\ stat' = stat
  BY <1>15 DEF Write, Fail
<1>16. ASSUME NEW r \in Runners, Aggregate(r)
       PROVE  /\ DOMAIN stat' = Days
              /\ \A d \in Days : \A sum : stat'[d] = sum /\ sum # None => Final(d, sum)'
              /\ \A q \in Runners : \A d, sum : run'[q].step = "aggregate" /\ run'[q].at = d /\ run'[q].seen[1] = sum => Final(d, sum)'
  <2>1. PICK e, used, x, c : /\ e = today - 1 /\ used = TransferUsed(e) /\ x = <<used, stat[e]>>
                             /\ c = [step |-> "aggregate", report |-> None, at |-> e, made |-> 0, seen |-> x]
    OBVIOUS
  <2>2. run' = [run EXCEPT ![r] = c] /\ stat' = stat /\ today' = today /\ rows' = rows /\ written' = written
    BY <1>16, <2>1 DEF Aggregate, Transaction
  <2>3. e \in Days /\ e < today
    BY <1>16, <2>1, StatAssumption DEF Aggregate, RecordInv, Days
  <2>4. used \in Nat /\ used <= AllReported
    BY <2>1, <2>3, NeverMore
  <2>5. AllReported' = AllReported /\ TransferUsed(e)' = used
    BY <2>1, <2>2 DEF AllReported, TransferUsed, MadeOn
  <2>6. e \notin late' => ~StillOpen(e)
    BY <1>16, <2>1 DEF Aggregate
  <2>7. ~StillOpen(e) => ~StillOpen(e)'
    <3>1. \A q \in Runners : run'[q] = c \/ run'[q] = run[q]
      BY <1>2, <2>2
    <3>2. c.step # "stat_server"
      BY <2>1
    <3> QED BY <3>1, <3>2 DEF StillOpen
  <2>8. Final(e, used)'
    BY <2>2, <2>3, <2>4, <2>5, <2>6, <2>7 DEF Final
  <2>9. c.at = e /\ c.seen[1] = used
    BY <2>1
  <2> QED BY <1>2, <1>7, <1>9, <2>2, <2>8, <2>9
<1>17. ASSUME NEW r \in Runners, CommitAggregate(r)
       PROVE  /\ DOMAIN stat' = Days
              /\ \A d \in Days : \A sum : stat'[d] = sum /\ sum # None => Final(d, sum)'
              /\ \A q \in Runners : \A d, sum : run'[q].step = "aggregate" /\ run'[q].at = d /\ run'[q].seen[1] = sum => Final(d, sum)'
  <2>1. PICK e, used : e = run[r].at /\ used = run[r].seen[1]
    OBVIOUS
  <2>2. run[r].step = "aggregate" /\ run' = [run EXCEPT ![r] = Idle]
        /\ (stat' = stat \/ stat' = [stat EXCEPT ![e] = used])
    BY <1>17, <2>1 DEF CommitAggregate, Recorded
  <2>3. Final(e, used)'
    BY <1>8, <2>1, <2>2
  <2>4. DOMAIN stat' = Days /\ \A d \in Days : stat'[d] = stat[d] \/ (d = e /\ stat'[d] = used)
    BY <1>2, <2>2
  <2> QED BY <1>7, <1>9, <1>11, <2>2, <2>3, <2>4
<1>18. CASE \E r \in Runners : \/ \E kind \in Kinds, p \in Reports : Start(r, kind, p)
                               \/ Read(r) \/ Write(r) \/ Fail(r) \/ Aggregate(r) \/ CommitAggregate(r)
  BY <1>10, <1>11, <1>13, <1>14, <1>15, <1>16, <1>17, <1>18
<1> QED BY <1>12, <1>18 DEF Next

\* The aggregations' invariant, in every state.
LEMMA AggregateInvHolds == Spec => [](RecordInv /\ AggregateInv)
<1>1. Init => RecordInv /\ AggregateInv
  BY RecordInvInit, AggregateInvInit
<1>2. (RecordInv /\ AggregateInv) /\ [Next]_vars => (RecordInv /\ AggregateInv)'
  BY RecordInvKept, AggregateInvKept
<1> QED BY <1>1, <1>2, PTL DEF Spec

\* Of some days one is the last.
LEMMA LastDay ==
  ASSUME NEW S \in SUBSET Days, S # {}
  PROVE  \E d \in S : \A e \in S : e <= d
<1>1. PICK T : T = {n \in Nat : \A s \in SUBSET Nat : (s # {} /\ \A e \in s : e <= n) => \E d \in s : \A e \in s : e <= d}
  OBVIOUS
<1>2. 0 \in T
  <2> SUFFICES ASSUME NEW s \in SUBSET Nat, s # {}, \A e \in s : e <= 0 PROVE \E d \in s : \A e \in s : e <= d
    BY <1>1
  <2>1. \A e \in s : e = 0
    OBVIOUS
  <2> QED BY <2>1
<1>3. ASSUME NEW n \in T PROVE n + 1 \in T
  <2>1. n \in Nat
    BY <1>1
  <2> SUFFICES ASSUME NEW s \in SUBSET Nat, s # {}, \A e \in s : e <= n + 1 PROVE \E d \in s : \A e \in s : e <= d
    BY <1>1, <2>1
  <2>2. CASE n + 1 \in s
    BY <2>2
  <2>3. CASE n + 1 \notin s
    <3>1. \A e \in s : e <= n
      <4> SUFFICES ASSUME NEW e \in s PROVE e <= n
        OBVIOUS
      <4>1. e \in Nat /\ e <= n + 1 /\ e # n + 1
        BY <2>3
      <4> QED BY <2>1, <4>1
    <3> QED BY <1>1, <1>3, <3>1
  <2> QED BY <2>2, <2>3
<1>4. T = Nat
  <2>1. T \in SUBSET Nat /\ \A n \in T : n + 1 \in T
    BY <1>1, <1>3
  <2> QED BY <1>2, <2>1, AllNumbers
<1>5. S \in SUBSET Nat /\ (\A e \in S : e <= MaxDay) /\ MaxDay \in T
  BY <1>4, StatAssumption DEF Days
<1> QED BY <1>1, <1>5

\* aggregate_yesterday_stats: once a day is aggregated its row of stat stays the
\* sum of the nodes' records of that day, unless a stat_server job was under way
\* when it was read; and the overview never shows more than was reported.
THEOREM AggregatesFinal == Spec => []AggregateFinal
<1>1. RecordInv /\ AggregateInv => AggregateFinal
  <2> SUFFICES ASSUME RecordInv, AggregateInv PROVE AggregateFinal
    OBVIOUS
  <2>1. \A d \in Days : stat[d] # None => Final(d, stat[d])
    BY DEF AggregateInv
  <2>2. \A d \in Days : stat[d] # None /\ d \notin late => stat[d] = TransferUsed(d)
    BY <2>1 DEF Final
  <2>3. Overview <= AllReported
    <3>1. PICK known : known = {d \in Days : stat[d] # None}
      OBVIOUS
    <3>2. CASE known = {}
      BY <3>1, <3>2, NeverMore DEF Overview
    <3>3. CASE known # {}
      <4>1. PICK d : d = CHOOSE x \in known : \A e \in known : e <= x
        OBVIOUS
      <4>2. d \in known
        <5>1. \E x \in known : \A e \in known : e <= x
          BY <3>1, <3>3, LastDay
        <5> QED BY <4>1, <5>1
      <4>3. Overview = stat[d]
        BY <3>1, <3>3, <4>1 DEF Overview
      <4> QED BY <2>1, <3>1, <4>2, <4>3 DEF Final
    <3> QED BY <3>2, <3>3
  <2> QED BY <2>2, <2>3 DEF AggregateFinal, AllReported
<1> QED BY <1>1, AggregateInvHolds, PTL
=============================================================================
