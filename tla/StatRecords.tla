----------------------------- MODULE StatRecords -----------------------------
(***************************************************************************)
(* The daily records: stat_user and stat_server add what the nodes report  *)
(* to rows of their day, which they read without a lock and write back     *)
(* with the sum; aggregate_yesterday_stats sums up a day that is over into *)
(* one row of stat, in several statements of one READ COMMITTED            *)
(* transaction.  A day is a tick of the clock; upload and download are one *)
(* number; of the columns of stat the model keeps the traffic, the one     *)
(* whose rows may still change when the day is over.                       *)
(***************************************************************************)
EXTENDS Integers, FiniteSets, Sequences, Functions

CONSTANTS
  Users, Nodes,
  Rate,       \* rate of each node
  Reports,    \* what the nodes report
  Report,     \* the node and the traffic of each user in a report
  Runners,    \* jobs the workers run at the same time
  Cron,       \* bound: the days that end with an aggregation
  MaxDay,     \* bound on the clock
  MaxFails,   \* bound on jobs that fail for other reasons
  None

Kinds == {"stat_user", "stat_server"}
Days == 0..MaxDay

StatKeys == {<<"stat_user", u, Rate[n]>> : u \in Users, n \in Nodes}
            \cup {<<"stat_server", n>> : n \in Nodes}

ASSUME StatAssumption ==
  /\ Rate \in [Nodes -> Nat]
  /\ IsFiniteSet(Users) /\ IsFiniteSet(Nodes)
  /\ \A p \in Reports : /\ Report[p].node \in Nodes
                        /\ Report[p].load \in [DOMAIN Report[p].load -> Nat]
                        /\ DOMAIN Report[p].load \subseteq Users
                        /\ DOMAIN Report[p].load # {}
  /\ None \notin Reports /\ None \notin Nat
  /\ Cron \subseteq Days /\ MaxDay \in Nat /\ MaxFails \in Nat

VARIABLES
  today,
  queued,     \* jobs on the queue, of each kind and report
  due,        \* aggregations on the queue
  run,        \* the transaction of each runner
  rows,       \* rows[key][d]: the rows of a record of day d, oldest first
  stat,       \* the row of stat of each day
  fails,
  \* history
  written,    \* what the committed jobs were to add to each record
  overlapped, \* records that two transactions worked on at the same time
  late        \* days that were aggregated while something of them was open

history == <<written, overlapped, late>>
vars == <<today, queued, due, run, rows, stat, fails, history>>

Transaction(step, report, at, made, seen) ==
  [step |-> step, report |-> report, at |-> at, made |-> made, seen |-> seen]

Idle == Transaction("idle", None, 0, 0, <<>>)

Init ==
  /\ today = 0
  /\ queued = [j \in Kinds \X Reports |-> 1]
  /\ due = 0
  /\ run = [r \in Runners |-> Idle]
  /\ rows = [key \in StatKeys |-> [d \in Days |-> <<>>]]
  /\ stat = [d \in Days |-> None]
  /\ fails = 0
  /\ written = [key \in StatKeys |-> [d \in Days |-> 0]]
  /\ overlapped = {} /\ late = {}

-----------------------------------------------------------------------------
(***************************************************************************)
(* stat_user and stat_server.                                              *)
(***************************************************************************)
Total(load) == SumFunction(load)

\* The records a job adds to, and how much to each: not multiplied by the rate.
Additions(kind, p) ==
  LET node == Report[p].node IN
  IF kind = "stat_user"
  THEN [key \in {<<"stat_user", u, Rate[node]>> : u \in DOMAIN Report[p].load}
          |-> Report[p].load[key[2]]]
  ELSE [key \in {<<"stat_server", node>>} |-> Total(Report[p].load)]

\* The job computes the day it adds to before its transaction begins.
Start(r, kind, p) ==
  /\ run[r] = Idle
  /\ queued[<<kind, p>>] > 0
  /\ queued' = [queued EXCEPT ![<<kind, p>>] = @ - 1]
  /\ run' = [run EXCEPT ![r] = Transaction(kind, p, today, 0, <<>>)]
  /\ UNCHANGED <<today, due, rows, stat, fails, history>>

\* Mutant: the row of the day is not looked for.
PositionsNone(kind, key, d) == {0}

\* The position of the row to add to, 0 for a new one.  Of several, stat_user
\* takes any; scalar_one_or_none of stat_server raises.
Positions(kind, key, d) ==
  LET n == Len(rows[key][d]) IN
  IF n > 1 /\ kind = "stat_server" THEN {} ELSE {i \in 0..n : i = 0 <=> n = 0}

Sum(key, d, i) == IF i = 0 THEN 0 ELSE rows[key][d][i].sum

Read(r) ==
  LET kind == run[r].step
      d == run[r].at
      keys == DOMAIN Additions(kind, run[r].report) IN
  /\ kind \in Kinds /\ run[r].seen = <<>>
  /\ \E at \in [keys -> 0..Cardinality(Runners)] :
       /\ \A key \in keys : at[key] \in Positions(kind, key, d)
       /\ run' = [run EXCEPT ![r] = Transaction(kind, run[r].report, d, today,
                                       [key \in keys |-> <<at[key], Sum(key, d, at[key])>>])]
  /\ overlapped' = overlapped \cup
       {<<key, d>> : key \in {k \in keys : \E q \in Runners \ {r} :
                                 /\ run[q].step \in Kinds /\ run[q].at = d
                                 /\ k \in DOMAIN run[q].seen}}
  /\ UNCHANGED <<today, queued, due, rows, stat, fails, written, late>>

\* The row that was found gets the sum, or a new row is inserted: no unique key
\* prevents a second.
Stored(list, i, row) ==
  IF i = 0 THEN Append(list, row) ELSE [list EXCEPT ![i] = [sum |-> row.sum, made |-> list[i].made]]

Write(r) ==
  LET kind == run[r].step
      d == run[r].at
      seen == run[r].seen
      more == Additions(kind, run[r].report)
      new(key) == [sum |-> seen[key][2] + more[key], made |-> run[r].made] IN
  /\ kind \in Kinds /\ seen # <<>>
  /\ rows' = [key \in StatKeys |->
       IF key \notin DOMAIN seen THEN rows[key]
       ELSE [rows[key] EXCEPT ![d] = Stored(@, seen[key][1], new(key))]]
  /\ written' = [key \in StatKeys |-> IF key \in DOMAIN seen
                                      THEN [written[key] EXCEPT ![d] = @ + more[key]]
                                      ELSE written[key]]
  /\ run' = [run EXCEPT ![r] = Idle]
  /\ UNCHANGED <<today, queued, due, stat, fails, overlapped, late>>

\* The job raises, because two rows stand where one should or for a reason of
\* its own; it is tried again or given up.
Fail(r) ==
  /\ run[r].step \in Kinds
  /\ \/ /\ run[r].seen = <<>>
        /\ \E key \in DOMAIN Additions(run[r].step, run[r].report) :
             Positions(run[r].step, key, run[r].at) = {}
        /\ UNCHANGED <<queued, fails>>
     \/ /\ fails < MaxFails /\ fails' = fails + 1
        /\ \E again \in {0, 1} :
             queued' = [queued EXCEPT ![<<run[r].step, run[r].report>>] = @ + again]
  /\ run' = [run EXCEPT ![r] = Idle]
  /\ UNCHANGED <<today, due, rows, stat, history>>

-----------------------------------------------------------------------------
(***************************************************************************)
(* The end of a day, and its aggregation.                                  *)
(***************************************************************************)
\* Midnight, and the job of pg_cron five minutes later.
NextDay ==
  /\ today < MaxDay /\ today' = today + 1
  /\ due' = IF today \in Cron THEN due + 1 ELSE due
  /\ UNCHANGED <<queued, run, rows, stat, fails, history>>

\* The sum over the rows of one record that were made on day d.
MadeOn(key, d) ==
  Total([e \in Days |-> Total([i \in DOMAIN rows[key][e] |->
                          IF rows[key][e][i].made = d THEN rows[key][e][i].sum ELSE 0])])

\* Mutant: the end of the day belongs to it.
TransferUsedInclusive(d) ==
  Total([n \in Nodes |-> MadeOn(<<"stat_server", n>>, d)
                         + IF d < MaxDay THEN MadeOn(<<"stat_server", n>>, d + 1) ELSE 0])

\* _generate_stat_data: created_at in [record_at, record_at + 86400)
TransferUsed(d) == Total([n \in Nodes |-> MadeOn(<<"stat_server", n>>, d)])

\* A stat_server transaction that began to add to day d or an earlier one.
StillOpen(d) == \E r \in Runners : run[r].step = "stat_server" /\ run[r].at <= d

\* aggregate_stats up to its query for the row of the day; the day it
\* aggregates is the one before the day it runs on.
Aggregate(r) ==
  LET d == today - 1 IN
  /\ run[r] = Idle /\ due > 0 /\ today > 0
  /\ due' = due - 1
  /\ run' = [run EXCEPT ![r] = Transaction("aggregate", None, d, 0, <<TransferUsed(d), stat[d]>>)]
  /\ late' = IF StillOpen(d) THEN late \cup {d} ELSE late
  /\ UNCHANGED <<today, queued, rows, stat, fails, written, overlapped>>

\* setattr of every column
Recorded(old, new) == new

\* The row is updated or inserted; a second insertion meets uq_stat_record_at,
\* and the job is tried again.
CommitAggregate(r) ==
  LET d == run[r].at IN
  /\ run[r].step = "aggregate"
  /\ IF run[r].seen[2] = None /\ stat[d] # None
     THEN due' = due + 1 /\ UNCHANGED stat
     ELSE stat' = [stat EXCEPT ![d] = Recorded(@, run[r].seen[1])] /\ UNCHANGED due
  /\ run' = [run EXCEPT ![r] = Idle]
  /\ UNCHANGED <<today, queued, rows, fails, history>>

-----------------------------------------------------------------------------
Next ==
  \/ NextDay
  \/ \E r \in Runners :
       \/ \E kind \in Kinds, p \in Reports : Start(r, kind, p)
       \/ Read(r) \/ Write(r) \/ Fail(r) \/ Aggregate(r) \/ CommitAggregate(r)

Spec == Init /\ [][Next]_vars

-----------------------------------------------------------------------------
(***************************************************************************)
(* Queries: StatService.  A rank groups the rows of a period by record.    *)
(***************************************************************************)
PeriodDays(period) == [yesterday |-> {today - 1}, today |-> {today}, all |-> Days][period]

\* What a rank shows of a record.
Ranked(key, period) ==
  Total([d \in PeriodDays(period) \cap Days |-> Total([i \in DOMAIN rows[key][d] |-> rows[key][d][i].sum])])

\* The last row of stat, or the sum over everything if there is none.
Overview ==
  LET known == {d \in Days : stat[d] # None} IN
  IF known = {} THEN Total([n \in Nodes |-> Ranked(<<"stat_server", n>>, "all")])
  ELSE stat[CHOOSE d \in known : \A e \in known : e <= d]

-----------------------------------------------------------------------------
(***************************************************************************)
(* Properties.                                                             *)
(***************************************************************************)
\* A record is one row with all that was added to it, unless two jobs worked on
\* it at the same time; such jobs lose traffic, they never add any
\* (_record_stat_user, _record_stat_server).
RecordExact ==
  \A key \in StatKeys, d \in Days :
    LET kept == Total([i \in DOMAIN rows[key][d] |-> rows[key][d][i].sum]) IN
    /\ kept <= written[key][d]
    /\ <<key, d>> \notin overlapped => Len(rows[key][d]) <= 1 /\ kept = written[key][d]

\* Once a day is aggregated, its row of stat stays the sum of its records: what
\* is still queued at midnight goes to the next day, and only a stat_server job
\* that was under way when the aggregation read can make a difference.  The
\* overview, the last aggregated day or else the sum of all records, never shows
\* more traffic than the nodes have reported.
AggregateFinal ==
  /\ \A d \in Days : stat[d] # None /\ d \notin late => stat[d] = TransferUsed(d)
  /\ Overview <= Total([n \in Nodes |-> Total([d \in Days |-> written[<<"stat_server", n>>][d]])])
=============================================================================
