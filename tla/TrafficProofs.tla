---------------------------- MODULE TrafficProofs ----------------------------
(***************************************************************************)
(* Theorems about Traffic for any number of users, nodes, reports, jobs at *)
(* a time and faults.                                                      *)
(***************************************************************************)
EXTENDS Traffic, SumTheorems

(***************************************************************************)
(* The inductive invariant.  Conserved adds numbers of the tables, so it   *)
(* needs that they are numbers; and a commit of traffic_fetch adds one     *)
(* only if the runner that commits works on a report.                      *)
(***************************************************************************)
Transaction ==
  [step : {"idle", "fetch", "flush"}, push : Pushes \cup {None},
   left : SUBSET Users, got : SUBSET Users]

RunOK ==
  /\ run \in [Runners -> Transaction]
  /\ \A r \in Runners : run[r].step = "fetch" => run[r].push \in Pushes
  /\ \A r \in Runners : run[r].step # "fetch" => run[r].push = None

JobsOK ==
  /\ push \in [Pushes -> Kinds \cup {"done"}]
  /\ queued \in [Pushes -> Nat]
  /\ RunOK

CountersOK ==
  /\ active \in [Users -> Nat] /\ used \in [Users -> Nat]
  /\ credited \in [Users -> Nat] /\ lost \in [Users -> Nat] /\ cleared \in [Users -> Nat]

MembersOK ==
  /\ present \subseteq Users /\ allowed \subseteq Users
  /\ served \in [Nodes -> SUBSET Users]

TInv == JobsOK /\ CountersOK /\ MembersOK /\ Conserved

jobs == <<push, queued, run>>
counters == <<active, used, history>>
members == <<present, allowed, served>>

\* int(Decimal(traffic) * rate) of a report is a number of bytes.
LEMMA AmountType == \A p \in Pushes, u \in Users : Amount(p, u) \in Nat
<1> SUFFICES ASSUME NEW p \in Pushes, NEW u \in Users PROVE Amount(p, u) \in Nat
  OBVIOUS
<1>1. CASE u \in Reported(p)
  <2>1. Report[p].load[u] \in Nat /\ Rate[Report[p].node] \in Nat
    BY <1>1, TrafficAssumption DEF Reported
  <2>2. \A a, b \in Nat : (a * b) \div 10 \in Nat
    OBVIOUS
  <2> QED BY <1>1, <2>1, <2>2 DEF Amount
<1>2. CASE u \notin Reported(p)
  BY <1>2 DEF Amount
<1> QED BY <1>1, <1>2

\* A runner between two jobs.
LEMMA IdleType == Idle \in Transaction /\ Idle.step # "fetch" /\ Idle.push = None
  BY DEF Idle, Transaction

\* The database and the reports the program starts with.
LEMMA InitTInv == Init => TInv
<1> SUFFICES ASSUME Init PROVE TInv
  OBVIOUS
<1>1. JobsOK
  BY IdleType DEF Init, JobsOK, RunOK, Kinds
<1>2. CountersOK
  BY DEF Init, CountersOK
<1>3. MembersOK
  BY TrafficAssumption DEF Init, MembersOK
<1>4. Conserved
  BY DEF Init, Conserved
<1> QED BY <1>1, <1>2, <1>3, <1>4 DEF TInv

\* What leaves the counters alone leaves their sum alone.
LEMMA CountersStay == TInv /\ UNCHANGED counters => CountersOK' /\ Conserved'
  BY DEF TInv, counters, history, CountersOK, Conserved

\* What leaves the jobs alone keeps their types.
LEMMA JobsStay == TInv /\ UNCHANGED jobs => JobsOK'
  BY DEF TInv, jobs, JobsOK, RunOK

\* What leaves the users and their lists alone keeps their types.
LEMMA MembersStay == TInv /\ UNCHANGED members => MembersOK'
  BY DEF TInv, members, MembersOK

\* A rollback frees the runners and counts the jobs that it puts back.
LEMMA RollBackType ==
  ASSUME TInv, NEW runners \in SUBSET Runners, NEW retried \in SUBSET Runners,
         RollBack(runners, retried)
  PROVE  RunOK' /\ queued' \in [Pushes -> Nat]
<1>1. RunOK'
  BY IdleType DEF RollBack, TInv, JobsOK, RunOK
<1>2. ASSUME NEW p \in Pushes
      PROVE  queued[p] + Cardinality({r \in retried : run[r].push = p}) \in Nat
  <2>1. IsFiniteSet({r \in retried : run[r].push = p})
    BY FS_Subset, TrafficAssumption
  <2>2. Cardinality({r \in retried : run[r].push = p}) \in Nat
    BY <2>1, FS_CardinalityType
  <2>3. queued[p] \in Nat
    BY DEF TInv, JobsOK
  <2> QED BY <2>2, <2>3
<1> QED BY <1>1, <1>2 DEF RollBack

\* Requests of the nodes: only jobs are enqueued.
LEMMA PushKeeps ==
  ASSUME TInv, NEW p \in Pushes, EnqueueJob(p) \/ PushFails(p)
  PROVE  TInv'
<1>1. CountersOK' /\ Conserved'
  BY CountersStay DEF EnqueueJob, PushFails, counters, tables, history
<1>2. MembersOK'
  BY MembersStay DEF EnqueueJob, PushFails, members, tables
<1>3. push' \in [Pushes -> Kinds \cup {"done"}] /\ queued' \in [Pushes -> Nat]
  BY DEF EnqueueJob, PushFails, TInv, JobsOK, NextStep, Kinds
<1>4. RunOK'
  BY DEF EnqueueJob, PushFails, TInv, JobsOK, RunOK
<1> QED BY <1>1, <1>2, <1>3, <1>4 DEF TInv, JobsOK

\* traffic_fetch and the flush take their rows: nothing is counted yet.
LEMMA LockingKeeps ==
  ASSUME TInv, NEW r \in Runners,
         \/ \E p \in Pushes : StartFetch(r, p)
         \/ StartFlush(r)
         \/ \E u \in Users : LockRow(r, u)
  PROVE  TInv'
<1>1. CountersOK' /\ Conserved'
  BY CountersStay DEF StartFetch, StartFlush, LockRow, counters, tables, history
<1>2. MembersOK'
  BY MembersStay DEF StartFetch, StartFlush, LockRow, members, tables
<1>3. push' \in [Pushes -> Kinds \cup {"done"}] /\ queued' \in [Pushes -> Nat]
  <2>1. CASE \E p \in Pushes : StartFetch(r, p)
    BY <2>1 DEF StartFetch, TInv, JobsOK
  <2>2. CASE StartFlush(r) \/ \E u \in Users : LockRow(r, u)
    BY <2>2 DEF StartFlush, LockRow, TInv, JobsOK
  <2> QED BY <2>1, <2>2
<1>4. RunOK'
  <2>1. CASE \E p \in Pushes : StartFetch(r, p)
    BY <2>1, TrafficAssumption DEF StartFetch, TInv, JobsOK, RunOK, Transaction, Reported
  <2>2. CASE StartFlush(r)
    <3> DEFINE next == [run[r] EXCEPT !.step = "flush", !.left = {u \in Users : active[u] > 0}]
    <3>1. run[r] \in Transaction /\ run[r].push = None
      BY <2>2, IdleType DEF StartFlush, TInv, JobsOK, RunOK
    <3>2. next \in Transaction /\ next.step = "flush" /\ next.push = None
      BY <3>1 DEF Transaction
    <3>3. run' = [run EXCEPT ![r] = next]
      BY <2>2 DEF StartFlush, TInv, JobsOK, RunOK
    <3> HIDE DEF next
    <3> QED BY <3>2, <3>3 DEF TInv, JobsOK, RunOK
  <2>3. CASE \E u \in Users : LockRow(r, u)
    <3>1. PICK u \in Users : LockRow(r, u)
      BY <2>3
    <3> DEFINE next == [run[r] EXCEPT !.left = @ \ {u}, !.got = @ \cup {u}]
    <3>2. run[r] \in Transaction
      BY DEF TInv, JobsOK, RunOK
    <3>3. next \in Transaction /\ next.step = run[r].step /\ next.push = run[r].push
      BY <3>2 DEF Transaction
    <3>4. run' = [run EXCEPT ![r] = next]
      BY <3>1 DEF LockRow, TInv, JobsOK, RunOK
    <3> HIDE DEF next
    <3> QED BY <3>3, <3>4 DEF TInv, JobsOK, RunOK
  <2> QED BY <2>1, <2>2, <2>3
<1> QED BY <1>1, <1>2, <1>3, <1>4 DEF TInv, JobsOK

\* A committed traffic_fetch: the cache and the history grow together.
LEMMA FetchKeeps ==
  ASSUME TInv, NEW r \in Runners, CommitFetch(r)
  PROVE  TInv'
<1>1. run[r].push \in Pushes
  BY DEF CommitFetch, TInv, JobsOK, RunOK
<1>2. CountersOK'
  BY <1>1, AmountType DEF CommitFetch, TInv, CountersOK
<1>3. Conserved'
  <2> SUFFICES ASSUME NEW u \in Users
               PROVE  (used[u] + active[u] + cleared[u] + lost[u] = credited[u])'
    BY DEF Conserved
  <2>1. Amount(run[r].push, u) \in Nat
    BY <1>1, AmountType
  <2>2. /\ used[u] \in Nat /\ active[u] \in Nat /\ cleared[u] \in Nat /\ lost[u] \in Nat
        /\ used[u] + active[u] + cleared[u] + lost[u] = credited[u]
    BY DEF TInv, CountersOK, Conserved
  <2>3. /\ used'[u] = used[u] /\ cleared'[u] = cleared[u] /\ lost'[u] = lost[u]
        /\ active'[u] = active[u] + Amount(run[r].push, u)
        /\ credited'[u] = credited[u] + Amount(run[r].push, u)
    BY DEF CommitFetch
  <2> HIDE DEF Amount
  <2> QED BY <2>1, <2>2, <2>3
<1>4. JobsOK'
  BY IdleType DEF CommitFetch, TInv, JobsOK, RunOK
<1>5. MembersOK'
  BY MembersStay DEF CommitFetch, members
<1> QED BY <1>2, <1>3, <1>4, <1>5 DEF TInv

\* A committed flush moves what it has locked to the bill of every user that
\* still has a row; the rest of it is lost.
LEMMA FlushKeeps ==
  ASSUME TInv, NEW r \in Runners, CommitFlush(r)
  PROVE  TInv'
<1>1. CountersOK'
  BY DEF CommitFlush, Applied, Remaining, TInv, CountersOK
<1>2. Conserved'
  <2> SUFFICES ASSUME NEW u \in Users
               PROVE  (used[u] + active[u] + cleared[u] + lost[u] = credited[u])'
    BY DEF Conserved
  <2>1. /\ used[u] \in Nat /\ active[u] \in Nat /\ cleared[u] \in Nat /\ lost[u] \in Nat
        /\ used[u] + active[u] + cleared[u] + lost[u] = credited[u]
    BY DEF TInv, CountersOK, Conserved
  <2>2. cleared'[u] = cleared[u] /\ credited'[u] = credited[u]
    BY DEF CommitFlush
  <2>3. CASE u \in run[r].got /\ u \in present
    <3>1. used'[u] = used[u] + active[u] /\ active'[u] = 0 /\ lost'[u] = lost[u]
      BY <2>3 DEF CommitFlush, Applied, Remaining
    <3> QED BY <2>1, <2>2, <3>1
  <2>4. CASE u \in run[r].got /\ u \notin present
    <3>1. used'[u] = used[u] /\ active'[u] = 0 /\ lost'[u] = lost[u] + active[u]
      BY <2>4 DEF CommitFlush, Applied, Remaining
    <3> QED BY <2>1, <2>2, <3>1
  <2>5. CASE u \notin run[r].got
    <3>1. used'[u] = used[u] /\ active'[u] = active[u] /\ lost'[u] = lost[u]
      BY <2>5 DEF CommitFlush, Applied, Remaining
    <3> QED BY <2>1, <2>2, <3>1
  <2> QED BY <2>3, <2>4, <2>5
<1>3. JobsOK'
  BY IdleType DEF CommitFlush, TInv, JobsOK, RunOK
<1>4. MembersOK'
  BY MembersStay DEF CommitFlush, members
<1> QED BY <1>1, <1>2, <1>3, <1>4 DEF TInv

\* A transaction that ends early has counted nothing.
LEMMA AbortKeeps ==
  ASSUME TInv, NEW r \in Runners, DeadlockAbort(r) \/ JobFails(r)
  PROVE  TInv'
<1>1. PICK retried \in SUBSET Runners : RollBack({r}, retried)
  BY DEF DeadlockAbort, JobFails
<1>2. RunOK' /\ queued' \in [Pushes -> Nat]
  BY <1>1, RollBackType
<1>3. push' = push /\ UNCHANGED counters /\ UNCHANGED members
  BY DEF DeadlockAbort, JobFails, counters, members, tables, history
<1>4. JobsOK'
  BY <1>2, <1>3 DEF TInv, JobsOK
<1> QED BY <1>3, <1>4, CountersStay, MembersStay DEF TInv

\* A crash of the database empties the cache into what is lost.
LEMMA CrashKeeps ==
  ASSUME TInv, DatabaseCrash
  PROVE  TInv'
<1>1. PICK retried \in SUBSET Runners : RollBack(Runners, retried)
  BY DEF DatabaseCrash
<1>2. RunOK' /\ queued' \in [Pushes -> Nat]
  BY <1>1, RollBackType
<1>3. push' \in [Pushes -> Kinds \cup {"done"}]
  BY DEF DatabaseCrash, TInv, JobsOK, Kinds
<1>4. CountersOK'
  BY DEF DatabaseCrash, TInv, CountersOK
<1>5. Conserved'
  BY DEF DatabaseCrash, TInv, CountersOK, Conserved
<1>6. MembersOK'
  BY MembersStay DEF DatabaseCrash, members
<1> QED BY <1>2, <1>3, <1>4, <1>5, <1>6 DEF TInv, JobsOK

\* Resets, bans and deletions take from the bill what they record as cleared.
LEMMA AccountsKeep ==
  ASSUME TInv, NEW u \in Managed, Clear(u) \/ Suspend(u) \/ DeleteUser(u)
  PROVE  TInv'
<1>1. u \in Users
  BY TrafficAssumption
<1>2. JobsOK'
  BY JobsStay DEF Clear, Suspend, DeleteUser, jobs
<1>3. MembersOK'
  BY DEF Clear, Suspend, DeleteUser, TInv, MembersOK
<1>4. CountersOK'
  BY <1>1 DEF Clear, Suspend, DeleteUser, AfterReset, TInv, CountersOK, history
<1>5. Conserved'
  BY <1>1 DEF Clear, Suspend, DeleteUser, AfterReset, TInv, CountersOK, Conserved, history
<1> QED BY <1>2, <1>3, <1>4, <1>5 DEF TInv

\* A node takes over the list of its users.
LEMMA PullKeeps ==
  ASSUME TInv, NEW n \in Nodes, Pull(n)
  PROVE  TInv'
<1>1. JobsOK'
  BY JobsStay DEF Pull, jobs
<1>2. CountersOK' /\ Conserved'
  BY CountersStay DEF Pull, counters, tables, history
<1>3. MembersOK'
  BY TrafficAssumption DEF Pull, tables, AvailableUsers, TInv, MembersOK
<1> QED BY <1>1, <1>2, <1>3 DEF TInv

\* Every step of the system keeps the invariant.
LEMMA NextTInv == TInv /\ [Next]_vars => TInv'
<1> SUFFICES ASSUME TInv, [Next]_vars PROVE TInv'
  OBVIOUS
<1>1. CASE \E p \in Pushes : EnqueueJob(p) \/ PushFails(p)
  BY <1>1, PushKeeps
<1>2. CASE \E r \in Runners : Work(r)
  BY <1>2, LockingKeeps, FetchKeeps, FlushKeeps, AbortKeeps DEF Work
<1>3. CASE \E r \in Runners : JobFails(r)
  BY <1>3, AbortKeeps
<1>4. CASE \E r \in Runners, u \in Users : LockRow(r, u)
  BY <1>4, LockingKeeps
<1>5. CASE DatabaseCrash
  BY <1>5, CrashKeeps
<1>6. CASE \E u \in Managed : Clear(u) \/ Suspend(u) \/ DeleteUser(u)
  BY <1>6, AccountsKeep
<1>7. CASE \E n \in Nodes : Pull(n)
  BY <1>7, PullKeeps
<1>8. CASE UNCHANGED vars
  <2>1. UNCHANGED jobs /\ UNCHANGED counters /\ UNCHANGED members
    BY <1>8 DEF vars, jobs, counters, members, tables, history
  <2> QED BY <2>1, JobsStay, CountersStay, MembersStay DEF TInv
<1> QED BY <1>1, <1>2, <1>3, <1>4, <1>5, <1>6, <1>7, <1>8 DEF Next

\* The strengthened invariant holds at all times.
LEMMA TInvHolds == Spec => []TInv
  BY InitTInv, NextTInv, PTL DEF Spec

\* Every table, transaction and counter keeps its type: no interleaving of
\* flushes, resets and deletions makes a counter of a user negative.
THEOREM TrafficTypeCorrect == Spec => []TypeOK
<1>1. TInv => TypeOK
  BY DEF TInv, JobsOK, RunOK, Transaction, CountersOK, MembersOK, TypeOK
<1> QED BY <1>1, TInvHolds, PTL

\* Traffic that a traffic_fetch has added is billed, in the cache, reset or
\* lost with the cache, exactly once, whatever increments, flushes, rollbacks,
\* crashes and deletions interleave.
THEOREM TrafficConserved == Spec => []Conserved
<1>1. TInv => Conserved
  BY DEF TInv
<1> QED BY <1>1, TInvHolds, PTL

-----------------------------------------------------------------------------
(***************************************************************************)
(* Traffic implements TrafficContract.  What waits for a user is the cache *)
(* row and the reports in jobs, as often as they are queued or running; so *)
(* a step is followed through the number of jobs of each report.           *)
(***************************************************************************)
\* The runners that work on a report, and the traffic of w[p] jobs of each.
Fetching(p) == {r \in Runners : run[r].step = "fetch" /\ run[r].push = p}
Loads(w, u) == [p \in Pushes |-> w[p] * Amount(p, u)]
Jobs(w, u) == SumFunctionOnSet(Loads(w, u), Pushes)

\* Products of counts and amounts.
LEMMA Products ==
  /\ \A a, b \in Nat : a * b \in Nat
  /\ \A a, b, c \in Nat : a <= b => a * c <= b * c
  /\ \A a, c \in Nat : (a + 1) * c = a * c + c
<1>1. \A a, b \in Nat : a * b \in Nat
  OBVIOUS
<1>2. ASSUME NEW a \in Nat, NEW b \in Nat, NEW c \in Nat, a <= b PROVE a * c <= b * c
  BY <1>2
<1>3. \A a, c \in Nat : (a + 1) * c = a * c + c
  OBVIOUS
<1> QED BY <1>1, <1>2, <1>3

\* The traffic of jobs is a number, ...
LEMMA LoadsType ==
  ASSUME NEW w \in [Pushes -> Nat], NEW u \in Users
  PROVE  Jobs(w, u) \in Nat /\ \A p \in Pushes : Loads(w, u)[p] \in Nat /\ Loads(w, u)[p] = w[p] * Amount(p, u)
<1>1. \A p \in Pushes : Loads(w, u)[p] = w[p] * Amount(p, u) /\ Loads(w, u)[p] \in Nat
  BY AmountType, Products DEF Loads
<1>2. IsFiniteSet(Pushes)
  BY TrafficAssumption
<1> QED BY <1>1, <1>2, SumType DEF Jobs

\* ... that grows with them, ...
LEMMA MoreJobs ==
  ASSUME NEW w \in [Pushes -> Nat], NEW v \in [Pushes -> Nat], NEW u \in Users, \A p \in Pushes : v[p] <= w[p]
  PROVE  Jobs(v, u) <= Jobs(w, u)
<1>1. IsFiniteSet(Pushes)
  BY TrafficAssumption
<1>2. ASSUME NEW p \in Pushes
      PROVE  Loads(w, u)[p] \in Nat /\ Loads(v, u)[p] \in Nat /\ Loads(v, u)[p] <= Loads(w, u)[p]
  <2>1. /\ Loads(w, u)[p] = w[p] * Amount(p, u) /\ Loads(w, u)[p] \in Nat
        /\ Loads(v, u)[p] = v[p] * Amount(p, u) /\ Loads(v, u)[p] \in Nat
    BY LoadsType
  <2>2. v[p] * Amount(p, u) <= w[p] * Amount(p, u)
    BY AmountType, Products
  <2> QED BY <2>1, <2>2
<1> QED BY <1>1, <1>2, SumMonotone DEF Jobs

\* ... and that a job less makes smaller by what the job was to add.
LEMMA OneJobLess ==
  ASSUME NEW w \in [Pushes -> Nat], NEW v \in [Pushes -> Nat], NEW u \in Users, NEW p \in Pushes,
         w[p] = v[p] + 1, \A q \in Pushes \ {p} : v[q] = w[q]
  PROVE  Jobs(v, u) + Amount(p, u) = Jobs(w, u)
<1>1. IsFiniteSet(Pushes)
  BY TrafficAssumption
<1>2. \A q \in Pushes : /\ Loads(w, u)[q] = w[q] * Amount(q, u) /\ Loads(w, u)[q] \in Nat
                        /\ Loads(v, u)[q] = v[q] * Amount(q, u) /\ Loads(v, u)[q] \in Nat
  BY LoadsType
<1>3. \A q \in Pushes \ {p} : Loads(v, u)[q] = Loads(w, u)[q]
  BY <1>2
<1>4. Jobs(v, u) + Loads(w, u)[p] = Jobs(w, u) + Loads(v, u)[p]
  BY <1>1, <1>2, <1>3, SumChange DEF Jobs
<1>5. Loads(w, u)[p] = Loads(v, u)[p] + Amount(p, u)
  <2>1. (v[p] + 1) * Amount(p, u) = v[p] * Amount(p, u) + Amount(p, u)
    BY AmountType, Products
  <2> QED BY <1>2, <2>1
<1>6. Jobs(v, u) \in Nat /\ Jobs(w, u) \in Nat /\ Loads(v, u)[p] \in Nat /\ Amount(p, u) \in Nat
  BY <1>2, LoadsType, AmountType
<1> QED BY <1>4, <1>5, <1>6

\* How many jobs of a report there are.
LEMMA WaitingIs ==
  ASSUME TInv, NEW p \in Pushes
  PROVE  /\ Waiting(p) \in Nat /\ queued[p] \in Nat /\ IsFiniteSet(Fetching(p)) /\ Cardinality(Fetching(p)) \in Nat
         /\ Waiting(p) = queued[p] + Cardinality(Fetching(p))
<1>1. IsFiniteSet(Fetching(p)) /\ Cardinality(Fetching(p)) \in Nat
  BY TrafficAssumption, FS_Subset, FS_CardinalityType DEF Fetching
<1>2. queued[p] \in Nat
  BY DEF TInv, JobsOK
<1>3. Waiting(p) = queued[p] + Cardinality(Fetching(p))
  BY DEF Waiting, Fetching
<1> QED BY <1>1, <1>2, <1>3

\* What waits, before and after a step.
LEMMA PendingIs ==
  ASSUME NEW u \in Users, NEW w, w = [p \in Pushes |-> Waiting(p)],
         NEW v, v = [p \in Pushes |-> Waiting(p)']
  PROVE  Pending(u) = active[u] + Jobs(w, u) /\ Pending(u)' = active'[u] + Jobs(v, u)
<1>1. Loads(w, u) = [p \in Pushes |-> Waiting(p) * Amount(p, u)]
  BY DEF Loads
<1>2. Loads(v, u) = [p \in Pushes |-> Waiting(p)' * Amount(p, u)]
  BY DEF Loads
<1>3. DOMAIN Loads(w, u) = Pushes /\ DOMAIN Loads(v, u) = Pushes
  BY DEF Loads
<1>4. Pending(u) = active[u] + SumFunction(Loads(w, u))
  BY <1>1 DEF Pending
<1>5. Pending(u)' = active'[u] + SumFunction(Loads(v, u))
  BY <1>2 DEF Pending, Amount, Reported
<1> QED BY <1>3, <1>4, <1>5 DEF Jobs, SumFunction

\* If no report has more jobs and no cache row is larger, no more waits; and if
\* no report has fewer jobs and no row is smaller, no less.
LEMMA PendingFollows ==
  ASSUME TInv, TInv'
  PROVE  /\ (\A p \in Pushes : Waiting(p)' <= Waiting(p)) /\ (\A u \in Users : active'[u] <= active[u])
              => \A u \in Users : Pending(u)' <= Pending(u)
         /\ (\A p \in Pushes : Waiting(p)' >= Waiting(p)) /\ (\A u \in Users : active'[u] >= active[u])
              => \A u \in Users : Pending(u)' >= Pending(u)
<1>1. PICK w, v : w = [p \in Pushes |-> Waiting(p)] /\ v = [p \in Pushes |-> Waiting(p)']
  OBVIOUS
<1>2. \A p \in Pushes : Waiting(p) \in Nat
  BY WaitingIs
<1>3. \A p \in Pushes : Waiting(p)' \in Nat
  <2>1. ASSUME NEW p \in Pushes PROVE Waiting(p)' \in Nat
    <3>1. Cardinality({r \in Runners : run'[r].step = "fetch" /\ run'[r].push = p}) \in Nat
      BY TrafficAssumption, FS_Subset, FS_CardinalityType
    <3>2. queued'[p] \in Nat
      BY DEF TInv, JobsOK
    <3> QED BY <3>1, <3>2 DEF Waiting
  <2> QED BY <2>1
<1>4. w \in [Pushes -> Nat] /\ v \in [Pushes -> Nat]
  BY <1>1, <1>2, <1>3
<1>5. ASSUME NEW u \in Users
      PROVE  /\ Pending(u) = active[u] + Jobs(w, u) /\ Pending(u)' = active'[u] + Jobs(v, u)
             /\ active[u] \in Nat /\ active'[u] \in Nat /\ Jobs(w, u) \in Nat /\ Jobs(v, u) \in Nat
  <2>1. Pending(u) = active[u] + Jobs(w, u) /\ Pending(u)' = active'[u] + Jobs(v, u)
    BY <1>1, PendingIs
  <2>2. active[u] \in Nat /\ active'[u] \in Nat
    BY DEF TInv, CountersOK
  <2>3. Jobs(w, u) \in Nat /\ Jobs(v, u) \in Nat
    BY <1>4, LoadsType
  <2> QED BY <2>1, <2>2, <2>3
<1>6. ASSUME \A p \in Pushes : Waiting(p)' <= Waiting(p), \A u \in Users : active'[u] <= active[u],
             NEW u \in Users
      PROVE  Pending(u)' <= Pending(u)
  <2>1. Jobs(v, u) <= Jobs(w, u)
    <3>1. \A p \in Pushes : v[p] <= w[p]
      BY <1>1, <1>6
    <3> QED BY <1>4, <3>1, MoreJobs
  <2>2. active'[u] <= active[u]
    BY <1>6
  <2> QED BY <1>5, <2>1, <2>2
<1>7. ASSUME \A p \in Pushes : Waiting(p)' >= Waiting(p), \A u \in Users : active'[u] >= active[u],
             NEW u \in Users
      PROVE  Pending(u)' >= Pending(u)
  <2>1. Jobs(w, u) <= Jobs(v, u)
    <3>1. \A p \in Pushes : w[p] <= v[p]
      BY <1>1, <1>2, <1>3, <1>7
    <3> QED BY <1>4, <3>1, MoreJobs
  <2>2. active'[u] >= active[u]
    BY <1>7
  <2> QED BY <1>5, <2>1, <2>2
<1> QED BY <1>6, <1>7

\* A transaction that ends early puts back no job it does not run.
LEMMA RollBackWaits ==
  ASSUME TInv, NEW runners \in SUBSET Runners, NEW retried \in SUBSET runners, RollBack(runners, retried)
  PROVE  \A p \in Pushes : Waiting(p)' <= Waiting(p)
<1> SUFFICES ASSUME NEW p \in Pushes PROVE Waiting(p)' <= Waiting(p)
  OBVIOUS
<1> DEFINE back == {r \in retried : run[r].push = p}
           rest == {r \in Runners : run'[r].step = "fetch" /\ run'[r].push = p}
<1>1. \A r \in Runners : run'[r] = IF r \in runners THEN Idle ELSE run[r]
  BY DEF RollBack
<1>2. rest = {r \in Runners \ runners : run[r].step = "fetch" /\ run[r].push = p}
  BY <1>1, IdleType
<1>3. \A r \in back : run[r].step = "fetch"
  BY TrafficAssumption DEF TInv, JobsOK, RunOK
<1>4. back \subseteq Fetching(p) /\ rest \subseteq Fetching(p) /\ back \cap rest = {}
  BY <1>2, <1>3 DEF Fetching
<1>5. Waiting(p)' = (queued[p] + Cardinality(back)) + Cardinality(rest)
  BY DEF RollBack, Waiting
<1>6. Waiting(p) = queued[p] + Cardinality(Fetching(p)) /\ queued[p] \in Nat /\ IsFiniteSet(Fetching(p))
  BY WaitingIs
<1> HIDE DEF back, rest
<1>7. IsFiniteSet(back) /\ IsFiniteSet(rest)
  BY <1>4, <1>6, FS_Subset
<1>8. Cardinality(back \cup rest) = Cardinality(back) + Cardinality(rest) - Cardinality(back \cap rest)
  BY <1>7, FS_Union
<1>9. Cardinality(back \cap rest) = 0
  BY <1>4, FS_EmptySet
<1>10. Cardinality(back \cup rest) <= Cardinality(Fetching(p))
  BY <1>4, <1>6, FS_Subset
<1>11. Cardinality(back) \in Nat /\ Cardinality(rest) \in Nat /\ Cardinality(Fetching(p)) \in Nat
  BY <1>6, <1>7, FS_CardinalityType
<1> QED BY <1>5, <1>6, <1>8, <1>9, <1>10, <1>11

\* Whatever leaves the jobs alone.
LEMMA JobsWait ==
  ASSUME queued' = queued, \A r \in Runners : run'[r].step = "fetch" \/ run[r].step = "fetch" =>
                             run'[r].step = run[r].step /\ run'[r].push = run[r].push
  PROVE  \A p \in Pushes : Waiting(p)' = Waiting(p)
<1> SUFFICES ASSUME NEW p \in Pushes PROVE Waiting(p)' = Waiting(p)
  OBVIOUS
<1>1. {r \in Runners : run'[r].step = "fetch" /\ run'[r].push = p} = {r \in Runners : run[r].step = "fetch" /\ run[r].push = p}
  OBVIOUS
<1> QED BY <1>1 DEF Waiting

\* A job that starts is still waited for.
LEMMA StartWaits ==
  ASSUME TInv, NEW r \in Runners, NEW p \in Pushes, StartFetch(r, p), NEW q \in Pushes
  PROVE  Waiting(q)' = Waiting(q)
<1> DEFINE after == {x \in Runners : run'[x].step = "fetch" /\ run'[x].push = q}
<1>1. run[r] = Idle /\ \A x \in Runners : run'[x] = IF x = r THEN [step |-> "fetch", push |-> p, left |-> Reported(p), got |-> {}]
                                                  ELSE run[x]
  BY DEF StartFetch, TInv, JobsOK, RunOK
<1>2. Waiting(q) = queued[q] + Cardinality(Fetching(q)) /\ queued[q] \in Nat
      /\ IsFiniteSet(Fetching(q)) /\ Cardinality(Fetching(q)) \in Nat
  BY WaitingIs
<1>3. Waiting(q)' = queued'[q] + Cardinality(after)
  BY DEF Waiting
<1>4. CASE q = p
  <2>1. after = Fetching(q) \cup {r} /\ r \notin Fetching(q)
    BY <1>1, <1>4, IdleType DEF Fetching
  <2> HIDE DEF after
  <2>2. Cardinality(after) = Cardinality(Fetching(q)) + 1
    BY <1>2, <2>1, FS_AddElement
  <2>3. queued'[q] = queued[q] - 1
    BY <1>4 DEF StartFetch, TInv, JobsOK
  <2> QED BY <1>2, <1>3, <2>2, <2>3
<1>5. CASE q # p
  <2>1. after = Fetching(q)
    BY <1>1, <1>5, IdleType DEF Fetching
  <2>2. queued'[q] = queued[q]
    BY <1>5 DEF StartFetch, TInv, JobsOK
  <2> HIDE DEF after
  <2> QED BY <1>2, <1>3, <2>1, <2>2
<1> QED BY <1>4, <1>5

\* A job that is done is waited for no more.
LEMMA DoneWaits ==
  ASSUME TInv, NEW r \in Runners, CommitFetch(r)
  PROVE  /\ run[r].push \in Pushes
         /\ \A q \in Pushes : IF q = run[r].push THEN Waiting(q) = Waiting(q)' + 1 /\ Waiting(q)' \in Nat
                                                 ELSE Waiting(q)' = Waiting(q)
<1>1. run[r].step = "fetch" /\ run[r].push \in Pushes /\ queued' = queued
  BY DEF CommitFetch, TInv, JobsOK, RunOK
<1>2. \A x \in Runners : run'[x] = IF x = r THEN Idle ELSE run[x]
  BY DEF CommitFetch, TInv, JobsOK, RunOK
<1>3. ASSUME NEW q \in Pushes
      PROVE  IF q = run[r].push THEN Waiting(q) = Waiting(q)' + 1 /\ Waiting(q)' \in Nat ELSE Waiting(q)' = Waiting(q)
  <2> DEFINE after == {x \in Runners : run'[x].step = "fetch" /\ run'[x].push = q}
  <2>1. Waiting(q) = queued[q] + Cardinality(Fetching(q)) /\ queued[q] \in Nat
        /\ IsFiniteSet(Fetching(q)) /\ Cardinality(Fetching(q)) \in Nat
    BY WaitingIs
  <2>2. Waiting(q)' = queued[q] + Cardinality(after)
    BY <1>1 DEF Waiting
  <2>3. CASE q = run[r].push
    <3>1. after = Fetching(q) \ {r} /\ r \in Fetching(q)
      BY <1>1, <1>2, <2>3, IdleType DEF Fetching
    <3> HIDE DEF after
    <3>2. Cardinality(after) = Cardinality(Fetching(q)) - 1 /\ IsFiniteSet(after) /\ Cardinality(after) \in Nat
      BY <2>1, <3>1, FS_RemoveElement, FS_CardinalityType
    <3> QED BY <2>1, <2>2, <2>3, <3>2
  <2>4. CASE q # run[r].push
    <3>1. after = Fetching(q)
      BY <1>1, <1>2, <2>4, IdleType DEF Fetching
    <3> HIDE DEF after
    <3> QED BY <2>1, <2>2, <2>4, <3>1
  <2> QED BY <2>3, <2>4
<1> QED BY <1>1, <1>3

\* A report that is committed goes from the jobs to the cache.
LEMMA FetchPends ==
  ASSUME TInv, NEW r \in Runners, CommitFetch(r), NEW u \in Users
  PROVE  Pending(u)' = Pending(u)
<1>1. PICK w, v, p : w = [q \in Pushes |-> Waiting(q)] /\ v = [q \in Pushes |-> Waiting(q)'] /\ p = run[r].push
  OBVIOUS
<1>2. /\ p \in Pushes /\ Waiting(p) = Waiting(p)' + 1 /\ Waiting(p)' \in Nat
      /\ \A q \in Pushes : q # p => Waiting(q)' = Waiting(q)
  BY <1>1, DoneWaits
<1>3. \A q \in Pushes : Waiting(q) \in Nat
  BY WaitingIs
<1>4. w \in [Pushes -> Nat] /\ v \in [Pushes -> Nat] /\ w[p] = v[p] + 1 /\ \A q \in Pushes \ {p} : v[q] = w[q]
  BY <1>1, <1>2, <1>3
<1>5. Jobs(v, u) + Amount(p, u) = Jobs(w, u)
  BY <1>2, <1>4, OneJobLess
<1>6. Pending(u) = active[u] + Jobs(w, u) /\ Pending(u)' = active'[u] + Jobs(v, u)
  BY <1>1, PendingIs
<1>7. active'[u] = active[u] + Amount(p, u)
  BY <1>1 DEF CommitFetch
<1>8. active[u] \in Nat /\ Amount(p, u) \in Nat /\ Jobs(v, u) \in Nat
  BY <1>2, <1>4, AmountType, LoadsType DEF TInv, CountersOK
<1> HIDE DEF Amount
<1> QED BY <1>5, <1>6, <1>7, <1>8

(***************************************************************************)
(* The steps of the contract, by what they do to the pending traffic.      *)
(***************************************************************************)
LEMMA Accepts ==
  ASSUME \A u \in Users : Pending(u)' >= Pending(u), UNCHANGED <<present, used>>
  PROVE  Contract!Next
BY DEF Contract!Next, Contract!Accept

\* Jobs given up, or a cache lost.
LEMMA Loses ==
  ASSUME \A u \in Users : Pending(u)' <= Pending(u), UNCHANGED <<present, used>>
  PROVE  Contract!Next
BY DEF Contract!Next, Contract!Lose

\* Nothing that the contract speaks of.
LEMMA Stutters ==
  ASSUME queued' = queued, run' = run, active' = active, UNCHANGED <<present, used>>
  PROVE  UNCHANGED Contract!vars
<1>1. \A u \in Users : Pending(u)' = Pending(u)
  BY DEF Pending, Waiting, Amount, Reported
<1> QED BY <1>1 DEF Contract!vars

\* Pushes of the nodes, and the jobs up to their commit.
LEMMA JobsImplement ==
  ASSUME TInv, TInv',
         \/ \E p \in Pushes : EnqueueJob(p) \/ PushFails(p)
         \/ \E r \in Runners : StartFlush(r) \/ \E p \in Pushes : StartFetch(r, p)
         \/ \E r \in Runners, u \in Users : LockRow(r, u)
  PROVE  Contract!Next
<1>1. UNCHANGED <<present, used, active>>
  BY DEF EnqueueJob, PushFails, StartFlush, StartFetch, LockRow, tables
<1>2. ASSUME NEW p \in Pushes PROVE Waiting(p)' >= Waiting(p)
  <2>0. Waiting(p) \in Nat /\ queued[p] \in Nat /\ Cardinality(Fetching(p)) \in Nat
    BY WaitingIs
  <2>1. ASSUME NEW x \in Pushes, EnqueueJob(x) \/ PushFails(x) PROVE Waiting(p)' >= Waiting(p)
    <3>1. run' = run /\ queued'[p] \in {queued[p], queued[p] + 1}
      BY <2>1 DEF EnqueueJob, PushFails, TInv, JobsOK
    <3>2. Waiting(p)' = queued'[p] + Cardinality(Fetching(p)) /\ Waiting(p) = queued[p] + Cardinality(Fetching(p))
      BY <3>1 DEF Waiting, Fetching
    <3> QED BY <2>0, <3>1, <3>2
  <2>2. ASSUME NEW r \in Runners, NEW x \in Pushes, StartFetch(r, x) PROVE Waiting(p)' >= Waiting(p)
    <3>1. Waiting(p)' = Waiting(p)
      BY <2>2, StartWaits
    <3> QED BY <2>0, <3>1
  <2>3. ASSUME NEW r \in Runners, StartFlush(r) PROVE Waiting(p)' >= Waiting(p)
    <3> DEFINE next == [run[r] EXCEPT !.step = "flush", !.left = {u \in Users : active[u] > 0}]
    <3>0. run[r] \in Transaction /\ run[r].step # "fetch"
      BY <2>3, IdleType DEF StartFlush, TInv, JobsOK, RunOK
    <3>4. next.step = "flush"
      BY <3>0 DEF Transaction
    <3>5. queued' = queued /\ run' = [run EXCEPT ![r] = next]
      BY <2>3 DEF StartFlush, TInv, JobsOK, RunOK
    <3> HIDE DEF next
    <3>1. queued' = queued /\ run[r].step # "fetch" /\ run'[r].step = "flush" /\ \A x \in Runners \ {r} : run'[x] = run[x]
      BY <3>0, <3>4, <3>5 DEF TInv, JobsOK, RunOK
    <3>2. Waiting(p)' = Waiting(p)
      BY <3>1, JobsWait
    <3> QED BY <2>0, <3>2
  <2>4. ASSUME NEW r \in Runners, NEW u \in Users, LockRow(r, u) PROVE Waiting(p)' >= Waiting(p)
    <3>0. run[r] \in Transaction
      BY DEF TInv, JobsOK, RunOK
    <3>1. queued' = queued /\ \A x \in Runners : run'[x].step = run[x].step /\ run'[x].push = run[x].push
      BY <2>4, <3>0 DEF LockRow, TInv, JobsOK, RunOK, Transaction
    <3>2. Waiting(p)' = Waiting(p)
      BY <3>1, JobsWait
    <3> QED BY <2>0, <3>2
  <2> QED BY <2>1, <2>2, <2>3, <2>4
<1>3. \A u \in Users : active'[u] >= active[u]
  BY <1>1 DEF TInv, CountersOK
<1>4. \A u \in Users : Pending(u)' >= Pending(u)
  BY <1>2, <1>3, PendingFollows
<1> QED BY <1>1, <1>4, Accepts

\* traffic_fetch moves a report from the jobs to the cache.
LEMMA FetchImplements ==
  ASSUME TInv, TInv', NEW r \in Runners, CommitFetch(r)
  PROVE  [Contract!Next]_(Contract!vars)
<1>1. \A u \in Users : Pending(u)' = Pending(u)
  BY FetchPends
<1>2. UNCHANGED <<present, used>>
  BY DEF CommitFetch
<1> QED BY <1>1, <1>2 DEF Contract!vars

\* The flush bills what it takes from the cache, to who has a row.
LEMMA FlushImplements ==
  ASSUME TInv, TInv', NEW r \in Runners, CommitFlush(r)
  PROVE  Contract!Next
<1>1. PICK w, v : w = [p \in Pushes |-> Waiting(p)] /\ v = [p \in Pushes |-> Waiting(p)']
  OBVIOUS
<1>2. \A p \in Pushes : Waiting(p)' = Waiting(p)
  <2>1. queued' = queued /\ run[r].step # "fetch" /\ run'[r].step # "fetch" /\ \A x \in Runners \ {r} : run'[x] = run[x]
    BY IdleType DEF CommitFlush, TInv, JobsOK, RunOK
  <2> QED BY <2>1, JobsWait
<1>3. w = v /\ w \in [Pushes -> Nat]
  BY <1>1, <1>2, WaitingIs
<1>4. ASSUME NEW u \in Users
      PROVE  /\ Pending(u)' <= Pending(u)
             /\ u \in present => used'[u] + Pending(u)' = used[u] + Pending(u)
             /\ u \notin present => used'[u] = used[u]
  <2>1. Pending(u) = active[u] + Jobs(w, u) /\ Pending(u)' = active'[u] + Jobs(w, u)
    BY <1>1, <1>3, PendingIs
  <2>2. active[u] \in Nat /\ used[u] \in Nat /\ Jobs(w, u) \in Nat
    BY <1>3, LoadsType DEF TInv, CountersOK
  <2>3. /\ active'[u] = IF u \in run[r].got THEN 0 ELSE active[u]
        /\ used'[u] = IF u \in run[r].got /\ u \in present THEN used[u] + active[u] ELSE used[u]
    BY DEF CommitFlush, Applied, Remaining
  <2> QED BY <2>1, <2>2, <2>3
<1>5. present' = present /\ present \subseteq Users
  BY DEF CommitFlush, TInv, MembersOK
<1> QED BY <1>4, <1>5 DEF Contract!Next, Contract!Bill

\* Deadlocks, failures and crashes lose what waits, at most.
LEMMA FaultsImplement ==
  ASSUME TInv, TInv', DatabaseCrash \/ \E r \in Runners : DeadlockAbort(r) \/ JobFails(r)
  PROVE  Contract!Next
<1>1. PICK runners \in SUBSET Runners : \E retried \in SUBSET runners : RollBack(runners, retried)
  <2>1. CASE DatabaseCrash
    <3>1. \E retried \in SUBSET Runners : RollBack(Runners, retried)
      BY <2>1 DEF DatabaseCrash
    <3> QED BY <3>1
  <2>2. CASE \E r \in Runners : DeadlockAbort(r) \/ JobFails(r)
    <3>1. PICK r \in Runners : DeadlockAbort(r) \/ JobFails(r)
      BY <2>2
    <3>2. \E retried \in SUBSET {r} : RollBack({r}, retried)
      BY <3>1 DEF DeadlockAbort, JobFails
    <3> QED BY <3>2
  <2> QED BY <2>1, <2>2
<1>2. \A p \in Pushes : Waiting(p)' <= Waiting(p)
  BY <1>1, RollBackWaits
<1>3. UNCHANGED <<present, used>> /\ \A u \in Users : active'[u] = active[u] \/ active'[u] = 0
  BY DEF DatabaseCrash, DeadlockAbort, JobFails, tables
<1>4. \A u \in Users : active'[u] <= active[u]
  BY <1>3 DEF TInv, CountersOK
<1>5. \A u \in Users : Pending(u)' <= Pending(u)
  BY <1>2, <1>4, PendingFollows
<1> QED BY <1>3, <1>5, Loses

\* Resets and deletions.
LEMMA AccountsImplement ==
  ASSUME TInv, NEW u \in Managed, Clear(u) \/ DeleteUser(u)
  PROVE  Contract!Next
<1>1. u \in Users
  BY TrafficAssumption
<1>2. queued' = queued /\ run' = run /\ active' = active
  BY DEF Clear, DeleteUser
<1>3. \A x \in Users : Pending(x)' = Pending(x)
  BY <1>2 DEF Pending, Waiting, Amount, Reported
<1>4. CASE Clear(u)
  <2>1. used' = [used EXCEPT ![u] = 0] /\ present' = present
    BY <1>4 DEF Clear, AfterReset
  <2>2. Contract!Clear(u)
    BY <1>3, <2>1 DEF Contract!Clear
  <2> QED BY <1>1, <2>2 DEF Contract!Next
<1>5. CASE DeleteUser(u)
  <2>1. used' = [used EXCEPT ![u] = 0] /\ present' = present \ {u}
    BY <1>5 DEF DeleteUser
  <2>2. Contract!Remove(u)
    BY <1>3, <2>1 DEF Contract!Remove
  <2> QED BY <1>1, <2>2 DEF Contract!Next
<1> QED BY <1>4, <1>5

\* Every step is one of the contract or none at all.
LEMMA TrafficStep == TInv /\ TInv' /\ [Next]_vars => [Contract!Next]_(Contract!vars)
<1> SUFFICES ASSUME TInv, TInv', [Next]_vars PROVE [Contract!Next]_(Contract!vars)
  OBVIOUS
<1>1. CASE \E p \in Pushes : EnqueueJob(p) \/ PushFails(p)
  BY <1>1, JobsImplement
<1>2. CASE \E r \in Runners : Work(r)
  BY <1>2, JobsImplement, FetchImplements, FlushImplements, FaultsImplement DEF Work
<1>3. CASE \E r \in Runners : JobFails(r)
  BY <1>3, FaultsImplement
<1>4. CASE \E r \in Runners, u \in Users : LockRow(r, u)
  BY <1>4, JobsImplement
<1>5. CASE DatabaseCrash
  BY <1>5, FaultsImplement
<1>6. CASE \E u \in Managed : Clear(u) \/ DeleteUser(u)
  BY <1>6, AccountsImplement
<1>7. CASE (\E u \in Managed : Suspend(u)) \/ (\E n \in Nodes : Pull(n)) \/ UNCHANGED vars
  <2>1. queued' = queued /\ run' = run /\ active' = active /\ UNCHANGED <<present, used>>
    BY <1>7 DEF Suspend, Pull, vars, tables
  <2> QED BY <2>1, Stutters
<1> QED BY <1>1, <1>2, <1>3, <1>4, <1>5, <1>6, <1>7 DEF Next

\* Nothing waits before the first push.
LEMMA TrafficStart == Init => Contract!Init
<1> SUFFICES ASSUME Init PROVE Contract!Init
  OBVIOUS
<1>1. TInv
  BY InitTInv
<1>2. ASSUME NEW u \in Users PROVE Pending(u) = 0
  <2>1. PICK w : w = [p \in Pushes |-> Waiting(p)]
    OBVIOUS
  <2>2. ASSUME NEW p \in Pushes PROVE Waiting(p) = 0
    <3>1. Fetching(p) = {}
      BY IdleType DEF Init, Fetching
    <3>2. queued[p] = 0 /\ Cardinality(Fetching(p)) = 0
      BY <3>1, FS_EmptySet DEF Init
    <3> QED BY <1>1, <3>2, WaitingIs
  <2>3. Pending(u) = active[u] + Jobs(w, u) /\ active[u] = 0
    BY <2>1, PendingIs DEF Init
  <2>4. \A p \in Pushes : w[p] = 0
    BY <2>1, <2>2
  <2>5. Jobs(w, u) = 0
    <3>1. w \in [Pushes -> Nat] /\ \A p \in Pushes : w[p] <= 0
      BY <2>1, <2>4
    <3>2. \A p \in Pushes : Loads(w, u)[p] = 0
      BY <2>4, AmountType DEF Loads
    <3>3. Jobs(w, u) = 0
      BY <3>2, TrafficAssumption, SumZero DEF Jobs
    <3> QED BY <3>3
  <2> QED BY <2>3, <2>5
<1> QED BY <1>2 DEF Init, Contract!Init

\* Whatever jobs, retries, crashes and administrators do at the same time: what
\* is billed was reported, once, and what was reported waits until it is billed
\* or a fault takes it (increment_traffic_cache, flush_traffic_cache_to_users).
THEOREM TrafficImplemented == Spec => ImplementsContract
<1> QED BY TrafficStart, TrafficStep, TInvHolds, PTL DEF Spec, ImplementsContract, Contract!Spec
=============================================================================
