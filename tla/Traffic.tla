------------------------------- MODULE Traffic -------------------------------
(***************************************************************************)
(* From the traffic a node reports to the traffic a user is billed for.    *)
(* A push puts three jobs on the queue; traffic_fetch adds the report to   *)
(* the UNLOGGED table traffic_cache, and every minute traffic_update moves *)
(* the cache to users.u and users.d, on which the user list of the nodes   *)
(* depends.  The other two jobs of a push are run by StatRecords.          *)
(*                                                                         *)
(* Upload and download go the same way and are one number here.  How a job *)
(* is claimed and retried is the subject of JobQueue: here a queued job    *)
(* may start on any runner, and one that fails is put back or, out of      *)
(* tries, given up.                                                        *)
(***************************************************************************)
EXTENDS Integers, FiniteSets, Sequences, FiniteSetsExt, Functions

CONSTANTS
  Users,      \* primary keys of users
  Nodes,      \* nodes that report traffic
  Rate,       \* rate of each node, in tenths
  Members,    \* Members[n]: the users of the groups of node n
  Quota,      \* transfer_enable of each user
  Pushes,     \* traffic reports
  Report,     \* Report[p]: the node and the traffic of each user in report p
  Runners,    \* jobs the workers run at the same time
  None,
  Managed,    \* bound: the users that are reset, banned or deleted
  MaxEvents   \* bound on what happens to these users and on failed requests,
              \* failed jobs and crashes, together

Kinds == {"traffic_fetch", "stat_user", "stat_server"}

ASSUME TrafficAssumption ==
  /\ Users \subseteq Nat /\ IsFiniteSet(Users)
  /\ Rate \in [Nodes -> Nat]
  /\ Members \in [Nodes -> SUBSET Users]
  /\ Quota \in [Users -> Nat]
  /\ \A p \in Pushes : /\ Report[p].node \in Nodes
                       /\ Report[p].load \in [DOMAIN Report[p].load -> Nat]
                       /\ DOMAIN Report[p].load \subseteq Users
                       /\ DOMAIN Report[p].load # {}
  /\ None \notin Pushes /\ IsFiniteSet(Pushes)
  /\ IsFiniteSet(Runners)
  /\ Managed \subseteq Users
  /\ MaxEvents \in Nat

VARIABLES
  push,      \* what the request of each report has left to do
  queued,    \* number of queued traffic_fetch jobs of each report
  run,       \* the transaction of each runner
  active,    \* traffic_cache, stage active
  used,      \* u + d of each row of users
  present,   \* users that have a row
  allowed,   \* users that are neither banned nor expired
  served,    \* the user list each node works with
  faults, changes,
  \* history
  credited,  \* traffic the committed traffic_fetch jobs have added
  lost,      \* traffic that a crash or a missing user took from the cache
  cleared    \* traffic that a reset or a deletion took from the bill

tables == <<active, used, present, allowed>>
history == <<credited, lost, cleared>>
vars == <<push, queued, run, tables, served, faults, changes, history>>

-----------------------------------------------------------------------------
(***************************************************************************)
(* Amounts and keys.                                                       *)
(***************************************************************************)
Reported(p) == DOMAIN Report[p].load

\* int(Decimal(traffic) * rate)
Amount(p, u) ==
  IF u \in Reported(p) THEN (Report[p].load[u] * Rate[Report[p].node]) \div 10 ELSE 0

Idle == [step |-> "idle", push |-> None, left |-> {}, got |-> {}]

Init ==
  /\ push = [p \in Pushes |-> "traffic_fetch"]
  /\ queued = [p \in Pushes |-> 0]
  /\ run = [r \in Runners |-> Idle]
  /\ active = [u \in Users |-> 0]
  /\ used = [u \in Users |-> 0]
  /\ present = Users
  /\ allowed = Users
  /\ served = Members
  /\ faults = 0 /\ changes = 0
  /\ credited = [u \in Users |-> 0]
  /\ lost = [u \in Users |-> 0]
  /\ cleared = [u \in Users |-> 0]

-----------------------------------------------------------------------------
(***************************************************************************)
(* A push: handle_uniproxy_push enqueues the three jobs one after the      *)
(* other, each in a transaction of its own.  A request that fails between  *)
(* two of them is sent again from the start by its node.                   *)
(***************************************************************************)
NextStep == [traffic_fetch |-> "stat_user", stat_user |-> "stat_server", stat_server |-> "done"]

EnqueueJob(p) ==
  /\ push[p] # "done"
  /\ queued' = IF push[p] = "traffic_fetch" THEN [queued EXCEPT ![p] = @ + 1] ELSE queued
  /\ push' = [push EXCEPT ![p] = NextStep[@]]
  /\ UNCHANGED <<run, tables, served, faults, changes, history>>

PushFails(p) ==
  /\ push[p] \notin {"traffic_fetch", "done"}
  /\ faults + changes < MaxEvents /\ faults' = faults + 1
  /\ push' = [push EXCEPT ![p] = "traffic_fetch"]
  /\ UNCHANGED <<queued, run, tables, served, changes, history>>

-----------------------------------------------------------------------------
(***************************************************************************)
(* traffic_fetch: one INSERT ... ON CONFLICT statement that takes the rows *)
(* of the cache one by one, in the order of their keys in the jsonb        *)
(* arguments, and keeps each locked until it commits.                      *)
(***************************************************************************)
StartFetch(r, p) ==
  /\ run[r] = Idle
  /\ queued[p] > 0
  /\ queued' = [queued EXCEPT ![p] = @ - 1]
  /\ run' = [run EXCEPT ![r] = [step |-> "fetch", push |-> p, left |-> Reported(p), got |-> {}]]
  /\ UNCHANGED <<push, tables, served, faults, changes, history>>

\* The rows transaction r waits for or takes next.
NextRows(r) == IF run[r].step = "fetch" THEN {Min(run[r].left)} ELSE run[r].left

Free(u) == \A r \in Runners : u \notin run[r].got

LockRow(r, u) ==
  /\ run[r].left # {} /\ u \in NextRows(r)
  /\ Free(u)
  /\ run' = [run EXCEPT ![r].left = @ \ {u}, ![r].got = @ \cup {u}]
  /\ UNCHANGED <<push, queued, tables, served, faults, changes, history>>

CommitFetch(r) ==
  /\ run[r].step = "fetch" /\ run[r].left = {}
  /\ active' = [u \in Users |-> active[u] + Amount(run[r].push, u)]
  /\ credited' = [u \in Users |-> credited[u] + Amount(run[r].push, u)]
  /\ run' = [run EXCEPT ![r] = Idle]
  /\ UNCHANGED <<push, queued, used, present, allowed, served, faults, changes,
                 lost, cleared>>

-----------------------------------------------------------------------------
(***************************************************************************)
(* traffic_update: flush_traffic_cache_to_users in one transaction, under  *)
(* an advisory lock that a second flush does not wait for.  Nothing in the *)
(* code sets traffic_reset_lock, on which a flush would also give up, and  *)
(* rows of stage processing never outlive the flush that moved them.       *)
(***************************************************************************)
\* pg_try_advisory_xact_lock
Alone(r) == \A q \in Runners : run[q].step # "flush"

\* UPDATE traffic_cache SET stage = 'processing': the rows are locked as found.
StartFlush(r) ==
  LET rows == {u \in Users : active[u] > 0} IN
  /\ run[r] = Idle /\ Alone(r)
  /\ rows # {}
  /\ run' = [run EXCEPT ![r].step = "flush", ![r].left = rows]
  /\ UNCHANGED <<push, queued, tables, served, faults, changes, history>>

\* Mutant: the rows of stage processing are not deleted.
RemainingAll(got) == active

\* DELETE FROM traffic_cache WHERE stage = 'processing'
Remaining(got) == [u \in Users |-> IF u \in got THEN 0 ELSE active[u]]

\* Mutant: the counters are set to the traffic of the round.
AppliedAbsolute(got) ==
  [u \in Users |-> IF u \in got \cap present THEN active[u] ELSE used[u]]

\* _apply_processing_traffic: rows of users that are gone match nothing.
Applied(got) ==
  [u \in Users |-> IF u \in got \cap present THEN used[u] + active[u] ELSE used[u]]

CommitFlush(r) ==
  /\ run[r].step = "flush" /\ run[r].left = {}
  /\ used' = Applied(run[r].got)
  /\ lost' = [u \in Users |-> IF u \in run[r].got \ present THEN lost[u] + active[u]
                                                           ELSE lost[u]]
  /\ active' = Remaining(run[r].got)
  /\ run' = [run EXCEPT ![r] = Idle]
  /\ UNCHANGED <<push, queued, present, allowed, served, faults, changes,
                 credited, cleared>>

-----------------------------------------------------------------------------
(***************************************************************************)
(* Faults.  A transaction that ends early takes its changes back; its job  *)
(* is tried again or given up, and a flush comes again with the minute.    *)
(***************************************************************************)
\* Mutant: a job that meets a deadlock is given up.
RollBackForgetful(runners, retried) ==
  /\ run' = [r \in Runners |-> IF r \in runners THEN Idle ELSE run[r]]
  /\ UNCHANGED queued

\* The transactions of the runners end early; the jobs of some are put back.
RollBack(runners, retried) ==
  /\ run' = [r \in Runners |-> IF r \in runners THEN Idle ELSE run[r]]
  /\ queued' = [p \in Pushes |-> queued[p] + Cardinality({r \in retried : run[r].push = p})]

WaitsFor(r, q) ==
  /\ run[r].left # {}
  /\ \A u \in NextRows(r) : ~Free(u)
  /\ NextRows(r) \cap run[q].got # {}

\* The deadlock detector of PostgreSQL ends one of the transactions.
DeadlockAbort(r) ==
  /\ \E S \in SUBSET Runners : r \in S /\ \A a \in S : \E b \in S \ {a} : WaitsFor(a, b)
  /\ RollBack({r}, {r})
  /\ UNCHANGED <<push, tables, served, faults, changes, history>>

JobFails(r) ==
  /\ run[r] # Idle
  /\ faults + changes < MaxEvents /\ faults' = faults + 1
  /\ \E retried \in SUBSET {r} : RollBack({r}, retried)
  /\ UNCHANGED <<push, tables, served, changes, history>>

\* A crash of the database empties the UNLOGGED table and ends everything
\* that is under way.
DatabaseCrash ==
  /\ faults + changes < MaxEvents /\ faults' = faults + 1
  /\ active' = [u \in Users |-> 0]
  /\ lost' = [u \in Users |-> lost[u] + active[u]]
  /\ \E retried \in SUBSET {r \in Runners : run[r] # Idle} : RollBack(Runners, retried)
  /\ push' = [p \in Pushes |-> IF push[p] = "done" THEN "done" ELSE "traffic_fetch"]
  /\ UNCHANGED <<used, present, allowed, served, changes,
                 credited, cleared>>

-----------------------------------------------------------------------------
(***************************************************************************)
(* What the other services and the administrators do to the users.         *)
(***************************************************************************)
AfterReset(u) == 0

\* An order or a gift card sets u and d to 0 under the lock of the user row.
Clear(u) ==
  /\ faults + changes < MaxEvents /\ changes' = changes + 1
  /\ u \in present
  /\ used' = [used EXCEPT ![u] = AfterReset(u)]
  /\ cleared' = [cleared EXCEPT ![u] = @ + used[u]]
  /\ UNCHANGED <<push, queued, run, active, present, allowed, served, faults,
                 credited, lost>>

Suspend(u) ==
  /\ faults + changes < MaxEvents /\ changes' = changes + 1
  /\ u \in allowed
  /\ allowed' = allowed \ {u}
  /\ UNCHANGED <<push, queued, run, active, used, present, served, faults, history>>

DeleteUser(u) ==
  /\ faults + changes < MaxEvents /\ changes' = changes + 1
  /\ u \in present
  /\ present' = present \ {u}
  /\ used' = [used EXCEPT ![u] = 0]
  /\ cleared' = [cleared EXCEPT ![u] = @ + used[u]]
  /\ UNCHANGED <<push, queued, run, active, allowed, served, faults, credited, lost>>

\* Mutant: whoever has used up the quota stays on the list.
AvailableUsersOver(n) == Members[n] \cap present \cap allowed

\* get_available_users
AvailableUsers(n) == {u \in Members[n] \cap present \cap allowed : used[u] < Quota[u]}

\* A node asks for its users; an unchanged list is answered with 304.
Pull(n) ==
  /\ served[n] # AvailableUsers(n)
  /\ served' = [served EXCEPT ![n] = AvailableUsers(n)]
  /\ UNCHANGED <<push, queued, run, tables, faults, changes, history>>

-----------------------------------------------------------------------------
Work(r) ==
  \/ \E p \in Pushes : StartFetch(r, p)
  \/ StartFlush(r) \/ CommitFetch(r) \/ CommitFlush(r) \/ DeadlockAbort(r)

Next ==
  \/ \E p \in Pushes : EnqueueJob(p) \/ PushFails(p)
  \/ \E r \in Runners : Work(r) \/ JobFails(r)
  \/ \E r \in Runners, u \in Users : LockRow(r, u)
  \/ DatabaseCrash
  \/ \E u \in Managed : Clear(u) \/ Suspend(u) \/ DeleteUser(u)
  \/ \E n \in Nodes : Pull(n)

(***************************************************************************)
(* A request runs to its end, nodes send a report until it is accepted and *)
(* keep asking for their users, workers take what is queued and every      *)
(* minute brings a flush.  The lock queue of PostgreSQL gives a row that   *)
(* comes free again and again to every transaction that waits for it.      *)
(***************************************************************************)
Fairness ==
  /\ WF_vars(\E p \in Pushes : EnqueueJob(p))
  /\ \A n \in Nodes : WF_vars(Pull(n))
  /\ WF_vars(\E r \in Runners : Work(r))
  /\ \A r \in Runners, u \in Users : SF_vars(LockRow(r, u))

Spec == Init /\ [][Next]_vars /\ Fairness

-----------------------------------------------------------------------------
(***************************************************************************)
(* Properties.                                                             *)
(***************************************************************************)
\* Every table, transaction and history variable stays within its type.
TypeOK ==
  /\ push \in [Pushes -> Kinds \cup {"done"}]
  /\ queued \in [Pushes -> Nat]
  /\ \A r \in Runners :
       /\ run[r].step \in {"idle", "fetch", "flush"}
       /\ run[r].push \in Pushes \cup {None}
       /\ run[r].left \subseteq Users /\ run[r].got \subseteq Users
  /\ active \in [Users -> Nat] /\ used \in [Users -> Nat]
  /\ present \subseteq Users /\ allowed \subseteq Users
  /\ served \in [Nodes -> SUBSET Users]
  /\ credited \in [Users -> Nat] /\ lost \in [Users -> Nat] /\ cleared \in [Users -> Nat]

\* Whatever a traffic_fetch has added is on the bill, in the cache, reset, or
\* lost with the cache: increments and flushes that interleave neither lose
\* traffic nor bill it twice (increment_traffic_cache,
\* flush_traffic_cache_to_users).
Conserved ==
  \A u \in Users : used[u] + active[u] + cleared[u] + lost[u] = credited[u]

\* Whoever has used up the quota leaves the list of every node, even if the
\* last of the traffic still waits to be billed.
QuotaEnforced ==
  \A n \in Nodes, u \in Users :
    (used[u] + active[u] >= Quota[u])
      ~> (u \notin served[n] \/ used[u] + active[u] < Quota[u])

\* Once the nodes have their answers, all they reported gets billed, unless a
\* fault, a reset or the deletion of a user intervened.
ReportsAreBilled ==
  (\A p \in Pushes : push[p] = "done") ~>
    \/ faults + changes > 0
    \/ \A u \in Users : used[u] = SumFunction([p \in Pushes |-> Amount(p, u)])

\* Traffic accepted and not yet billed: in the cache or in a job.
Waiting(p) == queued[p] + Cardinality({r \in Runners : run[r].step = "fetch" /\ run[r].push = p})

Pending(u) ==
  active[u] + SumFunction([p \in Pushes |-> Waiting(p) * Amount(p, u)])

Contract == INSTANCE TrafficContract WITH
  known <- present, billed <- used, pending <- [u \in Users |-> Pending(u)]

\* The concurrent jobs, their retries and crashes bill like the contract.
ImplementsContract == Contract!Spec
=============================================================================
