------------------------------ MODULE OrderSweep ------------------------------
(***************************************************************************)
(* The sweep over open orders, on top of the job queue: pg_cron enqueues   *)
(* check_order, which enqueues an order_handle job for every open order,   *)
(* which cancels the order if it is stale and opens it if it is paid.  A   *)
(* tick of the clock is one period of the cron schedule.  How an opening   *)
(* and a cancellation race with everything else is the subject of Orders;  *)
(* here each is one step.                                                  *)
(***************************************************************************)
EXTENDS JobQueue

CONSTANTS
  Orders,         \* rows of orders; an order also names its order_handle job
  Check,          \* the call of check_order
  PaidAtStart,    \* orders that may be imported with status 1
  PendingTimeout  \* two hours, in periods of the schedule

Cron(t) == <<"cron:check_order", t>>

SweepCalls == {Check} \cup Orders
SweepKeys == Orders \cup {Cron(t) : t \in 0..MaxTime}

ASSUME SweepAssumption ==
  /\ Calls = SweepCalls /\ Check \notin Orders
  /\ Keys = SweepKeys
  /\ PaidAtStart \subseteq Orders
  /\ PendingTimeout \in Nat

VARIABLES
  status,   \* orders.status
  created,  \* orders.created_at
  scan      \* scan[w][j]: orders check_order has read and not yet enqueued

shop == <<status, created>>
sweepvars == <<vars, shop, scan>>

Unread == [read |-> FALSE, left |-> {}]

SweepInit ==
  /\ Init
  /\ \E imported \in SUBSET PaidAtStart :
       status = [o \in Orders |-> IF o \in imported THEN "opening" ELSE "absent"]
  /\ created = [o \in Orders |-> 0]
  /\ scan = [w \in Workers |-> [j \in JobIds |-> Unread]]

-----------------------------------------------------------------------------
(***************************************************************************)
(* The shop.                                                               *)
(***************************************************************************)
Place(o) ==
  /\ status[o] = "absent"
  /\ status' = [status EXCEPT ![o] = "pending"]
  /\ created' = [created EXCEPT ![o] = now]
  /\ UNCHANGED <<vars, scan>>

\* The user pays or cancels.
Settle(o) ==
  /\ status[o] \in {"pending", "opening"}
  /\ \E s \in {"completed", "cancelled"} :
       /\ s = "cancelled" => status[o] = "pending"
       /\ status' = [status EXCEPT ![o] = s]
  /\ UNCHANGED <<vars, created, scan>>

-----------------------------------------------------------------------------
(***************************************************************************)
(* check_order.                                                            *)
(***************************************************************************)
\* pg_cron: once per period, by the key.
Schedule ==
  /\ \A j \in Present : job[j].key # Cron(now)
  /\ EnqueueJob(Check, Cron(now))
  /\ UNCHANGED <<shop, scan>>

Runs(w, j, c) == task[w][j] = "run" /\ job[j].call = c

\* Mutant: only unpaid orders are looked for.
OpenPending == {o \in Orders : status[o] = "pending"}

OpenOrders == {o \in Orders : status[o] \in {"pending", "opening"}}

\* The SELECT over the open orders.
ReadOrders(w, j) ==
  /\ Runs(w, j, Check) /\ ~scan[w][j].read
  /\ scan' = [scan EXCEPT ![w][j] = [read |-> TRUE, left |-> OpenOrders]]
  /\ UNCHANGED <<vars, shop>>

\* Each order gets a job, oldest first, if its key has never been used; every
\* insert commits by itself.
EnqueueHandle(w, j, o) ==
  /\ Runs(w, j, Check)
  /\ o \in scan[w][j].left /\ \A x \in scan[w][j].left : created[o] <= created[x]
  /\ Enqueue(o, Home[o], o)
  /\ scan' = [scan EXCEPT ![w][j].left = @ \ {o}]
  /\ UNCHANGED <<listed, workvars, retry, now, history, shop>>

CheckReturns(w, j) ==
  /\ Runs(w, j, Check)
  /\ scan[w][j] = [read |-> TRUE, left |-> {}]
  /\ Return(w, j)
  /\ scan' = [scan EXCEPT ![w][j] = Unread]
  /\ UNCHANGED shop

-----------------------------------------------------------------------------
(***************************************************************************)
(* order_handle.                                                           *)
(***************************************************************************)
Stale(o) == status[o] = "pending" /\ created[o] + PendingTimeout <= now

Handle(w, j, o) ==
  /\ Runs(w, j, o)
  /\ status' = [status EXCEPT ![o] = CASE Stale(o)       -> "cancelled"
                                       [] @ = "opening" -> "completed"
                                       [] OTHER         -> @]
  /\ Return(w, j)
  /\ UNCHANGED <<created, scan>>

\* Either function raises; what it has read is gone.
SweepRaise(w, j) ==
  /\ Raise(w, j)
  /\ scan' = [scan EXCEPT ![w][j] = Unread]
  /\ UNCHANGED shop

SweepCrash(w) ==
  /\ Crash(w)
  /\ scan' = [scan EXCEPT ![w] = [j \in JobIds |-> Unread]]
  /\ UNCHANGED shop

-----------------------------------------------------------------------------
Functions(w, j) ==
  \/ ReadOrders(w, j)
  \/ \E o \in Orders : EnqueueHandle(w, j, o) \/ Handle(w, j, o)
  \/ CheckReturns(w, j)
  \/ SweepRaise(w, j)

Bookkeeping(w, j) ==
  /\ FinishJob(w, j) \/ FailJob(w, j) \/ RecordFailedJob(w, j)
  /\ UNCHANGED <<shop, scan>>

Polling(w) ==
  /\ Pick(w) \/ Claim(w) \/ Restart(w)
  /\ UNCHANGED <<shop, scan>>

SweepTick == Tick /\ UNCHANGED <<shop, scan>>

\* Administrators' retries of failed jobs are left to JobQueue.
SweepNext ==
  \/ \E o \in Orders : Place(o) \/ Settle(o)
  \/ Schedule
  \/ \E w \in Workers :
       \/ Polling(w) \/ SweepCrash(w)
       \/ \E j \in JobIds : Functions(w, j) \/ Bookkeeping(w, j)
  \/ SweepTick

SweepSpec == SweepInit /\ [][SweepNext]_sweepvars

(***************************************************************************)
(* Fairness: as in JobQueue, and pg_cron fires in every period.            *)
(***************************************************************************)
SweepFairness ==
  /\ \A w \in Workers :
       /\ WF_sweepvars(Polling(w))
       /\ \A j \in JobIds : WF_sweepvars(Functions(w, j)) /\ WF_sweepvars(Bookkeeping(w, j))
  /\ WF_sweepvars(Schedule)
  /\ WF_sweepvars(SweepTick)

FairSweepSpec == SweepSpec /\ SweepFairness

-----------------------------------------------------------------------------
(***************************************************************************)
(* Properties.                                                             *)
(***************************************************************************)
Keyed(k) == {j \in Present : job[j].key = k}

\* The job the sweep gave an order did not get through: it failed for good or
\* went down with its worker.  So may the last scan the clock allows.
Lost(o) ==
  \E j \in Keyed(o) \cup Keyed(Cron(MaxTime)) : Status(j) = "failed" \/ Orphan(j)

\* An order that needs handling before any scan has seen it is handled.
SweptOnSight ==
  \A o \in Orders :
    (Stale(o) \/ status[o] = "opening") /\ Keyed(o) = {}
      ~> status[o] \in {"completed", "cancelled"} \/ Lost(o)

=============================================================================
