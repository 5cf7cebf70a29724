------------------------------- MODULE JobQueue -------------------------------
(***************************************************************************)
(* The PostgreSQL job queue: web processes and pg_cron insert rows into    *)
(* queue_job, worker processes claim them in batches with                  *)
(* FOR UPDATE SKIP LOCKED and run the jobs of a batch concurrently, and    *)
(* administrators retry what ended up in failed_jobs.                      *)
(*                                                                         *)
(* Each statement of a worker is a transaction of its own: claiming,       *)
(* running the function, noting its end, recording its failure.  A worker  *)
(* may die between any two of them, and while it holds the locks of a      *)
(* claim.  What a function does is left to the modules that extend this    *)
(* one; here it returns or raises.                                         *)
(***************************************************************************)
EXTENDS Naturals, FiniteSets

CONSTANTS
  JobIds,       \* primary keys queue_job may still hand out
  Calls,        \* what a job calls: a function with its arguments
  Home,         \* Home[c]: the queue a call is enqueued to
  Unregistered, \* calls of functions JOB_REGISTRY does not know
  Keys,         \* values of job_key
  None,         \* SQL NULL
  Default,      \* queue_default_name
  Workers,      \* worker processes
  Options,      \* Options[w]: the queues named by --queue
  Once,         \* workers started with --once
  Batch,        \* queue_max_jobs
  MaxTries,     \* queue_max_tries
  RetryJobs,    \* queue_retry_jobs
  Delay,        \* Delay[n]: ticks until a job is tried again after n attempts
  Admins,       \* requests of administrators that retry a failed job
  MaxCrashes,   \* bound on the crashes of workers
  MaxTime       \* bound on the clock

Queues == {Home[c] : c \in Calls} \cup {Default}

JobRow == [call : Calls, queue : Queues, key : Keys \cup {None},
           status : {"pending", "running", "finished", "failed"},
           attempts : 0..MaxTries, due : Nat]

ASSUME QueueAssumption ==
  /\ JobIds \subseteq Nat
  /\ Unregistered \subseteq Calls
  /\ None \notin Keys \cup Calls \cup JobRow
  /\ Batch \in Nat \ {0}
  /\ MaxTries \in Nat \ {0}
  /\ RetryJobs \in BOOLEAN
  /\ Delay \in [1..MaxTries -> Nat]
  /\ Once \subseteq Workers
  /\ MaxCrashes \in Nat
  /\ MaxTime \in Nat

VARIABLES
  job,      \* queue_job
  up,       \* the worker processes that run
  picked,   \* rows locked by a claim that is not yet committed
  task,     \* task[w][j]: what worker w has to do next for job j
  listed,   \* failed_jobs, by the job that failed
  retry,    \* the retry requests under way
  now,      \* the clock
  crashes,  \* crashes so far
  \* history
  returned, \* how often the function of a job has returned
  recorded, \* how often the failure of a job has been recorded
  requeued  \* how often a retry request has enqueued a failed job again

rowvars == <<job, listed>>
workvars == <<up, picked, task, crashes>>
history == <<returned, recorded, requeued>>
vars == <<rowvars, workvars, retry, now, history>>

Duties == {"none", "run", "finish", "fail", "reject", "record"}

\* A row of failed_jobs is listed until a retry or an administrator deletes it.
Listings == {"none", "listed", "retried", "dropped"}

Idle == [step |-> "idle", of |-> None]
RetryRequest == [step : {"enqueue", "delete"}, of : JobIds]

Init ==
  /\ job = [j \in JobIds |-> None]
  /\ up = Workers
  /\ picked = [w \in Workers |-> {}]
  /\ task = [w \in Workers |-> [j \in JobIds |-> "none"]]
  /\ listed = [j \in JobIds |-> "none"]
  /\ retry = [a \in Admins |-> Idle]
  /\ now = 0
  /\ crashes = 0
  /\ returned = [j \in JobIds |-> 0]
  /\ recorded = [j \in JobIds |-> 0]
  /\ requeued = [j \in JobIds |-> 0]

-----------------------------------------------------------------------------
(***************************************************************************)
(* Enqueueing.                                                             *)
(***************************************************************************)
Present == {j \in JobIds : job[j] # None}

Status(j) == IF job[j] = None THEN "absent" ELSE job[j].status

\* The next value of the sequence.
IsNext(j) == j \notin Present /\ \A i \in JobIds \ Present : j <= i

\* ON CONFLICT (job_key) DO NOTHING: a key that was ever used inserts nothing.
Enqueue(c, q, k) ==
  IF k # None /\ \E j \in Present : job[j].key = k
  THEN UNCHANGED job
  ELSE \E j \in JobIds :
         /\ IsNext(j)
         /\ job' = [job EXCEPT ![j] = [call |-> c, queue |-> q, key |-> k,
                                       status |-> "pending", attempts |-> 0, due |-> now]]

\* enqueue_job of the services, pyboard_enqueue_queue_job of pg_cron.
EnqueueJob(c, k) ==
  /\ Enqueue(c, Home[c], k)
  /\ UNCHANGED <<listed, workvars, retry, now, history>>

-----------------------------------------------------------------------------
(***************************************************************************)
(* Claiming: run_worker and claim_jobs.                                    *)
(***************************************************************************)
\* Mutant: every worker serves the default queue, whatever --queue says.
QueuesOfDefault(w) == {Default}

\* run_worker: without --queue a worker serves the default queue only.
QueuesOf(w) == IF Options[w] = {} THEN {Default} ELSE Options[w]

\* gather has returned: no job of the last batch is left.
AtRest(w) == w \in up /\ picked[w] = {} /\ \A j \in JobIds : task[w][j] = "none"

Locked == UNION {picked[w] : w \in Workers}

Claimable(w) ==
  {j \in Present : /\ job[j].status = "pending"
                   /\ job[j].queue \in QueuesOf(w)
                   /\ job[j].due <= now}

\* ORDER BY scheduled_at ASC, id ASC
Before(i, j) == job[i].due < job[j].due \/ (job[i].due = job[j].due /\ i < j)

FirstOf(S) == {j \in S : Cardinality({i \in S : Before(i, j)}) < Batch}

\* Mutant: the rows are picked without FOR UPDATE.
PickUnlocked(w) ==
  /\ AtRest(w)
  /\ FirstOf(Claimable(w)) # {}
  /\ picked' = [picked EXCEPT ![w] = FirstOf(Claimable(w))]
  /\ UNCHANGED <<rowvars, up, task, crashes, retry, now, history>>

\* The statement of claim_jobs has run: it skipped the rows others have locked.
Pick(w) ==
  LET batch == FirstOf(Claimable(w) \ Locked) IN
  /\ AtRest(w)
  /\ batch # {}
  /\ picked' = [picked EXCEPT ![w] = batch]
  /\ UNCHANGED <<rowvars, up, task, crashes, retry, now, history>>

FirstDuty(j) == IF job[j].call \in Unregistered THEN "reject" ELSE "run"

\* The claim commits and the jobs of the batch start.
Claim(w) ==
  /\ picked[w] # {}
  /\ job' = [j \in JobIds |-> IF j \in picked[w]
                              THEN [job[j] EXCEPT !.status = "running", !.attempts = @ + 1]
                              ELSE job[j]]
  /\ task' = [task EXCEPT ![w] = [j \in JobIds |-> IF j \in picked[w] THEN FirstDuty(j)
                                                                      ELSE @[j]]]
  /\ picked' = [picked EXCEPT ![w] = {}]
  /\ UNCHANGED <<listed, up, crashes, retry, now, history>>

\* A worker started with --once returns when a claim comes back empty.
Leave(w) ==
  /\ w \in Once /\ AtRest(w)
  /\ Claimable(w) \ Locked = {}
  /\ up' = up \ {w}
  /\ UNCHANGED <<rowvars, picked, task, crashes, retry, now, history>>

-----------------------------------------------------------------------------
(***************************************************************************)
(* Running: run_job, finish_job, fail_job and record_failed_job.           *)
(***************************************************************************)
Duty(w, j, duty) == task' = [task EXCEPT ![w][j] = duty]

SetStatus(j, s) == job' = [job EXCEPT ![j].status = s]

Return(w, j) ==
  /\ task[w][j] = "run"
  /\ Duty(w, j, "finish")
  /\ returned' = [returned EXCEPT ![j] = @ + 1]
  /\ UNCHANGED <<rowvars, up, picked, crashes, retry, now, recorded, requeued>>

Raise(w, j) ==
  /\ task[w][j] = "run"
  /\ Duty(w, j, "fail")
  /\ UNCHANGED <<rowvars, up, picked, crashes, retry, now, history>>

\* Mutant: finish_job stands inside the try block of run_job.
FinishJobInTry(w, j) ==
  /\ task[w][j] = "finish"
  /\ \/ SetStatus(j, "finished") /\ Duty(w, j, "none")
     \/ UNCHANGED job /\ Duty(w, j, "fail")
  /\ UNCHANGED <<listed, up, picked, crashes, retry, now, history>>

FinishJob(w, j) ==
  /\ task[w][j] = "finish"
  /\ SetStatus(j, "finished")
  /\ Duty(w, j, "none")
  /\ UNCHANGED <<listed, up, picked, crashes, retry, now, history>>

\* The attempts the claim returned are those of the row: nobody else writes a
\* running job.
ShouldRetry(w, j) ==
  task[w][j] = "fail" /\ RetryJobs /\ job[j].attempts < MaxTries

\* A moment in the future; the clock of the model stops at MaxTime.
Later(d) == IF now + d > MaxTime THEN MaxTime ELSE now + d

\* Mutant: a job that has failed for good is not recorded.
FailJobSilently(w, j) ==
  /\ task[w][j] \in {"fail", "reject"}
  /\ IF ShouldRetry(w, j)
     THEN job' = [job EXCEPT ![j].status = "pending",
                             ![j].due = Later(Delay[job[j].attempts])]
     ELSE SetStatus(j, "failed")
  /\ Duty(w, j, "none")
  /\ UNCHANGED <<listed, up, picked, crashes, retry, now, history>>

FailJob(w, j) ==
  /\ task[w][j] \in {"fail", "reject"}
  /\ \/ /\ ShouldRetry(w, j)
        /\ job' = [job EXCEPT ![j].status = "pending",
                              ![j].due = Later(Delay[job[j].attempts])]
        /\ Duty(w, j, "none")
     \/ /\ ~ShouldRetry(w, j)
        /\ SetStatus(j, "failed")
        /\ Duty(w, j, "record")
  /\ UNCHANGED <<listed, up, picked, crashes, retry, now, history>>

RecordFailedJob(w, j) ==
  /\ task[w][j] = "record"
  /\ listed' = [listed EXCEPT ![j] = "listed"]
  /\ recorded' = [recorded EXCEPT ![j] = @ + 1]
  /\ Duty(w, j, "none")
  /\ UNCHANGED <<job, up, picked, crashes, retry, now, returned, requeued>>

-----------------------------------------------------------------------------
(***************************************************************************)
(* A worker dies, by itself or because a statement of claim_jobs,          *)
(* finish_job, fail_job or record_failed_job raised: gather passes the     *)
(* exception on and the event loop cancels the jobs of the batch.  Its     *)
(* process manager starts it again, unless it was started with --once.     *)
(***************************************************************************)
Crash(w) ==
  /\ w \in up /\ crashes < MaxCrashes
  /\ crashes' = crashes + 1
  /\ up' = up \ {w}
  /\ picked' = [picked EXCEPT ![w] = {}]
  /\ task' = [task EXCEPT ![w] = [j \in JobIds |-> "none"]]
  /\ UNCHANGED <<rowvars, retry, now, history>>

Restart(w) ==
  /\ w \notin up \cup Once
  /\ up' = up \cup {w}
  /\ UNCHANGED <<rowvars, picked, task, crashes, retry, now, history>>

-----------------------------------------------------------------------------
(***************************************************************************)
(* Administration of failed jobs.                                          *)
(***************************************************************************)
\* retry_job has read the row of failed_jobs.
RetryJob(a, j) ==
  /\ retry[a] = Idle /\ listed[j] = "listed"
  /\ retry' = [retry EXCEPT ![a] = [step |-> "enqueue", of |-> j]]
  /\ UNCHANGED <<rowvars, workvars, now, history>>

\* enqueue_job commits by itself, without a key and to the queue of old.
RetryEnqueue(a) ==
  LET j == retry[a].of IN
  /\ retry[a].step = "enqueue"
  /\ Enqueue(job[j].call, job[j].queue, None)
  /\ requeued' = [requeued EXCEPT ![j] = @ + 1]
  /\ retry' = [retry EXCEPT ![a].step = "delete"]
  /\ UNCHANGED <<listed, workvars, now, returned, recorded>>

\* The request commits; a row that is gone is deleted once more, in vain.
RetryDelete(a) ==
  LET j == retry[a].of IN
  /\ retry[a].step = "delete"
  /\ listed' = [listed EXCEPT ![j] = IF @ = "listed" THEN "retried" ELSE @]
  /\ retry' = [retry EXCEPT ![a] = Idle]
  /\ UNCHANGED <<job, workvars, now, history>>

\* The request dies or its commit fails.
RetryAbort(a) ==
  /\ retry[a] # Idle
  /\ retry' = [retry EXCEPT ![a] = Idle]
  /\ UNCHANGED <<rowvars, workvars, now, history>>

DeleteJob(j) ==
  /\ listed[j] = "listed"
  /\ listed' = [listed EXCEPT ![j] = "dropped"]
  /\ UNCHANGED <<job, workvars, retry, now, history>>

Tick ==
  /\ now < MaxTime
  /\ now' = now + 1
  /\ UNCHANGED <<rowvars, workvars, retry, history>>

-----------------------------------------------------------------------------
JobStep(w, j) ==
  \/ Return(w, j) \/ Raise(w, j)
  \/ FinishJob(w, j) \/ FailJob(w, j) \/ RecordFailedJob(w, j)

Worker(w) ==
  \/ Pick(w) \/ Claim(w) \/ Leave(w) \/ Crash(w) \/ Restart(w)
  \/ \E j \in JobIds : JobStep(w, j)

Administration ==
  \/ \E a \in Admins : RetryEnqueue(a) \/ RetryDelete(a) \/ RetryAbort(a)
  \/ \E j \in JobIds : DeleteJob(j) \/ \E a \in Admins : RetryJob(a, j)

Next ==
  \/ \E c \in Calls, k \in Keys \cup {None} : EnqueueJob(c, k)
  \/ \E w \in Workers : Worker(w)
  \/ Administration
  \/ Tick

Spec == Init /\ [][Next]_vars

(***************************************************************************)
(* Fairness.  A worker that is up polls without end, every function ends,  *)
(* the process manager restarts what died and time goes on.  Nobody has to *)
(* enqueue, retry or crash.                                                *)
(***************************************************************************)
Fairness ==
  /\ \A w \in Workers : /\ WF_vars(Pick(w))
                        /\ WF_vars(Claim(w))
                        /\ WF_vars(Restart(w))
                        /\ \A j \in JobIds : WF_vars(JobStep(w, j))
  /\ WF_vars(Tick)

FairSpec == Spec /\ Fairness

-----------------------------------------------------------------------------
(***************************************************************************)
(* Properties.                                                             *)
(***************************************************************************)
\* Every variable has its type; a row is never tried more than MaxTries times.
TypeOK ==
  /\ job \in [JobIds -> JobRow \cup {None}]
  /\ up \subseteq Workers
  /\ picked \in [Workers -> SUBSET JobIds]
  /\ task \in [Workers -> [JobIds -> Duties]]
  /\ listed \in [JobIds -> Listings]
  /\ retry \in [Admins -> RetryRequest \cup {Idle}]
  /\ now \in Nat
  /\ crashes \in 0..MaxCrashes
  /\ returned \in [JobIds -> Nat]
  /\ recorded \in [JobIds -> Nat]
  /\ requeued \in [JobIds -> Nat]

\* The workers that have a claim or a duty on job j.
Hands(j) == {w \in Workers : j \in picked[w] \/ task[w][j] # "none"}

\* FOR UPDATE SKIP LOCKED: no two workers ever work on the same job, and what a
\* worker thinks of its job is what the row says.
OneWorker ==
  \A j \in JobIds, w \in Workers :
    /\ \A v \in Workers : w \in Hands(j) /\ v \in Hands(j) => v = w
    /\ j \in picked[w] => Status(j) = "pending" /\ task[w][j] = "none"
    /\ task[w][j] \in {"run", "finish", "fail", "reject"} => Status(j) = "running"
    /\ task[w][j] = "record" => Status(j) = "failed"

\* A function that has returned is not run again, whatever crashes, and a job is
\* finished only when its function has returned: a retry follows an exception
\* of the function, never an error in writing down its success.
NoRerun ==
  \A j \in JobIds :
    /\ returned[j] <= 1
    /\ Status(j) = "finished" => returned[j] = 1
    /\ returned[j] = 1 => Status(j) \in {"running", "finished"}

\* A job that failed for good is listed for the administrators once, unless a
\* worker is about to do so or a worker has died; and a job that a retry removed
\* from the list has been enqueued again, however requests overlap or break off.
FailureAccounted ==
  \A j \in JobIds :
    /\ recorded[j] <= 1
    /\ recorded[j] = 1 <=> listed[j] # "none"
    /\ recorded[j] = 1 => Status(j) = "failed"
    /\ Status(j) = "failed" =>
         \/ recorded[j] = 1
         \/ \E w \in Workers : task[w][j] = "record"
         \/ crashes > 0
    /\ listed[j] = "retried" => requeued[j] > 0

\* A running job whose worker has died: nothing ever touches it again.
Orphan(j) == Status(j) = "running" /\ Hands(j) = {}

\* A job that waits is finished, fails for good or is lost with its worker.
JobsSettle ==
  \A j \in JobIds :
    Status(j) = "pending" ~> Status(j) \in {"finished", "failed"} \/ Orphan(j)

=============================================================================
