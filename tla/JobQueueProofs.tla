---------------------------- MODULE JobQueueProofs ----------------------------
(***************************************************************************)
(* Theorems about JobQueue for any number of workers, jobs and crashes.    *)
(***************************************************************************)
EXTENDS JobQueue, TLAPS

(***************************************************************************)
(* The inductive invariant.  The bound on the attempts needs that a row    *)
(* that waits has an attempt left and one that runs has used one, and      *)
(* NoRerun that a worker that still has to run or to fail a job works on   *)
(* one that has not returned.                                              *)
(***************************************************************************)
TriesLeft ==
  \A j \in JobIds :
    /\ Status(j) = "pending" => job[j].attempts < MaxTries
    /\ Status(j) = "running" => job[j].attempts > 0

NotReturned ==
  \A j \in JobIds :
    /\ Status(j) \in {"absent", "pending"} => returned[j] = 0
    /\ \A w \in Workers :
         /\ task[w][j] \in {"run", "fail", "reject"} => returned[j] = 0
         /\ task[w][j] = "finish" => returned[j] = 1

\* What the steps of workers and clients of the queue have to keep.
Core ==
  /\ job \in [JobIds -> JobRow \cup {None}]
  /\ picked \in [Workers -> SUBSET JobIds]
  /\ task \in [Workers -> [JobIds -> Duties]]
  /\ returned \in [JobIds -> Nat]
  /\ OneWorker /\ NoRerun /\ TriesLeft /\ NotReturned

\* Requests retry rows that are there: retry_job enqueues the call of one.
Backed ==
  /\ \A j \in JobIds : listed[j] # "none" => job[j] # None
  /\ \A a \in Admins : retry[a].step = "enqueue" => job[retry[a].of] # None

\* The types of what Core leaves out.
Rest ==
  /\ up \subseteq Workers
  /\ listed \in [JobIds -> Listings]
  /\ retry \in [Admins -> RetryRequest \cup {Idle}]
  /\ now \in Nat
  /\ crashes \in 0..MaxCrashes
  /\ recorded \in [JobIds -> Nat]
  /\ requeued \in [JobIds -> Nat]

QInv == TypeOK /\ Core /\ Backed

\* Nothing deletes a row of queue_job.
RowsStay == \A j \in JobIds : job[j] # None => job'[j] # None

\* The tables the program starts with satisfy the invariant.
LEMMA InitQInv == Init => QInv
<1> SUFFICES ASSUME Init PROVE QInv
  OBVIOUS
<1>1. TypeOK
  BY QueueAssumption DEF Init, TypeOK, Duties, Listings
<1>2. OneWorker
  BY DEF Init, OneWorker, Hands, Status
<1>3. NoRerun /\ TriesLeft /\ NotReturned
  BY DEF Init, NoRerun, TriesLeft, NotReturned, Status
<1>4. Backed
  BY DEF Init, Backed, Idle
<1> QED BY <1>1, <1>2, <1>3, <1>4 DEF QInv, Core, TypeOK

\* One row of queue_job is written.
LEMMA RowWritten ==
  ASSUME job \in [JobIds -> JobRow \cup {None}],
         NEW j \in JobIds, NEW row \in JobRow, job' = [job EXCEPT ![j] = row]
  PROVE  /\ job' \in [JobIds -> JobRow \cup {None}]
         /\ Status(j)' = row.status /\ job'[j] = row
         /\ \A i \in JobIds \ {j} : Status(i)' = Status(i) /\ job'[i] = job[i]
<1>1. job'[j] = row /\ \A i \in JobIds \ {j} : job'[i] = job[i]
  OBVIOUS
<1>2. row # None
  BY QueueAssumption
<1> QED BY <1>1, <1>2 DEF Status

\* The duties of a worker are the ones run_job goes through.
LEMMA DutyTyped ==
  ASSUME Core, NEW w \in Workers, NEW j \in JobIds
  PROVE  task[w][j] \in Duties
BY DEF Core

\* Nothing of the queue but a row of failed_jobs, the clock or history changes.
LEMMA StutterKeeps ==
  ASSUME Core, UNCHANGED <<job, picked, task, returned>>
  PROVE  Core' /\ RowsStay
BY DEF RowsStay, Core, OneWorker, NoRerun, TriesLeft, NotReturned, Status, Hands

\* A new row waits for its first attempt.
LEMMA EnqueueKeeps ==
  ASSUME QInv, NEW c \in Calls, NEW q \in Queues, NEW k \in Keys \cup {None},
         Enqueue(c, q, k), UNCHANGED <<picked, task, returned>>
  PROVE  Core' /\ RowsStay
<1>1. CASE UNCHANGED job
  BY <1>1, StutterKeeps DEF QInv
<1>2. CASE ~UNCHANGED job
  <2> DEFINE row == [call |-> c, queue |-> q, key |-> k,
                     status |-> "pending", attempts |-> 0, due |-> now]
  <2>1. PICK j \in JobIds : IsNext(j) /\ job' = [job EXCEPT ![j] = row]
    BY <1>2 DEF Enqueue
  <2>2. row \in JobRow
    BY QueueAssumption DEF JobRow, QInv, TypeOK
  <2>3. job \in [JobIds -> JobRow \cup {None}]
    BY DEF QInv, Core
  <2> HIDE DEF row
  <2>4. /\ job' \in [JobIds -> JobRow \cup {None}]
        /\ Status(j)' = row.status /\ job'[j] = row
        /\ \A i \in JobIds \ {j} : Status(i)' = Status(i) /\ job'[i] = job[i]
    BY <2>1, <2>2, <2>3, RowWritten
  <2>5. row.status = "pending" /\ row.attempts = 0 /\ 0 < MaxTries
    BY QueueAssumption DEF row
  <2>6. Status(j) = "absent"
    BY <2>1 DEF IsNext, Present, Status
  <2>7. returned[j] = 0 /\ \A w \in Workers : j \notin picked[w] /\ task[w][j] = "none"
    BY <2>6, DutyTyped DEF QInv, Core, OneWorker, NotReturned, Duties
  <2>8. OneWorker'
    BY <2>4, <2>7 DEF QInv, Core, OneWorker, Hands
  <2>9. NoRerun' /\ TriesLeft' /\ NotReturned'
    BY <2>4, <2>5, <2>7 DEF QInv, Core, NoRerun, TriesLeft, NotReturned
  <2>10. RowsStay
    BY <2>1, <2>4 DEF RowsStay, IsNext, Present
  <2> QED BY <2>4, <2>8, <2>9, <2>10 DEF QInv, Core
<1> QED BY <1>1, <1>2

\* A worker has got one step further with one of its jobs.
LEMMA DutyKeeps ==
  ASSUME Core, NEW w \in Workers, NEW j \in JobIds, NEW d \in Duties,
         NEW row \in JobRow, NEW n \in {0, 1},
         task[w][j] # "none", Duty(w, j, d), UNCHANGED picked,
         job' = [job EXCEPT ![j] = row], returned' = [returned EXCEPT ![j] = n],
         d \in {"run", "finish", "fail", "reject"} => row.status = "running",
         d = "record" => row.status = "failed",
         d \in {"run", "fail", "reject"} => n = 0,
         d = "finish" => n = 1,
         row.status = "finished" => n = 1,
         n = 1 => row.status \in {"running", "finished"},
         row.status = "pending" => row.attempts < MaxTries,
         row.status = "running" => row.attempts > 0
  PROVE  Core' /\ RowsStay
<1>1. job \in [JobIds -> JobRow \cup {None}]
  BY DEF Core
<1>2. /\ job' \in [JobIds -> JobRow \cup {None}]
      /\ Status(j)' = row.status /\ job'[j] = row
      /\ \A i \in JobIds \ {j} : Status(i)' = Status(i) /\ job'[i] = job[i]
  BY <1>1, RowWritten
<1>3. /\ task' \in [Workers -> [JobIds -> Duties]]
      /\ task'[w][j] = d
      /\ \A v \in Workers, i \in JobIds : v # w \/ i # j => task'[v][i] = task[v][i]
  BY DEF Core, Duty
<1>4. /\ returned' \in [JobIds -> Nat]
      /\ returned'[j] = n /\ \A i \in JobIds \ {j} : returned'[i] = returned[i]
  BY DEF Core
<1>5. \A v \in Workers : j \notin picked[v] /\ (v # w => task[v][j] = "none")
  BY DEF Core, OneWorker, Hands
<1>6. row.status # "absent"
  BY DEF JobRow
<1>7. OneWorker'
  BY <1>2, <1>3, <1>5 DEF Core, OneWorker, Hands
<1>8. NoRerun'
  BY <1>2, <1>4 DEF Core, NoRerun
<1>9. TriesLeft'
  BY <1>2 DEF Core, TriesLeft
<1>10. NotReturned'
  <2> SUFFICES ASSUME NEW i \in JobIds
               PROVE  /\ Status(i)' \in {"absent", "pending"} => returned'[i] = 0
                      /\ \A v \in Workers :
                           /\ task'[v][i] \in {"run", "fail", "reject"} => returned'[i] = 0
                           /\ task'[v][i] = "finish" => returned'[i] = 1
    BY DEF NotReturned
  <2>1. CASE i = j
    <3>1. \A v \in Workers : v # w => task'[v][i] = "none"
      BY <1>3, <1>5, <2>1
    <3> QED BY <1>2, <1>3, <1>4, <1>6, <2>1, <3>1
  <2>2. CASE i # j
    BY <1>2, <1>3, <1>4, <2>2 DEF Core, NotReturned
  <2> QED BY <2>1, <2>2
<1>11. RowsStay
  BY <1>2, QueueAssumption DEF RowsStay
<1> QED BY <1>2, <1>3, <1>4, <1>7, <1>8, <1>9, <1>10, <1>11 DEF Core

\* Every step of run_job, finish_job, fail_job and record_failed_job keeps it.
LEMMA JobStepKeeps ==
  ASSUME QInv, NEW w \in Workers, NEW j \in JobIds, JobStep(w, j)
  PROVE  Core' /\ RowsStay
<1> USE DEF QInv
<1> DEFINE row == job[j]
<1>1. /\ task[w][j] # "none" /\ UNCHANGED picked
      /\ \/ task[w][j] = "record" /\ Status(j) = "failed"
         \/ task[w][j] # "record" /\ Status(j) = "running"
  BY DutyTyped DEF JobStep, Return, Raise, FinishJob, FailJob, RecordFailedJob,
                   Core, OneWorker, Duties
<1>2. row \in JobRow /\ Status(j) = row.status /\ (row.status = "running" => row.attempts > 0)
  BY <1>1 DEF Core, Status, TriesLeft
<1>3. returned[j] \in {0, 1}
  BY DEF Core, NoRerun
<1>4. UNCHANGED job => job' = [job EXCEPT ![j] = row]
  BY DEF Core
<1>5. UNCHANGED returned => returned' = [returned EXCEPT ![j] = returned[j]]
  BY DEF Core
<1>6. CASE Return(w, j)
  <2>1. task[w][j] = "run" /\ returned[j] = 0 /\ row.status = "running"
    BY <1>1, <1>2, <1>6 DEF Return, Core, NotReturned
  <2>2. Duty(w, j, "finish") /\ UNCHANGED job /\ returned' = [returned EXCEPT ![j] = 1]
    BY <1>6, <2>1 DEF Return, rowvars
  <2>3. Core
    OBVIOUS
  <2> HIDE DEF row, QInv
  <2> QED BY <1>1, <1>2, <1>4, <2>1, <2>2, <2>3, DutyKeeps DEF Duties
<1>7. CASE Raise(w, j)
  <2>1. returned[j] = 0 /\ row.status = "running"
    BY <1>1, <1>2, <1>7 DEF Raise, Core, NotReturned
  <2>2. Duty(w, j, "fail") /\ UNCHANGED <<job, returned>>
    BY <1>7 DEF Raise, rowvars, history
  <2>3. Core
    OBVIOUS
  <2> HIDE DEF row, QInv
  <2> QED BY <1>1, <1>2, <1>4, <1>5, <2>1, <2>2, <2>3, DutyKeeps DEF Duties
<1>8. CASE FinishJob(w, j)
  <2>1. returned[j] = 1
    BY <1>8 DEF FinishJob, Core, NotReturned
  <2>2. PICK new \in JobRow : new.status = "finished" /\ job' = [job EXCEPT ![j] = new]
    <3>1. [row EXCEPT !.status = "finished"] \in JobRow
      BY <1>2 DEF JobRow
    <3> QED BY <1>2, <1>8, <3>1 DEF FinishJob, SetStatus, JobRow
  <2>3. Duty(w, j, "none") /\ UNCHANGED returned
    BY <1>8 DEF FinishJob, history
  <2>4. Core
    OBVIOUS
  <2> HIDE DEF row, QInv
  <2> QED BY <1>1, <1>5, <2>1, <2>2, <2>3, <2>4, DutyKeeps DEF Duties
<1>9. CASE FailJob(w, j)
  <2>1. returned[j] = 0 /\ UNCHANGED returned
    BY <1>9 DEF FailJob, history, Core, NotReturned
  <2>2. Core /\ returned' = [returned EXCEPT ![j] = 0]
    BY <1>5, <2>1
  <2>3. CASE ShouldRetry(w, j) /\ job' = [job EXCEPT ![j].status = "pending",
                                              ![j].due = Later(Delay[job[j].attempts])]
             /\ Duty(w, j, "none")
    <3> DEFINE new == [row EXCEPT !.status = "pending", !.due = Later(Delay[row.attempts])]
    <3>1. row.attempts \in 1..MaxTries /\ row.attempts < MaxTries
      <4>1. row.status = "running" /\ row.attempts \in 0..MaxTries
        BY <1>1, <1>2, <2>3 DEF ShouldRetry, JobRow
      <4> QED BY <1>2, <2>3, <4>1 DEF ShouldRetry
    <3>2. Later(Delay[row.attempts]) \in Nat
      BY <3>1, QueueAssumption DEF Later, TypeOK
    <3>3. new \in JobRow /\ new.status = "pending" /\ new.attempts < MaxTries
      BY <1>2, <3>1, <3>2 DEF JobRow
    <3>4. job' = [job EXCEPT ![j] = new]
      BY <1>2, <2>3 DEF JobRow
    <3> HIDE DEF row, new, QInv
    <3>5. Duty(w, j, "none") /\ "none" \in Duties /\ 0 \in {0, 1}
      BY <2>3 DEF Duties
    <3>6. "none" \notin {"run", "finish", "fail", "reject"} /\ "none" # "record"
      OBVIOUS
    <3>7. new.status # "finished" /\ new.status # "running" /\ 0 # 1
      BY <3>3
    <3> HIDE DEF Duty
    <3> QED BY <1>1, <2>2, <3>3, <3>4, <3>5, <3>6, <3>7, DutyKeeps
  <2>4. CASE SetStatus(j, "failed") /\ Duty(w, j, "record")
    <3>1. PICK new \in JobRow : new.status = "failed" /\ job' = [job EXCEPT ![j] = new]
      <4>1. [row EXCEPT !.status = "failed"] \in JobRow
        BY <1>2 DEF JobRow
      <4> QED BY <1>2, <2>4, <4>1 DEF SetStatus, JobRow
    <3> HIDE DEF row, QInv
    <3>2. Duty(w, j, "record") /\ "record" \in Duties /\ 0 \in {0, 1}
      BY <2>4 DEF Duties
    <3>3. "record" \notin {"run", "finish", "fail", "reject"}
      OBVIOUS
    <3>4. new.status \notin {"pending", "running", "finished"} /\ 0 # 1
      BY <3>1
    <3> HIDE DEF Duty
    <3> QED BY <1>1, <2>2, <3>1, <3>2, <3>3, <3>4, DutyKeeps
  <2> QED BY <1>9, <2>3, <2>4 DEF FailJob
<1>10. CASE RecordFailedJob(w, j)
  <2>1. Duty(w, j, "none") /\ UNCHANGED <<job, returned>> /\ row.status = "failed"
    BY <1>1, <1>2, <1>10 DEF RecordFailedJob
  <2>2. returned[j] = 0
    BY <1>2, <1>3, <2>1 DEF Core, NoRerun
  <2>3. Core
    OBVIOUS
  <2> HIDE DEF row, QInv
  <2> QED BY <1>1, <1>2, <1>4, <1>5, <2>1, <2>2, <2>3, DutyKeeps DEF Duties
<1> QED BY <1>6, <1>7, <1>8, <1>9, <1>10 DEF JobStep

\* claim_jobs: the rows another claim has locked are skipped, so two claims
\* never share a row; what a worker has locked is its own when it commits.
LEMMA PickKeeps ==
  ASSUME Core, NEW w \in Workers, Pick(w)
  PROVE  Core' /\ RowsStay
<1>1. /\ UNCHANGED <<job, task, returned>>
      /\ \A j \in JobIds : task[w][j] = "none"
  BY DEF Pick, rowvars, history, AtRest
<1>2. PICK S \in SUBSET JobIds : /\ picked' = [picked EXCEPT ![w] = S]
                                 /\ \A j \in S : Status(j) = "pending" /\ j \notin Locked
  <2>1. FirstOf(Claimable(w) \ Locked) \subseteq Claimable(w) \ Locked
    BY DEF FirstOf
  <2>2. Claimable(w) \subseteq JobIds /\ \A j \in Claimable(w) : Status(j) = "pending"
    BY DEF Claimable, Present, Status
  <2> QED BY <2>1, <2>2 DEF Pick
<1>3. /\ picked' \in [Workers -> SUBSET JobIds]
      /\ picked'[w] = S /\ \A v \in Workers \ {w} : picked'[v] = picked[v]
  BY <1>2 DEF Core
<1>4. \A j \in S, v \in Workers : j \notin picked[v] /\ task[v][j] = "none"
  BY <1>2, DutyTyped DEF Locked, Core, OneWorker, Duties
<1>5. OneWorker'
  BY <1>1, <1>2, <1>3, <1>4 DEF Core, OneWorker, Hands, Status
<1>6. NoRerun' /\ TriesLeft' /\ NotReturned'
  BY <1>1 DEF Core, NoRerun, TriesLeft, NotReturned, Status
<1> QED BY <1>1, <1>3, <1>5, <1>6 DEF Core, RowsStay

\* The claim commits: each row it holds starts one attempt it had left.
LEMMA ClaimKeeps ==
  ASSUME Core, NEW w \in Workers, Claim(w)
  PROVE  Core' /\ RowsStay
<1> DEFINE S == picked[w]
<1>1. \A j \in S : /\ job[j] \in JobRow /\ Status(j) = "pending" /\ job[j].status = "pending"
                   /\ job[j].attempts < MaxTries /\ returned[j] = 0
                   /\ \A v \in Workers : /\ task[v][j] = "none"
                                         /\ v # w => j \notin picked[v]
  BY DutyTyped DEF Core, OneWorker, Hands, TriesLeft, NotReturned, Status, Duties
<1>2. \A j \in S : /\ job'[j] \in JobRow
                   /\ job'[j].status = "running" /\ job'[j].attempts > 0
  <2> SUFFICES ASSUME NEW j \in S
               PROVE  job'[j] \in JobRow /\ job'[j].status = "running" /\ job'[j].attempts > 0
    OBVIOUS
  <2>1. j \in JobIds
    BY DEF Core
  <2>2. job'[j] = [job[j] EXCEPT !.status = "running", !.attempts = @ + 1]
    BY <2>1 DEF Claim
  <2>3. job[j] \in JobRow /\ job[j].attempts + 1 \in 0..MaxTries
    BY <1>1, QueueAssumption DEF JobRow
  <2>4. job[j].attempts + 1 > 0
    BY <1>1 DEF JobRow
  <2> QED BY <2>2, <2>3, <2>4 DEF JobRow
<1>3. \A j \in JobIds \ S : job'[j] = job[j]
  BY DEF Claim
<1>4. job' \in [JobIds -> JobRow \cup {None}]
  BY <1>2, <1>3 DEF Claim, Core
<1>5. /\ \A j \in S : Status(j)' = "running"
      /\ \A j \in JobIds \ S : Status(j)' = Status(j)
  BY <1>2, <1>3, QueueAssumption DEF Status
<1>6. /\ task' \in [Workers -> [JobIds -> Duties]]
      /\ \A j \in S : task'[w][j] \in {"run", "reject"}
      /\ \A v \in Workers, j \in JobIds : v # w \/ j \notin S => task'[v][j] = task[v][j]
  BY DEF Claim, Core, FirstDuty, Duties
<1>7. /\ picked' \in [Workers -> SUBSET JobIds]
      /\ picked'[w] = {} /\ \A v \in Workers \ {w} : picked'[v] = picked[v]
  BY DEF Claim, Core
<1>8. UNCHANGED returned
  BY DEF Claim, history
<1> HIDE DEF S
<1>9. \A j \in JobIds, v \in Workers : v \in Hands(j)' => v \in Hands(j)
  <2> SUFFICES ASSUME NEW j \in JobIds, NEW v \in Workers, v \in Hands(j)'
               PROVE  v \in Hands(j)
    OBVIOUS
  <2>1. CASE v = w /\ j \in S
    BY <2>1 DEF Hands, S
  <2>2. CASE v # w \/ j \notin S
    BY <1>6, <1>7, <2>2 DEF Hands
  <2> QED BY <2>1, <2>2
<1>10. OneWorker'
  <2> SUFFICES ASSUME NEW j \in JobIds, NEW v \in Workers
      PROVE  /\ \A x \in Workers : v \in Hands(j)' /\ x \in Hands(j)' => x = v
             /\ j \in picked'[v] => Status(j)' = "pending" /\ task'[v][j] = "none"
             /\ task'[v][j] \in {"run", "finish", "fail", "reject"} => Status(j)' = "running"
             /\ task'[v][j] = "record" => Status(j)' = "failed"
    BY DEF OneWorker
  <2>1. \A x \in Workers : v \in Hands(j)' /\ x \in Hands(j)' => x = v
    BY <1>9 DEF Core, OneWorker
  <2>2. CASE j \in S
    <3>1. v # w => task'[v][j] = "none" /\ j \notin picked'[v]
      BY <1>1, <1>6, <1>7, <2>2 DEF S
    <3> QED BY <1>5, <1>6, <1>7, <2>1, <2>2, <3>1
  <2>3. CASE j \notin S
    BY <1>5, <1>6, <1>7, <2>1, <2>3 DEF Core, OneWorker
  <2> QED BY <2>2, <2>3
<1>11. NoRerun'
  BY <1>1, <1>5, <1>8 DEF Core, NoRerun, S
<1>12. TriesLeft'
  BY <1>2, <1>3, <1>5 DEF Core, TriesLeft
<1>13. NotReturned'
  <2> SUFFICES ASSUME NEW j \in JobIds
               PROVE  /\ Status(j)' \in {"absent", "pending"} => returned'[j] = 0
                      /\ \A v \in Workers :
                           /\ task'[v][j] \in {"run", "fail", "reject"} => returned'[j] = 0
                           /\ task'[v][j] = "finish" => returned'[j] = 1
    BY DEF NotReturned
  <2>1. CASE j \in S
    <3>1. returned'[j] = 0 /\ \A v \in Workers : task'[v][j] # "finish"
      BY <1>1, <1>6, <1>8, <2>1 DEF S
    <3> QED BY <3>1
  <2>2. CASE j \notin S
    BY <1>5, <1>6, <1>8, <2>2 DEF Core, NotReturned
  <2> QED BY <2>1, <2>2
<1>14. RowsStay
  BY <1>2, <1>3, QueueAssumption DEF RowsStay
<1> QED BY <1>4, <1>6, <1>7, <1>8, <1>10, <1>11, <1>12, <1>13, <1>14 DEF Core

\* A worker that dies gives back its locks and forgets its jobs.
LEMMA CrashKeeps ==
  ASSUME Core, NEW w \in Workers, Crash(w)
  PROVE  Core' /\ RowsStay
<1>1. UNCHANGED <<job, returned>>
  BY DEF Crash, rowvars, history
<1>2. /\ picked' \in [Workers -> SUBSET JobIds]
      /\ picked'[w] = {} /\ \A v \in Workers \ {w} : picked'[v] = picked[v]
  BY DEF Crash, Core
<1>3. /\ task' \in [Workers -> [JobIds -> Duties]]
      /\ \A j \in JobIds : task'[w][j] = "none"
      /\ \A v \in Workers \ {w} : task'[v] = task[v]
  BY DEF Crash, Core, Duties
<1>4. OneWorker'
  BY <1>1, <1>2, <1>3 DEF Core, OneWorker, Hands, Status
<1>5. NoRerun' /\ TriesLeft' /\ NotReturned'
  BY <1>1, <1>3 DEF Core, NoRerun, TriesLeft, NotReturned, Status
<1> QED BY <1>1, <1>2, <1>3, <1>4, <1>5 DEF Core, RowsStay

\* The lists of failures and of retry requests, and the counters.
LEMMA RestKeeps ==
  ASSUME QInv, [Next]_vars
  PROVE  Rest'
<1> USE DEF TypeOK, Rest, QInv
<1>1. CASE UNCHANGED vars
  BY <1>1 DEF vars, rowvars, workvars, history
<1>2. ASSUME NEW c \in Calls, NEW k \in Keys \cup {None}, EnqueueJob(c, k)
      PROVE  Rest'
  BY <1>2 DEF EnqueueJob, workvars, history
<1>3. ASSUME NEW w \in Workers, Pick(w) \/ Claim(w) \/ Leave(w) \/ Restart(w)
      PROVE  Rest'
  BY <1>3 DEF Pick, Claim, Leave, Restart, rowvars, history
<1>4. ASSUME NEW w \in Workers, Crash(w)
      PROVE  Rest'
  BY <1>4, QueueAssumption DEF Crash, rowvars, history
<1>5. ASSUME NEW w \in Workers, NEW j \in JobIds,
             Return(w, j) \/ Raise(w, j) \/ FinishJob(w, j) \/ FailJob(w, j)
      PROVE  Rest'
  BY <1>5 DEF Return, Raise, FinishJob, FailJob, rowvars, history
<1>6. ASSUME NEW w \in Workers, NEW j \in JobIds, RecordFailedJob(w, j)
      PROVE  Rest'
  BY <1>6 DEF RecordFailedJob, Listings
<1>7. ASSUME NEW a \in Admins, RetryEnqueue(a)
      PROVE  Rest'
  <2>1. retry[a] \in RetryRequest
    BY <1>7 DEF RetryEnqueue, Idle
  <2> QED BY <1>7, <2>1 DEF RetryEnqueue, RetryRequest, workvars
<1>8. ASSUME NEW a \in Admins, RetryDelete(a) \/ RetryAbort(a)
      PROVE  Rest'
  BY <1>8 DEF RetryDelete, RetryAbort, Listings, rowvars, workvars, history
<1>9. ASSUME NEW a \in Admins, NEW j \in JobIds, RetryJob(a, j)
      PROVE  Rest'
  BY <1>9 DEF RetryJob, RetryRequest, rowvars, workvars, history
<1>10. ASSUME NEW j \in JobIds, DeleteJob(j)
       PROVE  Rest'
  BY <1>10 DEF DeleteJob, Listings, workvars, history
<1>11. CASE Tick
  BY <1>11 DEF Tick, rowvars, workvars, history
<1> QED
  BY <1>1, <1>2, <1>3, <1>4, <1>5, <1>6, <1>7, <1>8, <1>9, <1>10, <1>11
  DEF Next, Worker, JobStep, Administration

\* Every step keeps the rows, the locks and the duties of the workers in order.
LEMMA CoreKeeps ==
  ASSUME QInv, [Next]_vars
  PROVE  Core' /\ RowsStay
<1>1. CASE UNCHANGED <<job, picked, task, returned>>
  BY <1>1, StutterKeeps DEF QInv
<1>2. ASSUME NEW c \in Calls, NEW k \in Keys \cup {None}, EnqueueJob(c, k)
      PROVE  Core' /\ RowsStay
  <2>1. Home[c] \in Queues
    BY DEF Queues
  <2> QED BY <1>2, <2>1, EnqueueKeeps DEF EnqueueJob, workvars, history
<1>3. ASSUME NEW a \in Admins, RetryEnqueue(a)
      PROVE  Core' /\ RowsStay
  <2>1. retry[a].of \in JobIds /\ job[retry[a].of] \in JobRow
    BY <1>3 DEF RetryEnqueue, RetryRequest, Idle, QInv, TypeOK, Backed
  <2>2. job[retry[a].of].call \in Calls /\ job[retry[a].of].queue \in Queues
    BY <2>1 DEF JobRow
  <2>3. Enqueue(job[retry[a].of].call, job[retry[a].of].queue, None)
    BY <1>3 DEF RetryEnqueue
  <2>4. UNCHANGED <<picked, task, returned>>
    BY <1>3 DEF RetryEnqueue, workvars
  <2> QED BY <2>2, <2>3, <2>4, EnqueueKeeps
<1>4. ASSUME NEW w \in Workers, Worker(w)
      PROVE  Core' /\ RowsStay
  <2>1. Leave(w) \/ Restart(w) => UNCHANGED <<job, picked, task, returned>>
    BY DEF Leave, Restart, rowvars, history
  <2> QED
    BY <1>1, <1>4, <2>1, PickKeeps, ClaimKeeps, CrashKeeps, JobStepKeeps DEF Worker, QInv
<1>5. \/ UNCHANGED vars \/ Tick
      \/ \E a \in Admins : RetryDelete(a) \/ RetryAbort(a)
      \/ \E j \in JobIds : DeleteJob(j) \/ \E a \in Admins : RetryJob(a, j)
      => UNCHANGED <<job, picked, task, returned>>
  BY DEF vars, rowvars, workvars, history, Tick, RetryDelete, RetryAbort, DeleteJob, RetryJob
<1> QED BY <1>1, <1>2, <1>3, <1>4, <1>5 DEF Next, Administration

\* What is listed as failed and what is retried stays in queue_job.
LEMMA BackedKeeps ==
  ASSUME QInv, [Next]_vars, RowsStay
  PROVE  Backed'
<1>1. CASE UNCHANGED <<listed, retry>>
  BY <1>1 DEF Backed, RowsStay, QInv, TypeOK, RetryRequest, Idle
<1>2. ASSUME NEW w \in Workers, NEW j \in JobIds, RecordFailedJob(w, j)
      PROVE  Backed'
  <2>1. job[j] # None
    BY <1>2 DEF RecordFailedJob, QInv, Core, OneWorker, Status
  <2> QED BY <1>2, <2>1 DEF RecordFailedJob, Backed, QInv, TypeOK
<1>3. ASSUME NEW a \in Admins,
             RetryEnqueue(a) \/ RetryDelete(a) \/ RetryAbort(a)
      PROVE  Backed'
  <2>1. /\ \A j \in JobIds : listed'[j] # "none" => listed[j] # "none"
        /\ \A b \in Admins : retry'[b].step = "enqueue" => retry'[b] = retry[b]
    BY <1>3 DEF RetryEnqueue, RetryDelete, RetryAbort, rowvars, Idle, QInv, TypeOK,
                RetryRequest
  <2> QED BY <2>1 DEF Backed, RowsStay, QInv, TypeOK, RetryRequest, Idle
<1>4. ASSUME NEW a \in Admins, NEW j \in JobIds, RetryJob(a, j)
      PROVE  Backed'
  BY <1>4 DEF RetryJob, rowvars, Backed, QInv, TypeOK
<1>5. ASSUME NEW j \in JobIds, DeleteJob(j)
      PROVE  Backed'
  BY <1>5 DEF DeleteJob, Backed, QInv, TypeOK
<1>6. ASSUME NEW w \in Workers, Worker(w)
      PROVE  \/ UNCHANGED <<listed, retry>>
             \/ \E j \in JobIds : RecordFailedJob(w, j)
  BY <1>6 DEF Worker, Pick, Claim, Leave, Crash, Restart, JobStep, Return, Raise,
              FinishJob, FailJob, rowvars
<1>7. UNCHANGED vars \/ Tick \/ (\E c \in Calls, k \in Keys \cup {None} : EnqueueJob(c, k))
      => UNCHANGED <<listed, retry>>
  BY DEF vars, rowvars, Tick, EnqueueJob
<1> QED BY <1>1, <1>2, <1>3, <1>4, <1>5, <1>6, <1>7 DEF Next, Administration

\* The invariant is inductive.
LEMMA NextQInv == QInv /\ [Next]_vars => QInv'
<1> SUFFICES ASSUME QInv, [Next]_vars PROVE QInv'
  OBVIOUS
<1>1. Core' /\ RowsStay
  BY CoreKeeps
<1>2. Backed' /\ Rest'
  BY <1>1, BackedKeeps, RestKeeps
<1> QED BY <1>1, <1>2 DEF QInv, TypeOK, Core, Rest

\* Every reachable state satisfies the invariant.
LEMMA Reachable == Spec => []QInv
BY InitQInv, NextQInv, PTL DEF Spec

\* Every variable has its type: in particular no row of queue_job is ever
\* claimed more often than queue_max_tries, whatever claims, crashes and retries.
THEOREM QueueTypeCorrect == Spec => []TypeOK
<1>1. QInv => TypeOK
  BY DEF QInv
<1> QED BY <1>1, Reachable, PTL

\* FOR UPDATE SKIP LOCKED in claim_jobs: two workers never hold or run the same
\* job, and a worker that still has to write a job finds the row as it left it.
THEOREM NoSharedJob == Spec => []OneWorker
<1>1. QInv => OneWorker
  BY DEF QInv, Core
<1> QED BY <1>1, Reachable, PTL

\* run_job and finish_job: a function that has returned is never called again
\* for the same row, and a row is finished only when its function has returned.
THEOREM NoRerunAfterSuccess == Spec => []NoRerun
<1>1. QInv => NoRerun
  BY DEF QInv, Core
<1> QED BY <1>1, Reachable, PTL

(***************************************************************************)
(* The accounts of failures.  FailureAccounted needs that whoever is about *)
(* to record a failure is the first to do so, and that a request that is   *)
(* about to delete the entry has enqueued the job.                         *)
(***************************************************************************)
FirstRecord == \A w \in Workers, j \in JobIds : task[w][j] = "record" => recorded[j] = 0

EnqueuedFirst == \A a \in Admins : retry[a].step = "delete" => requeued[retry[a].of] > 0

AInv == FailureAccounted /\ FirstRecord /\ EnqueuedFirst

accounts == <<listed, recorded, requeued, retry, crashes>>

\* Nothing has failed when the program starts.
LEMMA InitAInv == Init => AInv
<1> SUFFICES ASSUME Init PROVE AInv
  OBVIOUS
<1>1. FailureAccounted
  BY DEF Init, FailureAccounted, Status
<1>2. FirstRecord /\ EnqueuedFirst
  BY DEF Init, FirstRecord, EnqueuedFirst, Idle
<1> QED BY <1>1, <1>2 DEF AInv

\* The accounts are right after a step that writes none of them, that changes
\* the status of no failed row, and after which every row that has failed anew
\* has a worker that is going to record it.
LEMMA AccountsStay ==
  ASSUME QInv, AInv, UNCHANGED accounts,
         \A j \in JobIds : Status(j) = "failed" => Status(j)' = "failed",
         \A j \in JobIds : Status(j)' = "failed" =>
           Status(j) = "failed" \/ \E w \in Workers : task'[w][j] = "record",
         \A w \in Workers, j \in JobIds :
           task[w][j] = "record" => task'[w][j] = "record",
         \A w \in Workers, j \in JobIds :
           task'[w][j] = "record" => task[w][j] = "record" \/ Status(j) # "failed"
  PROVE  AInv'
<1>1. ASSUME NEW j \in JobIds
      PROVE  /\ recorded'[j] = recorded[j] /\ listed'[j] = listed[j]
             /\ requeued'[j] = requeued[j] /\ crashes' = crashes
             /\ recorded[j] \in Nat
  BY DEF accounts, QInv, TypeOK
<1>2. FailureAccounted'
  <2> SUFFICES ASSUME NEW j \in JobIds
               PROVE  (/\ recorded[j] <= 1
                       /\ recorded[j] = 1 <=> listed[j] # "none"
                       /\ recorded[j] = 1 => Status(j) = "failed"
                       /\ Status(j) = "failed" =>
                            \/ recorded[j] = 1
                            \/ \E w \in Workers : task[w][j] = "record"
                            \/ crashes > 0
                       /\ listed[j] = "retried" => requeued[j] > 0)'
    BY DEF FailureAccounted
  <2> USE <1>1 DEF AInv, FailureAccounted
  <2>1. /\ (recorded[j] <= 1)'
        /\ (recorded[j] = 1 <=> listed[j] # "none")'
        /\ (listed[j] = "retried" => requeued[j] > 0)'
    OBVIOUS
  <2>2. (recorded[j] = 1 => Status(j) = "failed")'
    OBVIOUS
  <2>3. (Status(j) = "failed" =>
           \/ recorded[j] = 1
           \/ \E w \in Workers : task[w][j] = "record"
           \/ crashes > 0)'
    OBVIOUS
  <2> QED BY <2>1, <2>2, <2>3
<1>3. FirstRecord'
  BY <1>1 DEF AInv, FirstRecord, FailureAccounted
<1>4. EnqueuedFirst'
  BY DEF AInv, EnqueuedFirst, accounts, QInv, TypeOK
<1> QED BY <1>2, <1>3, <1>4 DEF AInv

\* An inserted row has not failed.
LEMMA EnqueueStatus ==
  ASSUME QInv, NEW c, NEW q, NEW k, Enqueue(c, q, k)
  PROVE  \A j \in JobIds : Status(j) = "failed" <=> Status(j)' = "failed"
<1>1. CASE UNCHANGED job
  BY <1>1 DEF Status
<1>2. CASE \E i \in JobIds :
             /\ IsNext(i)
             /\ job' = [job EXCEPT ![i] = [call |-> c, queue |-> q, key |-> k,
                                       status |-> "pending", attempts |-> 0, due |-> now]]
  <2> DEFINE row == [call |-> c, queue |-> q, key |-> k,
                     status |-> "pending", attempts |-> 0, due |-> now]
  <2>1. PICK i \in JobIds : IsNext(i) /\ job' = [job EXCEPT ![i] = row]
    BY <1>2
  <2>2. row.status = "pending"
    OBVIOUS
  <2> HIDE DEF row
  <2>3. job[i] = None /\ job'[i] = row /\ \A j \in JobIds \ {i} : job'[j] = job[j]
    BY <2>1 DEF IsNext, Present, QInv, TypeOK
  <2> QED BY <2>2, <2>3 DEF Status
<1> QED BY <1>1, <1>2 DEF Enqueue

\* A claim takes rows that wait: none of them has failed for good.
LEMMA ClaimAccounts ==
  ASSUME QInv, AInv, NEW w \in Workers,
         Pick(w) \/ Claim(w) \/ Leave(w) \/ Restart(w)
  PROVE  AInv'
<1> USE DEF QInv, TypeOK
<1>1. CASE Pick(w) \/ Leave(w) \/ Restart(w)
  <2>1. UNCHANGED <<job, task>> /\ UNCHANGED accounts
    BY <1>1 DEF Pick, Leave, Restart, rowvars, history, accounts
  <2> QED BY <2>1, AccountsStay DEF Status
<1>2. CASE Claim(w)
  <2>1. UNCHANGED accounts
    BY <1>2 DEF Claim, history, accounts
  <2>2. \A j \in JobIds : j \in picked[w] => Status(j) = "pending" /\ task[w][j] = "none"
    BY DEF Core, OneWorker
  <2>3. \A j \in JobIds : Status(j)' = "failed" <=> Status(j) = "failed"
    <3>1. \A j \in JobIds : j \notin picked[w] => job'[j] = job[j]
      BY <1>2 DEF Claim
    <3>2. ASSUME NEW j \in JobIds, j \in picked[w]
          PROVE  Status(j) # "failed" /\ Status(j)' # "failed"
      <4>1. Status(j) = "pending" /\ job[j] \in JobRow
        BY <2>2, <3>2 DEF Status
      <4>2. job'[j] = [job[j] EXCEPT !.status = "running", !.attempts = @ + 1]
        BY <1>2, <3>2 DEF Claim
      <4>3. job'[j].status = "running"
        BY <4>1, <4>2 DEF JobRow
      <4> QED BY <4>1, <4>3 DEF Status
    <3> QED BY <3>1, <3>2 DEF Status
  <2>4. \A v \in Workers, j \in JobIds : task'[v][j] = "record" <=> task[v][j] = "record"
    BY <1>2, <2>2 DEF Claim, FirstDuty
  <2> QED BY <2>1, <2>3, <2>4, AccountsStay
<1> QED BY <1>1, <1>2

\* The end of a job: only fail_job makes a row failed, and no step undoes that.
LEMMA JobStepAccounts ==
  ASSUME QInv, AInv, NEW w \in Workers, NEW i \in JobIds,
         Return(w, i) \/ Raise(w, i) \/ FinishJob(w, i) \/ FailJob(w, i)
  PROVE  AInv'
<1> USE DEF QInv, TypeOK
<1>1. CASE Return(w, i) \/ Raise(w, i)
  <2>1. UNCHANGED job /\ UNCHANGED accounts
    BY <1>1 DEF Return, Raise, rowvars, history, accounts
  <2>2. \A v \in Workers, j \in JobIds : task'[v][j] = "record" <=> task[v][j] = "record"
    BY <1>1 DEF Return, Raise, Duty
  <2> QED BY <2>1, <2>2, AccountsStay DEF Status
<1>2. CASE FinishJob(w, i) \/ FailJob(w, i)
  <2>1. UNCHANGED accounts
    BY <1>2 DEF FinishJob, FailJob, history, accounts
  <2>2. Status(i) = "running" /\ task[w][i] # "record"
    BY <1>2 DEF FinishJob, FailJob, Core, OneWorker
  <2>3. \A j \in JobIds \ {i} : Status(j)' = Status(j)
    BY <1>2 DEF FinishJob, FailJob, SetStatus, Status
  <2>4. \A v \in Workers, j \in JobIds :
          v # w \/ j # i => task'[v][j] = task[v][j]
    BY <1>2 DEF FinishJob, FailJob, Duty
  <2>5. Status(i)' = "failed" => task'[w][i] = "record"
    BY <1>2, <2>2, QueueAssumption DEF FinishJob, FailJob, SetStatus, Duty, Status, JobRow
  <2>6. \A j \in JobIds : Status(j) = "failed" => Status(j)' = "failed"
    BY <2>2, <2>3
  <2>7. \A j \in JobIds : Status(j)' = "failed" =>
          Status(j) = "failed" \/ \E v \in Workers : task'[v][j] = "record"
    BY <2>3, <2>5
  <2>8. \A v \in Workers, j \in JobIds :
          /\ task[v][j] = "record" => task'[v][j] = "record"
          /\ task'[v][j] = "record" => task[v][j] = "record" \/ Status(j) # "failed"
    BY <2>2, <2>4
  <2> QED BY <2>1, <2>6, <2>7, <2>8, AccountsStay
<1> QED BY <1>1, <1>2

\* record_failed_job: the failure is recorded by the one worker that met it.
LEMMA RecordAccounts ==
  ASSUME QInv, AInv, NEW w \in Workers, NEW i \in JobIds, RecordFailedJob(w, i)
  PROVE  AInv'
<1> USE DEF QInv, TypeOK
<1>1. /\ UNCHANGED <<job, retry, crashes, requeued>>
      /\ listed'[i] = "listed" /\ recorded'[i] = recorded[i] + 1
      /\ \A j \in JobIds \ {i} : listed'[j] = listed[j] /\ recorded'[j] = recorded[j]
  BY DEF RecordFailedJob
<1>2. recorded[i] = 0 /\ Status(i) = "failed"
  BY DEF RecordFailedJob, AInv, FirstRecord, Core, OneWorker
<1>3. /\ task'[w][i] = "none"
      /\ \A v \in Workers, j \in JobIds : v # w \/ j # i => task'[v][j] = task[v][j]
  BY DEF RecordFailedJob, Duty
<1>4. \A v \in Workers : v # w => task[v][i] = "none"
  BY DEF RecordFailedJob, Core, OneWorker, Hands
<1>5. \A j \in JobIds : Status(j)' = Status(j)
  BY <1>1 DEF Status
<1>6. FailureAccounted'
  <2>1. recorded'[i] = 1
    BY <1>1, <1>2
  <2> QED BY <1>1, <1>2, <1>3, <1>5, <2>1 DEF AInv, FailureAccounted
<1>7. FirstRecord'
  BY <1>1, <1>3, <1>4 DEF AInv, FirstRecord
<1>8. EnqueuedFirst'
  BY <1>1 DEF AInv, EnqueuedFirst
<1> QED BY <1>6, <1>7, <1>8 DEF AInv

\* A dead worker records nothing, and is counted.
LEMMA CrashAccounts ==
  ASSUME QInv, AInv, NEW w \in Workers, Crash(w)
  PROVE  AInv'
<1> USE DEF QInv, TypeOK
<1>1. UNCHANGED <<job, listed, retry, recorded, requeued>> /\ crashes' > 0
  BY QueueAssumption DEF Crash, rowvars, history
<1>2. \A v \in Workers, j \in JobIds : task'[v][j] = "record" => task[v][j] = "record"
  BY DEF Crash
<1>3. FailureAccounted'
  BY <1>1 DEF AInv, FailureAccounted, Status
<1>4. FirstRecord' /\ EnqueuedFirst'
  BY <1>1, <1>2 DEF AInv, FirstRecord, EnqueuedFirst
<1> QED BY <1>3, <1>4 DEF AInv

\* retry_job and delete_job: the entry goes when the job is in the queue again.
LEMMA AdministrationAccounts ==
  ASSUME QInv, AInv, Administration
  PROVE  AInv'
<1> USE DEF QInv, TypeOK
<1>1. ASSUME NEW a \in Admins, RetryEnqueue(a)
      PROVE  AInv'
  <2>1. retry[a] \in RetryRequest
    BY <1>1 DEF RetryEnqueue, Idle
  <2>2. retry[a].of \in JobIds
    BY <2>1 DEF RetryRequest
  <2>3. \A j \in JobIds : Status(j) = "failed" <=> Status(j)' = "failed"
    BY <1>1, EnqueueStatus DEF RetryEnqueue
  <2>4. UNCHANGED <<listed, recorded, task, crashes>>
    BY <1>1 DEF RetryEnqueue, workvars
  <2>5. /\ requeued'[retry[a].of] = requeued[retry[a].of] + 1
        /\ \A j \in JobIds \ {retry[a].of} : requeued'[j] = requeued[j]
        /\ retry'[a].of = retry[a].of
        /\ \A b \in Admins \ {a} : retry'[b] = retry[b]
    BY <1>1, <2>1, <2>2 DEF RetryEnqueue, RetryRequest
  <2>6. \A j \in JobIds : requeued'[j] \in Nat /\ requeued'[j] >= requeued[j]
    BY <2>2, <2>5
  <2>7. FailureAccounted'
    BY <2>3, <2>4, <2>6 DEF AInv, FailureAccounted
  <2>8. FirstRecord'
    BY <2>4 DEF AInv, FirstRecord
  <2>9. ASSUME NEW b \in Admins, retry'[b].step = "delete"
        PROVE  requeued'[retry'[b].of] > 0
    <3>1. CASE b = a
      BY <2>2, <2>5, <3>1
    <3>2. CASE b # a
      <4>1. retry[b] \in RetryRequest /\ retry'[b] = retry[b]
        BY <2>5, <2>9, <3>2 DEF Idle
      <4>2. retry[b].of \in JobIds
        BY <4>1 DEF RetryRequest
      <4>3. requeued[retry[b].of] > 0
        BY <2>9, <4>1 DEF AInv, EnqueuedFirst
      <4> QED BY <2>6, <4>1, <4>2, <4>3
    <3> QED BY <3>1, <3>2
  <2> QED BY <2>7, <2>8, <2>9 DEF AInv, EnqueuedFirst
<1>2. ASSUME NEW a \in Admins, RetryDelete(a)
      PROVE  AInv'
  <2>1. retry[a] \in RetryRequest
    BY <1>2 DEF RetryDelete, Idle
  <2>2. retry[a].of \in JobIds /\ requeued[retry[a].of] > 0
    BY <1>2, <2>1 DEF RetryDelete, RetryRequest, AInv, EnqueuedFirst
  <2>3. UNCHANGED <<job, task, crashes, recorded, requeued>>
    BY <1>2 DEF RetryDelete, workvars, history
  <2>4. \A j \in JobIds :
          /\ listed'[j] # "none" <=> listed[j] # "none"
          /\ listed'[j] = "retried" => listed[j] = "retried" \/ j = retry[a].of
    BY <1>2, <2>2 DEF RetryDelete
  <2>5. FailureAccounted'
    BY <2>2, <2>3, <2>4 DEF AInv, FailureAccounted, Status
  <2>6. FirstRecord' /\ EnqueuedFirst'
    BY <1>2, <2>3 DEF RetryDelete, AInv, FirstRecord, EnqueuedFirst, Idle
  <2> QED BY <2>5, <2>6 DEF AInv
<1>3. ASSUME NEW a \in Admins, RetryAbort(a) \/ \E j \in JobIds : RetryJob(a, j)
      PROVE  AInv'
  <2>1. UNCHANGED <<job, listed, task, crashes, recorded, requeued>>
    BY <1>3 DEF RetryAbort, RetryJob, rowvars, workvars, history
  <2>2. FailureAccounted' /\ FirstRecord'
    BY <2>1 DEF AInv, FailureAccounted, FirstRecord, Status
  <2>3. EnqueuedFirst'
    BY <1>3, <2>1 DEF RetryAbort, RetryJob, AInv, EnqueuedFirst, Idle
  <2> QED BY <2>2, <2>3 DEF AInv
<1>4. ASSUME NEW i \in JobIds, DeleteJob(i)
      PROVE  AInv'
  <2>1. UNCHANGED <<job, retry, task, crashes, recorded, requeued>>
    BY <1>4 DEF DeleteJob, workvars, history
  <2>2. \A j \in JobIds :
          /\ listed'[j] # "none" <=> listed[j] # "none"
          /\ listed'[j] = "retried" => listed[j] = "retried"
    BY <1>4 DEF DeleteJob
  <2>3. FailureAccounted'
    BY <2>1, <2>2 DEF AInv, FailureAccounted, Status
  <2>4. FirstRecord' /\ EnqueuedFirst'
    BY <2>1 DEF AInv, FirstRecord, EnqueuedFirst
  <2> QED BY <2>3, <2>4 DEF AInv
<1> QED BY <1>1, <1>2, <1>3, <1>4 DEF Administration

\* Every step keeps the accounts.
LEMMA NextAInv == QInv /\ AInv /\ [Next]_vars => AInv'
<1> SUFFICES ASSUME QInv, AInv, [Next]_vars PROVE AInv'
  OBVIOUS
<1>1. ASSUME NEW c \in Calls, NEW k \in Keys \cup {None}, EnqueueJob(c, k)
      PROVE  AInv'
  <2>1. UNCHANGED accounts /\ UNCHANGED task
    BY <1>1 DEF EnqueueJob, workvars, history, accounts
  <2>2. \A j \in JobIds : Status(j) = "failed" <=> Status(j)' = "failed"
    BY <1>1, EnqueueStatus DEF EnqueueJob
  <2> QED BY <2>1, <2>2, AccountsStay
<1>2. ASSUME NEW w \in Workers, Worker(w)
      PROVE  AInv'
  BY <1>2, ClaimAccounts, JobStepAccounts, RecordAccounts, CrashAccounts DEF Worker, JobStep
<1>3. CASE Administration
  BY <1>3, AdministrationAccounts
<1>4. CASE Tick \/ UNCHANGED vars
  <2>1. UNCHANGED accounts /\ UNCHANGED <<job, task>>
    BY <1>4 DEF Tick, vars, rowvars, workvars, history, accounts
  <2> QED BY <2>1, AccountsStay DEF Status
<1> QED BY <1>1, <1>2, <1>3, <1>4 DEF Next

\* fail_job, record_failed_job and retry_job: a job that failed for good is
\* listed exactly once, unless a worker is about to do so or has died, and what
\* a retry takes off the list is in the queue again.
THEOREM FailuresAccounted == Spec => []FailureAccounted
<1>1. AInv => FailureAccounted
  BY DEF AInv
<1>2. Spec => []AInv
  BY InitAInv, NextAInv, Reachable, PTL DEF Spec
<1> QED BY <1>1, <1>2, PTL
=============================================================================
