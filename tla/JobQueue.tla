------------------------------ MODULE JobQueue ------------------------------
(***************************************************************************)
(* The PostgreSQL job queue (nexus-db, JobStore) and the worker engine     *)
(* that drains it (nexus-jobs, Phase0Worker).                              *)
(*                                                                         *)
(* A job is a row of `jobs`; a claim of it is identified by the value its  *)
(* `attempt` column got at that claim, so <<j, n>> names the n-th claim of *)
(* job j, the task the claiming worker spawned for it (process_job) and    *)
(* the row of `job_attempts` that task inserts.  Each SQL statement is one *)
(* action, because PostgreSQL makes it atomic; what a worker does between  *)
(* two statements interleaves with the other workers, with its own tasks   *)
(* and with the admin API.                                                 *)
(***************************************************************************)
EXTENDS Naturals, FiniteSets

CONSTANTS
  Jobs,              \* rows `jobs` can hold: one per (job_type, dedupe_scope, dedupe_key)
  Workers,           \* worker processes, each with its own worker_id
  NoWorker,          \* claimed_by IS NULL
  MaxAttempts,       \* the max_attempts column, fixed when the job is enqueued
  Priority,          \* the priority column
  ClaimBatch,        \* WorkerConfig.claim_batch
  MaxInflight,       \* WorkerConfig.max_inflight_jobs
  LeaseOutlivesTask, \* TRUE: no lease runs out while its task is alive
  ClaimBound,        \* bound of the model: claims of one job
  RetryBound,        \* bound of the model: admin retries of one job
  FaultBound         \* bound of the model: crashes, panics and failed statements

ASSUME JobsAssumption == IsFiniteSet(Jobs)
ASSUME NoWorkerAssumption == NoWorker \notin Workers
ASSUME ColumnAssumption == /\ MaxAttempts \in [Jobs -> Nat]
                           /\ Priority \in [Jobs -> Nat]
ASSUME ConfigAssumption == /\ ClaimBatch \in Nat
                           /\ MaxInflight \in Nat
                           /\ LeaseOutlivesTask \in BOOLEAN
ASSUME BoundAssumption == /\ ClaimBound \in Nat
                          /\ RetryBound \in Nat
                          /\ FaultBound \in Nat

Claims == 1..ClaimBound

Pending == {"queued", "scheduled", "failed_retryable"}
Settled == {"succeeded", "failed_terminal", "cancelled"}
JobState == {"absent", "running"} \cup Pending \cup Settled

Closed == {"succeeded", "failed", "cancelled"}
AttemptStatus == {"none", "running"} \cup Closed

\* What a task does next: start its attempt row, run the handler, or write
\* back the outcome it is named for.
Unstarted == {"row_conflict", "row_error"}
Returned == {"success", "retryable", "terminal", "cancelled"}
Live == {"claimed", "claimed_cancelled", "executing"} \cup Unstarted \cup Returned
TaskState == {"none", "ended"} \cup Live

LoopState == {"down", "idle", "claim", "requeue", "terminal", "stopping"}

VARIABLES
  state,             \* jobs.state; "absent" before the row exists
  due,               \* jobs.run_after <= now()
  claimed_by,        \* jobs.claimed_by
  lease_until,       \* jobs.lease_until: "none", "live" or, in the past, "expired"
  attempt,           \* jobs.attempt
  cancel_requested,  \* jobs.cancel_requested
  attempts,          \* job_attempts.status of the row each claim inserted
  task,              \* where the process_job task of each claim is
  runner,            \* the worker that claim's task runs in
  loop,              \* where each worker's main loop is
  retries,           \* history: how often an admin retried the job
  cancelAt,          \* history: the claim a standing cancel request was made in
  faults             \* faults so far

jobCols == <<state, due, claimed_by, lease_until, attempt, cancel_requested>>
jobVars == <<jobCols, attempts>>
taskVars == <<task, runner>>
ghosts == <<retries, cancelAt>>
vars == <<jobVars, taskVars, loop, ghosts, faults>>

TypeOK ==
  /\ state \in [Jobs -> JobState]
  /\ due \in [Jobs -> BOOLEAN]
  /\ claimed_by \in [Jobs -> Workers \cup {NoWorker}]
  /\ lease_until \in [Jobs -> {"none", "live", "expired"}]
  /\ attempt \in [Jobs -> 0..ClaimBound]
  /\ cancel_requested \in [Jobs -> BOOLEAN]
  /\ attempts \in [Jobs -> [Claims -> AttemptStatus]]
  /\ task \in [Jobs -> [Claims -> TaskState]]
  /\ runner \in [Jobs -> [Claims -> Workers \cup {NoWorker}]]
  /\ loop \in [Workers -> LoopState]
  /\ retries \in [Jobs -> 0..RetryBound]
  /\ cancelAt \in [Jobs -> 0..ClaimBound]
  /\ faults \in 0..FaultBound

Init ==
  /\ state = [j \in Jobs |-> "absent"]
  /\ due = [j \in Jobs |-> FALSE]
  /\ claimed_by = [j \in Jobs |-> NoWorker]
  /\ lease_until = [j \in Jobs |-> "none"]
  /\ attempt = [j \in Jobs |-> 0]
  /\ cancel_requested = [j \in Jobs |-> FALSE]
  /\ attempts = [j \in Jobs |-> [n \in Claims |-> "none"]]
  /\ task = [j \in Jobs |-> [n \in Claims |-> "none"]]
  /\ runner = [j \in Jobs |-> [n \in Claims |-> NoWorker]]
  /\ loop = [w \in Workers |-> "down"]
  /\ retries = [j \in Jobs |-> 0]
  /\ cancelAt = [j \in Jobs |-> 0]
  /\ faults = 0

-----------------------------------------------------------------------------
(* Parts of a statement on `jobs`. *)

\* Mutant of ClosedAs: every row closed as failed.
ClosedAsFailed(s) == IF s = "cancelled" THEN s ELSE "failed"

\* The status an attempt row is closed with when its job enters state s.
ClosedAs(s) == IF s \in {"succeeded", "cancelled"} THEN s ELSE "failed"

\* Mutants of AttemptTrigger: as migration 0026 had it, blind to a requeue; and
\* without the test that the row is still running.
AttemptTriggerOnOutcome(newState) ==
  [j \in Jobs |->
    IF newState[j] # state[j] /\ newState[j] \in Settled \cup {"failed_retryable"}
    THEN [n \in Claims |-> IF attempts[j][n] = "running"
                           THEN ClosedAs(newState[j]) ELSE attempts[j][n]]
    ELSE attempts[j]]
AttemptTriggerAllRows(newState) ==
  [j \in Jobs |->
    IF state[j] = "running" /\ newState[j] # "running"
    THEN [n \in Claims |-> IF attempts[j][n] # "none"
                           THEN ClosedAs(newState[j]) ELSE attempts[j][n]]
    ELSE attempts[j]]

\* jobs_finalize_running_attempts_trg: a job that leaves `running` closes
\* every attempt row of it that is still running.
AttemptTrigger(newState) ==
  [j \in Jobs |->
    IF state[j] = "running" /\ newState[j] # "running"
    THEN [n \in Claims |-> IF attempts[j][n] = "running"
                           THEN ClosedAs(newState[j]) ELSE attempts[j][n]]
    ELSE attempts[j]]

SetState(S, s) == state' = [j \in Jobs |-> IF j \in S THEN s ELSE state[j]]

\* Mutant of DropClaim: the lease is left behind.
DropHolderOnly(S) ==
  /\ claimed_by' = [j \in Jobs |-> IF j \in S THEN NoWorker ELSE claimed_by[j]]
  /\ UNCHANGED lease_until

DropClaim(S) ==
  /\ claimed_by' = [j \in Jobs |-> IF j \in S THEN NoWorker ELSE claimed_by[j]]
  /\ lease_until' = [j \in Jobs |-> IF j \in S THEN "none" ELSE lease_until[j]]

SetTask(j, n, p) == task' = [task EXCEPT ![j][n] = p]

\* The task of a claim is over and its slot in the worker is free again.
EndTask(j, n) ==
  /\ SetTask(j, n, "ended")
  /\ runner' = [runner EXCEPT ![j][n] = NoWorker]

Fault == /\ faults < FaultBound
         /\ faults' = faults + 1

-----------------------------------------------------------------------------
(* Producers and the admin API. *)

\* Mutant of Enqueue: ON CONFLICT puts the job back in the queue.
EnqueueRequeues(j) ==
  /\ state[j] # "running"
  /\ state' = [state EXCEPT ![j] = "queued"]
  /\ due' = [due EXCEPT ![j] = TRUE]
  /\ UNCHANGED <<claimed_by, lease_until, attempt, cancel_requested, attempts,
                 taskVars, loop, ghosts, faults>>

\* A dedupe key that is already there only has its updated_at touched,
\* whatever state the job it names is in: no step.
Enqueue(j) ==
  /\ state[j] = "absent"
  /\ \E s \in {"queued", "scheduled"}, d \in BOOLEAN :
       /\ (s = "scheduled") => ~d
       /\ state' = [state EXCEPT ![j] = s]
       /\ due' = [due EXCEPT ![j] = d]
  /\ UNCHANGED <<claimed_by, lease_until, attempt, cancel_requested, attempts,
                 taskVars, loop, ghosts, faults>>

RequestCancel(j) ==
  /\ state[j] # "absent"
  /\ state' = [state EXCEPT ![j] = IF @ \in Pending THEN "cancelled" ELSE @]
  /\ cancel_requested' = [cancel_requested EXCEPT ![j] = @ \/ state[j] = "running"]
  /\ cancelAt' = [cancelAt EXCEPT ![j] =
                    IF state[j] = "running" /\ ~cancel_requested[j] THEN attempt[j] ELSE @]
  /\ attempts' = AttemptTrigger(state')
  /\ UNCHANGED <<due, claimed_by, lease_until, attempt, taskVars, loop, retries, faults>>

\* The admin retry: any job that is not running goes back to the queue.
\* attempt is not reset.
Retry(j) ==
  /\ state[j] \notin {"absent", "running"}
  /\ retries[j] < RetryBound
  /\ retries' = [retries EXCEPT ![j] = @ + 1]
  /\ \E d \in BOOLEAN :
       /\ due' = [due EXCEPT ![j] = d]
       /\ SetState({j}, IF d THEN "queued" ELSE "scheduled")
  /\ DropClaim({j})
  /\ cancel_requested' = [cancel_requested EXCEPT ![j] = FALSE]
  /\ cancelAt' = [cancelAt EXCEPT ![j] = 0]
  /\ attempts' = AttemptTrigger(state')
  /\ UNCHANGED <<attempt, taskVars, loop, faults>>

-----------------------------------------------------------------------------
(* The clock. *)

RunAfterArrives(j) ==
  /\ state[j] \in Pending /\ ~due[j]
  /\ due' = [due EXCEPT ![j] = TRUE]
  /\ UNCHANGED <<state, claimed_by, lease_until, attempt, cancel_requested, attempts,
                 taskVars, loop, ghosts, faults>>

\* The task of the job's current claim is alive.
Held(j) == attempt[j] \in Claims /\ task[j][attempt[j]] \in Live

LeaseExpires(j) ==
  /\ lease_until[j] = "live"
  /\ LeaseOutlivesTask => ~Held(j)
  /\ lease_until' = [lease_until EXCEPT ![j] = "expired"]
  /\ UNCHANGED <<state, due, claimed_by, attempt, cancel_requested, attempts,
                 taskVars, loop, ghosts, faults>>

-----------------------------------------------------------------------------
(* The worker's main loop: drain_once and run_maintenance. *)

LoopStep(w, from, to) ==
  /\ loop[w] = from
  /\ loop' = [loop EXCEPT ![w] = to]

\* Mutant of Promote: failed_retryable is forgotten.
PromoteScheduled ==
  /\ SetState({j \in Jobs : state[j] = "scheduled" /\ due[j]}, "queued")
  /\ attempts' = AttemptTrigger(state')
  /\ UNCHANGED <<due, claimed_by, lease_until, attempt, cancel_requested>>

\* promote_ready_jobs, the first statement of both.
Promote ==
  /\ SetState({j \in Jobs : state[j] \in {"scheduled", "failed_retryable"} /\ due[j]}, "queued")
  /\ attempts' = AttemptTrigger(state')
  /\ UNCHANGED <<due, claimed_by, lease_until, attempt, cancel_requested>>

\* inflight_count: the tasks the worker has not joined yet.
Inflight(w) == Cardinality({c \in Jobs \X Claims : /\ runner[c[1]][c[2]] = w
                                                   /\ task[c[1]][c[2]] \in Live})

BeginDrain(w) ==
  /\ LoopStep(w, "idle", IF Inflight(w) < MaxInflight THEN "claim" ELSE "idle")
  /\ Promote
  /\ UNCHANGED <<taskVars, ghosts, faults>>

Smaller(a, b) == IF a <= b THEN a ELSE b

Claimable == {j \in Jobs : state[j] = "queued" /\ due[j] /\ attempt[j] < ClaimBound}

\* Mutant of ClaimLimit: the batch size alone.
ClaimBatchOnly(w) == IF ClaimBatch = 0 THEN 1 ELSE ClaimBatch

ClaimLimit(w) == Smaller(IF ClaimBatch = 0 THEN 1 ELSE ClaimBatch, MaxInflight - Inflight(w))

\* The rows claim_jobs picks: the first `limit` claimable ones by priority.
Picks(limit) ==
  {S \in SUBSET Claimable :
     /\ Cardinality(S) = Smaller(limit, Cardinality(Claimable))
     /\ \A j \in S, k \in Claimable \ S : Priority[j] >= Priority[k]}

\* claim_jobs, and a task for every row it returned.
ClaimJobs(w) ==
  /\ LoopStep(w, "claim", "idle")
  /\ \E S \in Picks(ClaimLimit(w)) :
       /\ SetState(S, "running")
       /\ claimed_by' = [j \in Jobs |-> IF j \in S THEN w ELSE claimed_by[j]]
       /\ lease_until' = [j \in Jobs |-> IF j \in S THEN "live" ELSE lease_until[j]]
       /\ attempt' = [j \in Jobs |-> IF j \in S THEN attempt[j] + 1 ELSE attempt[j]]
       /\ task' = [j \in Jobs |-> [n \in Claims |->
            IF j \in S /\ n = attempt[j] + 1
            THEN IF cancel_requested[j] THEN "claimed_cancelled" ELSE "claimed"
            ELSE task[j][n]]]
       /\ runner' = [j \in Jobs |-> [n \in Claims |->
            IF j \in S /\ n = attempt[j] + 1 THEN w ELSE runner[j][n]]]
  /\ UNCHANGED <<due, cancel_requested, attempts, ghosts, faults>>

\* A maintenance sweep, at start-up and at every sweep tick.
BeginMaintenance(w) ==
  /\ loop[w] \in {"down", "idle"}
  /\ loop' = [loop EXCEPT ![w] = "requeue"]
  /\ Promote
  /\ UNCHANGED <<taskVars, ghosts, faults>>

\* Mutant of Stuck: the lease is not looked at.
StuckWhateverLease == {j \in Jobs : state[j] = "running"}

Stuck == {j \in Jobs : state[j] = "running" /\ lease_until[j] = "expired"}

\* The first statement of requeue_stuck_jobs.
SweepRequeue(w) ==
  /\ LoopStep(w, "requeue", "terminal")
  /\ LET S == {j \in Stuck : attempt[j] < MaxAttempts[j]} IN
       SetState(S, "queued") /\ DropClaim(S)
  /\ attempts' = AttemptTrigger(state')
  /\ UNCHANGED <<due, attempt, cancel_requested, taskVars, ghosts, faults>>

\* Its second statement.
SweepTerminal(w) ==
  /\ LoopStep(w, "terminal", "idle")
  /\ LET S == {j \in Stuck : attempt[j] >= MaxAttempts[j]} IN
       SetState(S, "failed_terminal") /\ DropClaim(S)
  /\ attempts' = AttemptTrigger(state')
  /\ UNCHANGED <<due, attempt, cancel_requested, taskVars, ghosts, faults>>

\* ctrl_c leaves the loop; the tasks in flight are awaited.
Shutdown(w) ==
  /\ LoopStep(w, "idle", "stopping")
  /\ UNCHANGED <<jobVars, taskVars, ghosts, faults>>

Stopped(w) ==
  /\ LoopStep(w, "stopping", "down")
  /\ Inflight(w) = 0
  /\ UNCHANGED <<jobVars, taskVars, ghosts, faults>>

\* The process dies, or a failed statement of the loop ends run() and drops
\* the tasks: nothing is written back.
Crash(w) ==
  /\ Fault
  /\ loop[w] # "down"
  /\ loop' = [loop EXCEPT ![w] = "down"]
  /\ task' = [j \in Jobs |-> [n \in Claims |->
                IF runner[j][n] = w THEN "ended" ELSE task[j][n]]]
  /\ runner' = [j \in Jobs |-> [n \in Claims |->
                IF runner[j][n] = w THEN NoWorker ELSE runner[j][n]]]
  /\ UNCHANGED <<jobVars, ghosts>>

-----------------------------------------------------------------------------
(* process_job, the task of one claim. *)

HasRunningRow(j) == \E m \in Claims : attempts[j][m] = "running"

\* Mutant of AfterStart: the cancel request seen at the claim is ignored.
AfterStartExecute(p) == "executing"

\* With its row in place the task runs the handler, unless the claimed row
\* already asked for a cancel.
AfterStart(p) == IF p = "claimed" THEN "executing" ELSE "cancelled"

\* start_attempt inserts a running row whatever the job's state is by now;
\* idx_job_attempts_one_running_per_job refuses a second one.
StartAttempt(j, n) ==
  /\ task[j][n] \in {"claimed", "claimed_cancelled"}
  /\ \/ /\ ~HasRunningRow(j)
        /\ attempts' = [attempts EXCEPT ![j][n] = "running"]
        /\ SetTask(j, n, AfterStart(task[j][n]))
        /\ UNCHANGED faults
     \/ /\ HasRunningRow(j)
        /\ SetTask(j, n, "row_conflict")
        /\ UNCHANGED <<attempts, faults>>
     \/ /\ Fault
        /\ SetTask(j, n, "row_error")
        /\ UNCHANGED attempts
  /\ UNCHANGED <<jobCols, runner, loop, ghosts>>

\* A beat is fenced by the worker's id, not by the claim: it renews whatever
\* claim of the job this worker holds now.
Heartbeat(j, n) ==
  /\ task[j][n] = "executing"
  /\ state[j] = "running"
  /\ claimed_by[j] = runner[j][n]
  /\ lease_until' = [lease_until EXCEPT ![j] = "live"]
  /\ UNCHANGED <<state, due, claimed_by, attempt, cancel_requested, attempts,
                 taskVars, loop, ghosts, faults>>

\* The handler returns; it answers Cancelled only after is_cancel_requested
\* read true.
HandlerReturns(j, n) ==
  /\ task[j][n] = "executing"
  /\ \E o \in Returned : /\ (o = "cancelled") => cancel_requested[j]
                         /\ SetTask(j, n, o)
  /\ UNCHANGED <<jobVars, runner, loop, ghosts, faults>>

\* The state an outcome puts the job of claim n in.
OutcomeState(j, n, o) ==
  CASE o = "success"                          -> "succeeded"
    [] o = "cancelled"                        -> "cancelled"
    [] o \in {"terminal", "row_conflict"}     -> "failed_terminal"
    [] o \in {"retryable", "row_error"}       ->
         IF n >= MaxAttempts[j] THEN "failed_terminal" ELSE "failed_retryable"

\* The jobs half of the finalize_* and mark_* statements: WHERE id = $1, with
\* no test of the job's state, its holder or its attempt.
WriteOutcome(j, s) ==
  /\ SetState({j}, s)
  /\ DropClaim({j})
  /\ due' = [due EXCEPT ![j] = @ /\ s # "failed_retryable"]
  /\ cancel_requested' = [cancel_requested EXCEPT ![j] = @ /\ s # "succeeded"]
  /\ cancelAt' = [cancelAt EXCEPT ![j] = IF s = "succeeded" THEN 0 ELSE @]
  /\ UNCHANGED <<attempt, retries>>

\* finalize_job, for a task that has an attempt row.
FinalizeAttempt(j, n) ==
  /\ task[j][n] \in Returned
  /\ LET s == OutcomeState(j, n, task[j][n]) IN
       /\ WriteOutcome(j, s)
       /\ attempts' = [AttemptTrigger(state') EXCEPT ![j][n] = ClosedAs(s)]
  /\ EndTask(j, n)
  /\ UNCHANGED <<loop, faults>>

\* finalize_job_without_attempt, after start_attempt failed.
FinalizeWithoutAttempt(j, n) ==
  /\ task[j][n] \in Unstarted
  /\ WriteOutcome(j, OutcomeState(j, n, task[j][n]))
  /\ attempts' = AttemptTrigger(state')
  /\ EndTask(j, n)
  /\ UNCHANGED <<loop, faults>>

\* The outcome is lost: the final statement fails and is only logged, or the
\* handler panics.
TaskLost(j, n) ==
  /\ Fault
  /\ task[j][n] \in {"executing"} \cup Unstarted \cup Returned
  /\ EndTask(j, n)
  /\ UNCHANGED <<jobVars, loop, ghosts>>

-----------------------------------------------------------------------------

AdminStep(j) == Enqueue(j) \/ RequestCancel(j) \/ Retry(j)

ClockStep(j) == RunAfterArrives(j) \/ LeaseExpires(j)

LoopNext(w) ==
  \/ BeginDrain(w) \/ ClaimJobs(w)
  \/ BeginMaintenance(w) \/ SweepRequeue(w) \/ SweepTerminal(w)
  \/ Shutdown(w) \/ Stopped(w) \/ Crash(w)

TaskNext(j, n) ==
  \/ StartAttempt(j, n) \/ Heartbeat(j, n) \/ HandlerReturns(j, n)
  \/ FinalizeAttempt(j, n) \/ FinalizeWithoutAttempt(j, n) \/ TaskLost(j, n)

Next ==
  \/ \E j \in Jobs : AdminStep(j) \/ ClockStep(j)
  \/ \E w \in Workers : LoopNext(w)
  \/ \E j \in Jobs, n \in Claims : TaskNext(j, n)

Spec == Init /\ [][Next]_vars

\* Time passes; a worker that is down is started again and its ticks keep
\* firing; handlers return.  Nobody has to enqueue, cancel, retry or fail.
Fairness ==
  /\ \A j \in Jobs : WF_vars(RunAfterArrives(j)) /\ WF_vars(~Held(j) /\ LeaseExpires(j))
  /\ \A w \in Workers :
       /\ SF_vars(BeginDrain(w)) /\ SF_vars(BeginMaintenance(w))
       /\ WF_vars(ClaimJobs(w)) /\ WF_vars(SweepRequeue(w)) /\ WF_vars(SweepTerminal(w))
       /\ WF_vars(Stopped(w))
  /\ \A j \in Jobs, n \in Claims :
       /\ WF_vars(StartAttempt(j, n)) /\ WF_vars(HandlerReturns(j, n))
       /\ WF_vars(FinalizeAttempt(j, n)) /\ WF_vars(FinalizeWithoutAttempt(j, n))

FairSpec == Spec /\ Fairness

-----------------------------------------------------------------------------
(* What holds whatever the leases do. *)

\* A job is running exactly when some worker holds it and it has a lease, so
\* that the sweep can find every running row and no other (jobs.rs, the WHERE
\* clauses of requeue_stuck_jobs and heartbeat).
LeaseMatchesState ==
  \A j \in Jobs : /\ (state[j] = "running") <=> (claimed_by[j] # NoWorker)
                  /\ (state[j] = "running") <=> (lease_until[j] # "none")

\* A job that reads succeeded has an attempt that succeeded: no sweep, trigger
\* or finalization of another claim makes a success out of a failure.
SucceededHasWitness ==
  \A j \in Jobs : state[j] = "succeeded" => \E n \in Claims : attempts[j][n] = "succeeded"

\* A cancel request survives requeues, lease expiry and retries after a
\* failure: no claim taken after the one it was made in runs the handler,
\* until an admin retries the job or it succeeds.
CancelHonoured ==
  \A j \in Jobs : cancelAt[j] # 0 =>
    \A n \in Claims : n > cancelAt[j] => task[j][n] # "executing"

\* Until an outcome is lost, a worker marks no more jobs running than it has
\* slots for, whatever the batch size and however drains, sweeps, admin
\* requests and its own tasks interleave.
RunningWithinSlots ==
  faults = 0 => \A w \in Workers :
    Cardinality({j \in Jobs : state[j] = "running" /\ claimed_by[j] = w}) <= MaxInflight

\* No settled job has an attempt row that still reads running.
SettledHasNoRunningAttempt ==
  \A j \in Jobs : state[j] \in Settled => ~HasRunningRow(j)

-----------------------------------------------------------------------------
(* What holds while no lease runs out under a live task. *)

\* At most one task of a job is alive, over all workers and claims.
ExclusiveExecution ==
  \A j \in Jobs : \A m, n \in Claims :
    task[j][m] \in Live /\ task[j][n] \in Live => m = n

\* Only the current claim of a running job has a running attempt row: no job
\* is settled or queued while job_attempts still shows it running.
NoGhostAttempt ==
  \A j \in Jobs : \A n \in Claims :
    attempts[j][n] = "running" => state[j] = "running" /\ attempt[j] = n

\* A settled job is settled for good, unless an admin retries it: no late
\* worker, sweep or producer with the same dedupe key changes its outcome.
SettledOnlyReopenedByRetry ==
  [][\A j \in Jobs : state[j] \in Settled =>
       state'[j] = state[j] \/ retries'[j] = retries[j] + 1]_vars

\* What job_attempts says of a finished attempt is never rewritten.
ClosedAttemptIsFinal ==
  [][\A j \in Jobs, n \in Claims :
       attempts[j][n] \in Closed => attempts'[j][n] = attempts[j][n]]_vars

\* Every job in the queue is settled in the end, across retries, crashes and
\* lost outcomes.
EveryJobSettles ==
  \A j \in Jobs : state[j] \in Pending \cup {"running"} ~> state[j] \in Settled

-----------------------------------------------------------------------------
(* The queue as its clients see it. *)

\* The status JobContract gives a job: where the task of its current claim is
\* tells apart the phases of `running`.
ContractStatus(j) ==
  CASE state[j] \in Pending -> "waiting"
    [] state[j] = "running" ->
         CASE task[j][attempt[j]] \in {"claimed", "claimed_cancelled"} -> "taken"
           [] task[j][attempt[j]] = "executing" -> "executing"
           [] OTHER -> "finished"
    [] OTHER -> state[j]

Contract == INSTANCE JobContract WITH status <- [j \in Jobs |-> ContractStatus(j)]

\* The queue keeps the contract of JobContract as long as no lease runs out
\* under a live task: one execution per taking, none of a job that is queued
\* or settled, and no change of a settled job but a readmission.
ImplementsContract == Contract!Spec
=============================================================================
