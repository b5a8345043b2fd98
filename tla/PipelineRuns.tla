---------------------------- MODULE PipelineRuns ----------------------------
(***************************************************************************)
(* Pipeline runs: how the admin API opens them, how a run is driven        *)
(* through its stages by one job per stage, how a finished run starts the  *)
(* next one, and how the maintenance sweep recovers what is left pending.  *)
(*                                                                         *)
(* The job of a stage is known by the status JobContract gives it, which   *)
(* JobQueue implements; here a job moves as that contract lets it and no   *)
(* lease runs out under a live task.  A step is one SQL statement.         *)
(***************************************************************************)
EXTENDS Naturals, FiniteSets

CONSTANTS
  ListCount,    \* mailing lists found under the mirror root, 1.. in list_key order
  Grokmirrors,  \* POST /admin/v1/ingest/grokmirror requests
  Syncs,        \* POST /admin/v1/ingest/sync requests, each for one list
  Workers,      \* worker processes, for their maintenance sweep
  Slots,        \* stage jobs in execution at once: max_inflight_jobs of all workers
  LastStage,    \* stages of a run: 1 is ingest, 2 threading, 3 lineage, 4 lexical
  MaxAttempts,  \* max_attempts of a stage job (8 in the code)
  RunBound,     \* bound of the model: runs ever created
  ErrorBound,   \* bound of the model: executions that end in an I/O error
  FaultBound,   \* bound of the model: failed statements and lost tasks
  CancelBound,  \* bound of the model: cancel requests on stage jobs
  TroubleBound  \* bound of the model: all three together

ASSUME LimitAssumption == ListCount \in Nat /\ Slots \in Nat /\ MaxAttempts \in Nat \ {0}
ASSUME StageAssumption == LastStage \in Nat /\ LastStage > 1
ASSUME BoundAssumption == /\ RunBound \in Nat /\ ErrorBound \in Nat
                          /\ FaultBound \in Nat /\ CancelBound \in Nat
                          /\ TroubleBound \in Nat

Lists == 1..ListCount
Runs == 1..RunBound
NoRun == 0
NoBatch == 0

Stages == 1..LastStage
Ingest == 1
Threading == 2
Lexical == LastStage
StageJobs == Runs \X Stages

Open == {"pending", "running"}
Closed == {"succeeded", "failed", "cancelled"}

Held == {"taken", "executing", "finished"}
Settled == {"succeeded", "failed_terminal", "cancelled"}

Requests == Grokmirrors \cup Syncs
\* Whoever may activate a run: a stage's task, an admin request, a sweep.
Actors == StageJobs \cup Requests \cup Workers

\* They are told apart.
ASSUME ActorsAssumption ==
  /\ Grokmirrors \cap Syncs = {} /\ Requests \cap Workers = {}
  /\ StageJobs \cap Requests = {} /\ StageJobs \cap Workers = {}

VARIABLES
  run,       \* pipeline_runs; batch_position is the list's place in Lists
  job,       \* the contract's status of each stage's job
  attempt,   \* jobs.attempt
  cancel,    \* jobs.cancel_requested
  at,        \* the next step of each stage job's task, "none" without a task
  outcome,   \* what the task's handler returned
  launch,    \* activate_and_enqueue_next_list in progress, by actor
  req,       \* the admin requests in progress
  batchSeq,  \* pipeline_batch_id sequence
  embedded,  \* runs a pipeline_embedding job was enqueued for
  worked,    \* history: the stages whose work was done in each run
  errors,    \* I/O errors so far
  faults,    \* faults so far
  cancels    \* cancel requests so far

jobVars == <<job, attempt, cancel>>
taskVars == <<at, outcome>>
history == <<embedded, worked>>
counters == <<errors, faults, cancels>>
vars == <<run, jobVars, taskVars, launch, req, batchSeq, history, counters>>

Step == {"load", "load_cancelled", "work", "window", "enqueue", "stage", "mark", "embed",
         "finish", "close", "close_mark"}
Outcome == {"success", "retryable", "terminal", "cancelled", "cancelled_early"}

NewRequest == [pc |-> "new", list |-> 0, batch |-> NoBatch, run |-> NoRun]
Answered == [NewRequest EXCEPT !.pc = "done"]

Idle == [mode |-> "none", batch |-> NoBatch, run |-> NoRun, failed |-> FALSE]
Launching(m, b) == [Idle EXCEPT !.mode = m, !.batch = b]

TypeOK ==
  /\ run \in [Runs -> [state : {"absent"} \cup Open \cup Closed, list : {0} \cup Lists,
                       batch : Nat, stage : Stages, window : BOOLEAN]]
  /\ job \in [StageJobs -> {"absent", "waiting"} \cup Held \cup Settled]
  /\ attempt \in [StageJobs -> 0..MaxAttempts]
  /\ cancel \in [StageJobs -> BOOLEAN]
  /\ at \in [StageJobs -> {"none"} \cup Step]
  /\ outcome \in [StageJobs -> {"none"} \cup Outcome]
  /\ launch \in [Actors -> [mode : {"none", "batch", "global"}, batch : Nat,
                            run : {NoRun} \cup Runs, failed : BOOLEAN]]
  /\ req \in [Requests -> [pc : {"new", "check", "create", "enqueue", "fail", "done"},
                           list : 0..ListCount + 1, batch : Nat, run : {NoRun} \cup Runs]]
  /\ batchSeq \in Nat
  /\ embedded \in SUBSET Runs
  /\ worked \in [Runs -> SUBSET Stages]
  /\ errors \in 0..ErrorBound
  /\ faults \in 0..FaultBound
  /\ cancels \in 0..CancelBound

Init ==
  /\ run = [r \in Runs |-> [state |-> "absent", list |-> 0, batch |-> NoBatch,
                            stage |-> Ingest, window |-> FALSE]]
  /\ job = [j \in StageJobs |-> "absent"]
  /\ attempt = [j \in StageJobs |-> 0]
  /\ cancel = [j \in StageJobs |-> FALSE]
  /\ at = [j \in StageJobs |-> "none"]
  /\ outcome = [j \in StageJobs |-> "none"]
  /\ launch = [a \in Actors |-> Idle]
  /\ req = [q \in Requests |-> NewRequest]
  /\ batchSeq = 0
  /\ embedded = {}
  /\ worked = [r \in Runs |-> {}]
  /\ errors = 0
  /\ faults = 0
  /\ cancels = 0

Calm == errors + faults + cancels < TroubleBound

Fault == /\ Calm /\ faults < FaultBound
         /\ faults' = faults + 1
         /\ UNCHANGED <<errors, cancels>>

-----------------------------------------------------------------------------
(* Statements of PipelineStore and JobStore. *)

\* mark_run_succeeded, _failed and _cancelled, and the activation of a run:
\* UPDATE pipeline_runs ... WHERE id, whatever the run's state is.
MarkRun(r, s) == run' = [run EXCEPT ![r].state = s]

\* get_open_run_for_list: idx_pipeline_runs_open_per_list leaves at most one.
OpenRuns(l) == {r \in Runs : run[r].list = l /\ run[r].state \in Open}

\* INSERT INTO pipeline_runs, which that index refuses for a list with an open
\* run; the caller is then given the open run instead.
InsertRun(l, b, s) ==
  LET ids == {r \in Runs : run[r].state # "absent"} IN
    /\ OpenRuns(l) = {}
    /\ ids # Runs
    /\ run' = [run EXCEPT ![Cardinality(ids) + 1] =
                 [@ EXCEPT !.state = s, !.list = l, !.batch = b]]
NewRun == Cardinality({r \in Runs : run[r].state # "absent"}) + 1

ActiveRun == \E r \in Runs : run[r].state = "running"

\* The order of activation: batch_id (NULLS LAST), batch_position, id.
Precedes(p, r) ==
  LET late(q) == run[q].batch = NoBatch IN
    \/ ~late(p) /\ late(r)
    \/ late(p) = late(r) /\
         \/ run[p].batch < run[r].batch
         \/ run[p].batch = run[r].batch /\
              \/ run[p].list < run[r].list
              \/ run[p].list = run[r].list /\ p < r

\* The pending runs activate_next_pending_run(batch) or _any may pick from.
Activatable(mode, b) ==
  {r \in Runs : /\ run[r].state = "pending"
                /\ mode = "batch" => run[r].batch = b
                /\ \A q \in Runs : run[q].list = run[r].list => run[q].state # "running"}

\* JobStore::enqueue under a dedupe key, which never touches a job that is there.
Enqueued(j) == [job EXCEPT ![j] = IF @ = "absent" THEN "waiting" ELSE @]

-----------------------------------------------------------------------------
(* Activating the next list: the loop of activate_and_enqueue_next_list and *)
(* of phase 2 of the grokmirror request, which has no global fallback.      *)

PickNext(a) ==
  LET picks == Activatable(launch[a].mode, launch[a].batch) IN
    /\ launch[a].mode # "none" /\ launch[a].run = NoRun
    /\ \/ \E r \in picks :
            /\ \A q \in picks \ {r} : Precedes(r, q)
            /\ MarkRun(r, "running")
            /\ launch' = [launch EXCEPT ![a].run = r]
       \/ /\ picks = {}
          /\ launch' = [launch EXCEPT ![a] =
                          IF @.mode = "batch" /\ a \notin Requests
                          THEN Launching("global", NoBatch) ELSE Idle]
          /\ UNCHANGED run
    /\ UNCHANGED <<jobVars, taskVars, req, batchSeq, history, counters>>

EnqueueIngest(a) ==
  LET j == <<launch[a].run, Ingest>> IN
    /\ launch[a].run # NoRun /\ ~launch[a].failed
    /\ job' = Enqueued(j)
    /\ launch' = [launch EXCEPT ![a] = Idle]
    /\ UNCHANGED <<run, attempt, cancel, taskVars, req, batchSeq, history, counters>>

EnqueueIngestFails(a) ==
  /\ Fault
  /\ launch[a].run # NoRun /\ ~launch[a].failed
  /\ launch' = [launch EXCEPT ![a].failed = TRUE]
  /\ UNCHANGED <<run, jobVars, taskVars, req, batchSeq, history>>

\* The activated run is marked failed and the next one is tried.
FailActivated(a) ==
  /\ launch[a].failed
  /\ MarkRun(launch[a].run, "failed")
  /\ launch' = [launch EXCEPT ![a] = [@ EXCEPT !.run = NoRun, !.failed = FALSE]]
  /\ UNCHANGED <<jobVars, taskVars, req, batchSeq, history, counters>>

\* The activation or the mark fails, or a sweep or a request dies.
LaunchLost(a) ==
  /\ Fault
  /\ launch[a] # Idle
  /\ a \in StageJobs => launch[a].run = NoRun \/ launch[a].failed
  /\ launch' = [launch EXCEPT ![a] = Idle]
  /\ UNCHANGED <<run, jobVars, taskVars, req, batchSeq, history>>

-----------------------------------------------------------------------------
(* POST /admin/v1/ingest/grokmirror. *)

GrokBegin(g) ==
  /\ req[g].pc = "new"
  /\ batchSeq' = batchSeq + 1
  /\ req' = [req EXCEPT ![g] = [@ EXCEPT !.pc = "check", !.list = 1, !.batch = batchSeq + 1]]
  /\ UNCHANGED <<run, jobVars, taskVars, launch, history, counters>>

\* On to the next candidate; pending is what pending_runs holds by now.
NextList(g, pending) ==
  req' = [req EXCEPT ![g] =
            [@ EXCEPT !.pc = "check", !.list = req[g].list + 1, !.run = pending]]

GrokCheck(g) ==
  /\ req[g].pc = "check" /\ req[g].list \in Lists
  /\ IF OpenRuns(req[g].list) # {}
     THEN NextList(g, req[g].run)
     ELSE req' = [req EXCEPT ![g].pc = "create"]
  /\ UNCHANGED <<run, jobVars, taskVars, launch, batchSeq, history, counters>>

\* create_pending_run returns the open run when another request was faster.
GrokCreate(g) ==
  /\ req[g].pc = "create"
  /\ \/ /\ InsertRun(req[g].list, req[g].batch, "pending")
        /\ NextList(g, NewRun)
     \/ /\ \E r \in OpenRuns(req[g].list) : NextList(g, r)
        /\ UNCHANGED run
  /\ UNCHANGED <<jobVars, taskVars, launch, batchSeq, history, counters>>

\* A list whose catalog entries or run fail is reported and passed over.
GrokSkip(g) ==
  /\ Fault
  /\ req[g].pc \in {"check", "create"} /\ req[g].list \in Lists
  /\ NextList(g, req[g].run)
  /\ UNCHANGED <<run, jobVars, taskVars, launch, batchSeq, history>>

\* Phase 2: only if it queued a run and none is active.
GrokLaunch(g) ==
  /\ req[g].pc = "check" /\ req[g].list \notin Lists
  /\ req' = [req EXCEPT ![g] = Answered]
  /\ launch' = IF req[g].run # NoRun /\ ~ActiveRun
               THEN [launch EXCEPT ![g] = Launching("batch", req[g].batch)]
               ELSE launch
  /\ UNCHANGED <<run, jobVars, taskVars, batchSeq, history, counters>>

-----------------------------------------------------------------------------
(* POST /admin/v1/ingest/sync. *)

\* A list with an open run is refused with 409.
SyncCheck(q) ==
  /\ req[q].pc = "new"
  /\ \E l \in Lists :
       req' = [req EXCEPT ![q] =
                 IF OpenRuns(l) = {} THEN [@ EXCEPT !.pc = "create", !.list = l] ELSE Answered]
  /\ UNCHANGED <<run, jobVars, taskVars, launch, batchSeq, history, counters>>

\* create_running_run returns the list's open run, even a pending one, when a
\* grokmirror request or another sync was faster.
SyncCreate(q) ==
  /\ req[q].pc = "create"
  /\ \E r \in Runs :
       /\ req' = [req EXCEPT ![q] = [@ EXCEPT !.pc = "enqueue", !.run = r]]
       /\ \/ InsertRun(req[q].list, NoBatch, "running") /\ r = NewRun
          \/ r \in OpenRuns(req[q].list) /\ UNCHANGED run
  /\ UNCHANGED <<jobVars, taskVars, launch, batchSeq, history, counters>>

SyncEnqueue(q) ==
  /\ req[q].pc = "enqueue"
  /\ job' = Enqueued(<<req[q].run, Ingest>>)
  /\ req' = [req EXCEPT ![q] = Answered]
  /\ UNCHANGED <<run, attempt, cancel, taskVars, launch, batchSeq, history, counters>>

SyncEnqueueFails(q) ==
  /\ Fault
  /\ req[q].pc = "enqueue"
  /\ req' = [req EXCEPT ![q].pc = "fail"]
  /\ UNCHANGED <<run, jobVars, taskVars, launch, batchSeq, history>>

SyncFail(q) ==
  /\ req[q].pc = "fail"
  /\ MarkRun(req[q].run, "failed")
  /\ req' = [req EXCEPT ![q] = Answered]
  /\ UNCHANGED <<jobVars, taskVars, launch, batchSeq, history, counters>>

\* The mark fails as well, or the API process dies.
SyncLost(q) ==
  /\ Fault
  /\ req[q].pc \in {"enqueue", "fail"}
  /\ req' = [req EXCEPT ![q] = Answered]
  /\ UNCHANGED <<run, jobVars, taskVars, launch, batchSeq, history>>

-----------------------------------------------------------------------------
(* The queue: what happens to a stage job outside its handler. *)

Busy(j) == at[j] # "none" \/ launch[j] # Idle

ClaimStage(j) ==
  /\ job[j] = "waiting" /\ ~Busy(j)
  /\ Cardinality({k \in StageJobs : Busy(k)}) < Slots
  /\ job' = [job EXCEPT ![j] = "taken"]
  /\ attempt' = [attempt EXCEPT ![j] = @ + 1]
  /\ at' = [at EXCEPT ![j] = IF cancel[j] THEN "load_cancelled" ELSE "load"]
  /\ UNCHANGED <<run, cancel, outcome, launch, req, batchSeq, history, counters>>

\* The admin's cancel: a queued job is cancelled at once, and nobody tells its run.
RequestCancel(j) ==
  /\ Calm /\ cancels < CancelBound
  /\ cancels' = cancels + 1
  /\ \/ job[j] = "waiting" /\ job' = [job EXCEPT ![j] = "cancelled"] /\ UNCHANGED cancel
     \/ job[j] \in Held /\ cancel' = [cancel EXCEPT ![j] = TRUE] /\ UNCHANGED job
  /\ UNCHANGED <<run, attempt, taskVars, launch, req, batchSeq, history, errors, faults>>

\* The task dies with its worker or its final statement fails: what it held
\* stays held until its lease runs out.
TaskLost(j) ==
  /\ Fault
  /\ Busy(j)
  /\ at' = [at EXCEPT ![j] = "none"]
  /\ outcome' = [outcome EXCEPT ![j] = "none"]
  /\ launch' = [launch EXCEPT ![j] = Idle]
  /\ job' = [job EXCEPT ![j] = IF @ \in Held THEN "finished" ELSE @]
  /\ UNCHANGED <<run, attempt, cancel, req, batchSeq, history>>

\* Mutant of SweepJob: a live task's lease is not respected.
SweepLive(j) ==
  /\ job[j] \in Held
  /\ job' = [job EXCEPT ![j] = IF attempt[j] < MaxAttempts THEN "waiting" ELSE "failed_terminal"]
  /\ UNCHANGED <<run, attempt, cancel, taskVars, launch, req, batchSeq, history, counters>>

\* requeue_stuck_jobs, for a held job without a task.
SweepJob(j) ==
  /\ job[j] \in Held /\ ~Busy(j)
  /\ job' = [job EXCEPT ![j] = IF attempt[j] < MaxAttempts THEN "waiting" ELSE "failed_terminal"]
  /\ UNCHANGED <<run, attempt, cancel, taskVars, launch, req, batchSeq, history, counters>>

\* Mutant of Maintain: nothing is launched.
MaintainCollapseOnly(w) ==
  /\ launch[w] = Idle
  /\ run' = [r \in Runs |->
       IF run[r].state = "pending"
          /\ \E q \in Runs : q > r /\ run[q].state = "pending" /\ run[q].list = run[r].list
       THEN [run[r] EXCEPT !.state = "cancelled"] ELSE run[r]]
  /\ UNCHANGED <<launch, jobVars, taskVars, req, batchSeq, history, counters>>

\* The rest of run_maintenance: collapse_duplicate_pending_runs, and a launch
\* when no run is active.
Maintain(w) ==
  /\ launch[w] = Idle
  /\ run' = [r \in Runs |->
       IF run[r].state = "pending"
          /\ \E q \in Runs : q > r /\ run[q].state = "pending" /\ run[q].list = run[r].list
       THEN [run[r] EXCEPT !.state = "cancelled"] ELSE run[r]]
  /\ launch' = IF ActiveRun THEN launch ELSE [launch EXCEPT ![w] = Launching("global", NoBatch)]
  /\ UNCHANGED <<jobVars, taskVars, req, batchSeq, history, counters>>

-----------------------------------------------------------------------------
(* The stage handlers. *)

Goto(j, step) == at' = [at EXCEPT ![j] = step]

\* The task is over.
End(j) == /\ Goto(j, "none")
          /\ outcome' = [outcome EXCEPT ![j] = "none"]

\* The handler, or process_job in its place, returns.
Return(j, o) ==
  /\ job' = [job EXCEPT ![j] = "finished"]
  /\ Goto(j, "finish")
  /\ outcome' = [outcome EXCEPT ![j] = o]
  /\ UNCHANGED <<attempt, cancel>>

\* A claimed row that asks for a cancel is not executed.
CancelledEarly(j) ==
  /\ at[j] = "load_cancelled"
  /\ Return(j, "cancelled_early")
  /\ UNCHANGED <<run, launch, req, batchSeq, history, counters>>

\* A run that is not running is skipped, with success.
LoadRun(j) ==
  /\ at[j] = "load"
  /\ \/ run[j[1]].state # "running" /\ Return(j, "success")
     \/ run[j[1]].state = "running" /\ j[2] # Ingest /\ ~run[j[1]].window
          /\ Return(j, "terminal")
     \/ /\ run[j[1]].state = "running" /\ (j[2] = Ingest \/ run[j[1]].window)
        /\ job' = [job EXCEPT ![j] = "executing"]
        /\ Goto(j, "work")
        /\ UNCHANGED <<outcome, attempt, cancel>>
  /\ UNCHANGED <<run, launch, req, batchSeq, history, counters>>

\* The stage's own work, left abstract.
DoWork(j) ==
  /\ at[j] = "work"
  /\ worked' = [worked EXCEPT ![j[1]] = @ \cup {j[2]}]
  /\ Goto(j, CASE j[2] = Ingest -> "window" [] j[2] = Lexical -> "mark" [] OTHER -> "enqueue")
  /\ UNCHANGED <<run, jobVars, outcome, launch, req, batchSeq, embedded, counters>>

\* It sees the cancel request, or the threading stage finds repos it has no
\* epoch for.
WorkStops(j) ==
  /\ at[j] = "work"
  /\ \/ cancel[j] /\ Return(j, "cancelled")
     \/ j[2] = Threading /\ Return(j, "terminal")
  /\ UNCHANGED <<run, launch, req, batchSeq, history, counters>>

\* An I/O error, at any step of a handler.
Retryable(j) ==
  /\ Calm /\ errors < ErrorBound
  /\ errors' = errors + 1
  /\ at[j] \in {"load", "work", "window", "enqueue", "stage", "mark"}
  /\ Return(j, "retryable")
  /\ UNCHANGED <<run, launch, req, batchSeq, history, faults, cancels>>

\* Mutant of SetIngestWindow: the window is left for a later statement.
SkipIngestWindow(j) ==
  /\ at[j] = "window"
  /\ Goto(j, "enqueue")
  /\ UNCHANGED <<run, jobVars, outcome, launch, req, batchSeq, history, counters>>

SetIngestWindow(j) ==
  /\ at[j] = "window"
  /\ run' = [run EXCEPT ![j[1]].window = TRUE]
  /\ Goto(j, "enqueue")
  /\ UNCHANGED <<jobVars, outcome, launch, req, batchSeq, history, counters>>

\* Mutant of EnqueueNextStage: it jumps to the last stage.
EnqueueLastStage(j) ==
  /\ at[j] = "enqueue"
  /\ job' = Enqueued(<<j[1], Lexical>>)
  /\ Goto(j, "stage")
  /\ UNCHANGED <<run, attempt, cancel, outcome, launch, req, batchSeq, history, counters>>

EnqueueNextStage(j) ==
  /\ at[j] = "enqueue"
  /\ job' = Enqueued(<<j[1], j[2] + 1>>)
  /\ Goto(j, "stage")
  /\ UNCHANGED <<run, attempt, cancel, outcome, launch, req, batchSeq, history, counters>>

SetCurrentStage(j) ==
  /\ at[j] = "stage"
  /\ run' = [run EXCEPT ![j[1]].stage = j[2] + 1]
  /\ Return(j, "success")
  /\ UNCHANGED <<launch, req, batchSeq, history, counters>>

\* A run of a batch is followed by the next pending one.
Continue(j) ==
  launch' = IF run[j[1]].batch = NoBatch THEN launch
            ELSE [launch EXCEPT ![j] = Launching("batch", run[j[1]].batch)]

\* Mutant of MarkSucceeded: without a batch the handler returns at once.
MarkSucceededAndReturn(j) ==
  /\ at[j] = "mark"
  /\ MarkRun(j[1], "succeeded")
  /\ Continue(j)
  /\ IF run[j[1]].batch = NoBatch THEN Return(j, "success")
     ELSE Goto(j, "embed") /\ UNCHANGED <<jobVars, outcome>>
  /\ UNCHANGED <<req, batchSeq, history, counters>>

\* The end of the lexical stage: the run has succeeded, whatever became of it
\* since the handler loaded it.
MarkSucceeded(j) ==
  /\ at[j] = "mark"
  /\ MarkRun(j[1], "succeeded")
  /\ Continue(j)
  /\ Goto(j, "embed")
  /\ UNCHANGED <<jobVars, outcome, req, batchSeq, history, counters>>

\* The background embedding job; failing to enqueue it is only logged.
EnqueueEmbedding(j) ==
  /\ at[j] = "embed" /\ launch[j] = Idle
  /\ Return(j, "success")
  /\ \/ embedded' = embedded \cup {j[1]} /\ UNCHANGED counters
     \/ Fault /\ UNCHANGED embedded
  /\ UNCHANGED <<run, launch, req, batchSeq, worked>>

-----------------------------------------------------------------------------
(* process_job after the handler. *)

\* Mutant of Exhausted: one attempt too many.
ExhaustedLate(j) == outcome[j] = "retryable" /\ attempt[j] > MaxAttempts

Exhausted(j) == outcome[j] = "retryable" /\ attempt[j] >= MaxAttempts

\* Mutant of ClosesRun: a terminal outcome closes the job alone.
ClosesRunUnlessTerminal(j) == outcome[j] \in {"cancelled", "cancelled_early"} \/ Exhausted(j)

\* The outcomes finalize_pipeline_run_if_needed closes a running run for.
ClosesRun(j) == outcome[j] \in {"terminal", "cancelled", "cancelled_early"} \/ Exhausted(j)

\* finalize_job.
FinalizeJob(j) ==
  /\ at[j] = "finish" /\ launch[j] = Idle
  /\ job' = [job EXCEPT ![j] =
       CASE outcome[j] = "success" -> "succeeded"
         [] outcome[j] \in {"cancelled", "cancelled_early"} -> "cancelled"
         [] outcome[j] = "retryable" /\ ~Exhausted(j) -> "waiting"
         [] OTHER -> "failed_terminal"]
  /\ cancel' = [cancel EXCEPT ![j] = @ /\ outcome[j] # "success"]
  /\ IF ClosesRun(j) THEN Goto(j, "close") /\ UNCHANGED outcome ELSE End(j)
  /\ UNCHANGED <<run, attempt, launch, req, batchSeq, history, counters>>

\* Its statement fails; a job cancelled before execution has its run closed
\* all the same.
FinalizeFails(j) ==
  /\ Fault
  /\ at[j] = "finish"
  /\ IF outcome[j] = "cancelled_early" THEN Goto(j, "close") /\ UNCHANGED outcome ELSE End(j)
  /\ UNCHANGED <<run, jobVars, launch, req, batchSeq, history>>

\* finalize_pipeline_run_if_needed reads the run, and leaves one alone that is
\* not running.
CloseRead(j) ==
  /\ at[j] = "close"
  /\ IF run[j[1]].state = "running" THEN Goto(j, "close_mark") /\ UNCHANGED outcome ELSE End(j)
  /\ UNCHANGED <<run, jobVars, launch, req, batchSeq, history, counters>>

\* Then it closes the run and activates the next one.
CloseRun(j) ==
  /\ at[j] = "close_mark"
  /\ MarkRun(j[1], IF outcome[j] \in {"cancelled", "cancelled_early"} THEN "cancelled" ELSE "failed")
  /\ Continue(j)
  /\ End(j)
  /\ UNCHANGED <<jobVars, req, batchSeq, history, counters>>

-----------------------------------------------------------------------------

LaunchNext(a) ==
  PickNext(a) \/ EnqueueIngest(a) \/ EnqueueIngestFails(a) \/ FailActivated(a) \/ LaunchLost(a)

GrokNext(g) == GrokBegin(g) \/ GrokCheck(g) \/ GrokCreate(g) \/ GrokSkip(g) \/ GrokLaunch(g)

SyncNext(q) ==
  SyncCheck(q) \/ SyncCreate(q) \/ SyncEnqueue(q) \/ SyncEnqueueFails(q) \/ SyncFail(q) \/ SyncLost(q)

QueueNext(j) == ClaimStage(j) \/ RequestCancel(j) \/ TaskLost(j) \/ SweepJob(j)

\* The steps a live task takes on its own.
TaskNext(j) ==
  \/ CancelledEarly(j) \/ LoadRun(j) \/ DoWork(j) \/ WorkStops(j) \/ Retryable(j)
  \/ SetIngestWindow(j) \/ EnqueueNextStage(j) \/ SetCurrentStage(j)
  \/ MarkSucceeded(j) \/ EnqueueEmbedding(j)
  \/ FinalizeJob(j) \/ CloseRead(j) \/ CloseRun(j)

Next ==
  \/ \E a \in Actors : LaunchNext(a)
  \/ \E g \in Grokmirrors : GrokNext(g)
  \/ \E q \in Syncs : SyncNext(q)
  \/ \E w \in Workers : Maintain(w)
  \/ \E j \in StageJobs : QueueNext(j) \/ TaskNext(j) \/ FinalizeFails(j)

Spec == Init /\ [][Next]_vars

\* Workers keep polling and sweeping, handlers and launches in progress go on;
\* nobody has to send a request, and nothing has to fail.
Fairness ==
  /\ WF_vars(\E a \in Actors : PickNext(a) \/ EnqueueIngest(a) \/ FailActivated(a))
  /\ \A q \in Syncs : WF_vars(SyncEnqueue(q) \/ SyncFail(q))
  /\ \A w \in Workers : SF_vars(Maintain(w))
  /\ SF_vars(\E j \in StageJobs : ClaimStage(j))
  /\ WF_vars(\E j \in StageJobs : SweepJob(j))
  /\ WF_vars(\E j \in StageJobs : TaskNext(j))

FairSpec == Spec /\ Fairness

-----------------------------------------------------------------------------
(* Safety. *)

\* Every stage after ingest finds the ingest window of its run: no run fails
\* because a stage was started too early (threading.rs, lineage.rs, lexical.rs:
\* "run has no ingest window set").
StageFindsWindow ==
  \A j \in StageJobs : j[2] # Ingest /\ job[j] # "absent" => run[j[1]].window

\* A run succeeds only after the work of each of its stages was done: no skip,
\* retry, dedupe or lost task lets a run pass a stage over.
SucceededRanEveryStage ==
  \A r \in Runs : run[r].state = "succeeded" => worked[r] = Stages

\* A run that succeeded gets its embedding job, unless a fault hits it.
SucceededIsEmbedded ==
  faults = 0 => \A r \in Runs :
    run[r].state = "succeeded" /\ at[<<r, Lexical>>] = "none" => r \in embedded

\* A running run that nothing will ever move: no live job, no task that still
\* has to close it, no request or sweep about to enqueue its ingest job.
Orphaned(r) ==
  /\ run[r].state = "running"
  /\ \A s \in Stages : job[<<r, s>>] \in {"absent"} \cup Settled /\ ~Busy(<<r, s>>)
  /\ \A a \in Actors : launch[a].run # r
  /\ \A q \in Syncs : req[q].run = r => req[q].pc \notin {"enqueue", "fail"}

\* However grokmirror requests, sweeps and finishing runs overlap, no run is orphaned
\* as long as nothing fails and no one cancels: an orphan would block its list and,
\* through get_any_active_run, the sweep.  (Where sync requests come in between, too,
\* a run may be: see PipelineDrains.)
NoOrphan == faults = 0 /\ cancels = 0 => \A r \in Runs : ~Orphaned(r)

\* Every run that was opened is closed in the end.
PipelineDrains ==
  \A r \in Runs : run[r].state \in Open ~> run[r].state \in Closed

\* Overlapping triggers, batches, failures and retries leave no run open for
\* ever; only an orphan, which no sweep looks for, may.
DrainsUnlessOrphaned ==
  \A r \in Runs :
    run[r].state \in Open ~> run[r].state \in Closed \/ \E q \in Runs : Orphaned(q)

\* The pipeline treats its jobs as the queue's contract says they move.
Queue == INSTANCE JobContract WITH Jobs <- StageJobs, status <- job

KeepsQueueContract == Queue!Spec
=============================================================================
