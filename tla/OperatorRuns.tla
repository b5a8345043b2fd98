---------------------------- MODULE OperatorRuns ----------------------------
(***************************************************************************)
(* Runs an operator starts over the admin API: the mainline scan, the      *)
(* bootstrap of the search index and the backfill of the embeddings.  Each *)
(* kind has a table of runs of its own, and all follow one protocol: a     *)
(* request inserts the run, enqueues a job for it and binds the two, a     *)
(* worker executes the job, which moves the run along, and a second        *)
(* request may cancel it.                                                  *)
(*                                                                         *)
(* This module has the requests and what becomes of jobs; what the jobs do *)
(* is in MainlineScan and SearchDocs, and Background puts them together.   *)
(* A job moves as JobContract lets it, and no lease runs out under a live  *)
(* task.  A step is one SQL statement that writes, with reads before it.   *)
(* There are four exceptions: the row of a run is read and marked in one   *)
(* step, as are the rollups of a series and of its versions, the vectors   *)
(* of a batch, and the document of a series, which is built and submitted. *)
(***************************************************************************)
EXTENDS Naturals, FiniteSets

CONSTANTS
  RunBound,     \* bound of the model: start requests, and runs of the kind
  JobBound,     \* bound of the model: rows of `jobs`
  MaxAttempts,  \* max_attempts of every job (8 in the code)
  Setups        \* what a behaviour is about: the kind of run, the slots, and
                \* how many start requests, faults and cancel requests it has

ASSUME BoundAssumption == /\ RunBound \in Nat /\ JobBound \in Nat /\ RunBound =< JobBound
                          /\ MaxAttempts \in Nat \ {0}
ASSUME SetupAssumption ==
  Setups \subseteq [kind : {"mainline", "meili", "backfill"}, slots : Nat,
                    starts : 0..RunBound, faults : Nat, cancels : Nat]

Runs == 1..RunBound
Posters == Runs
NoRun == 0
\* Run r has job r; the jobs behind are those the pipeline and the runs enqueue.
Jobs == 1..JobBound

Open == {"queued", "running"}
Closed == {"succeeded", "failed", "cancelled"}
\* What a handler returns.
Returned == {"success", "retryable", "terminal", "cancelled"}

VARIABLES
  kind,       \* the kind of run this behaviour is about
  slots,      \* max_inflight_jobs of all workers
  runs,       \* mainline_scan_runs, meili_bootstrap_runs or embedding_backfill_runs
  poster,     \* the start requests
  canceller,  \* the cancel request in progress
  job,        \* jobs.state, "waiting" for queued, scheduled and failed_retryable
  attempt,    \* jobs.attempt
  cancel,     \* jobs.cancel_requested
  at,         \* the next step of the job's execution, "none" without one
  faults,     \* failed statements and lost processes that may still happen
  cancels     \* cancel requests that may still be made

setup == <<kind, slots>>
jobVars == <<job, attempt, cancel, at>>
requestVars == <<poster, canceller>>
counters == <<faults, cancels>>
controlVars == <<setup, runs, jobVars, requestVars, counters>>

NewRun == [state |-> "absent", bound |-> FALSE, mode |-> "incremental", cursor |-> <<0, 0>>]

ControlTypeOK ==
  /\ \E s \in Setups : /\ kind = s.kind /\ slots = s.slots
                       /\ faults \in 0..s.faults /\ cancels \in 0..s.cancels
  /\ runs \in [Runs -> [state : {"absent"} \cup Open \cup Closed, bound : BOOLEAN,
                        mode : {"bootstrap", "incremental"}, cursor : Nat \X Nat]]
  /\ poster \in [Posters -> [pc : {"check", "create", "enqueue", "bind", "done"},
                             run : {NoRun} \cup Runs, mode : {"bootstrap", "incremental"}]]
  /\ canceller \in [pc : {"idle", "job", "mark"}, run : {NoRun} \cup Runs]
  /\ job \in [Jobs -> {"none", "waiting", "running", "succeeded", "failed_terminal", "cancelled"}]
  /\ attempt \in [Jobs -> 0..MaxAttempts]
  /\ cancel \in [Jobs -> BOOLEAN]

ControlInit(s) ==
  /\ kind = s.kind /\ slots = s.slots
  /\ runs = [r \in Runs |-> NewRun]
  /\ poster = [p \in Posters |-> [pc |-> IF p =< s.starts THEN "check" ELSE "done", run |-> NoRun, mode |-> "incremental"]]
  /\ canceller = [pc |-> "idle", run |-> NoRun]
  /\ job = [j \in Jobs |-> "none"]
  /\ attempt = [j \in Jobs |-> 0]
  /\ cancel = [j \in Jobs |-> FALSE]
  /\ at = [j \in Jobs |-> "none"]
  /\ faults = s.faults
  /\ cancels = s.cancels

Fault == /\ faults > 0
         /\ faults' = faults - 1
         /\ UNCHANGED cancels

OpenRuns == {r \in Runs : runs[r].state \in Open}

\* mark_run_* and mark_*_bootstrap_*: UPDATE ... WHERE id, whatever the state.
Mark(r, s) == runs' = [runs EXCEPT ![r].state = s]

-----------------------------------------------------------------------------
(* The start request. *)

PosterStep(p, from, to) ==
  /\ poster[p].pc = from
  /\ poster' = [poster EXCEPT ![p].pc = to]

\* A scan or a bootstrap is refused while a run of its kind is open, and
\* refused is how the request stays; a backfill always starts.
Check(p, mode) ==
  /\ poster[p].pc = "check"
  /\ kind # "backfill" => OpenRuns = {}
  /\ poster' = [poster EXCEPT ![p].pc = "create", ![p].mode = mode]
  /\ UNCHANGED <<setup, runs, jobVars, canceller, counters>>

\* INSERT of the run; no index keeps a second one from being open.
Create(p) ==
  LET r == Cardinality({q \in Runs : runs[q].state # "absent"}) + 1 IN
    /\ poster[p].pc = "create" /\ r \in Runs
    /\ runs' = [runs EXCEPT ![r].state = IF kind = "backfill" THEN "running" ELSE "queued",
                            ![r].mode = poster[p].mode]
    /\ poster' = [poster EXCEPT ![p].pc = "enqueue", ![p].run = r]
    /\ UNCHANGED <<setup, jobVars, canceller, counters>>

\* The dedupe key names the run.  A backfill keeps no job id.
EnqueueRun(p) ==
  /\ PosterStep(p, "enqueue", IF kind = "backfill" THEN "done" ELSE "bind")
  /\ job' = [job EXCEPT ![poster[p].run] = "waiting"]
  /\ UNCHANGED <<setup, runs, attempt, cancel, at, canceller, counters>>

\* The enqueue fails: the run is marked failed, which the backfill does not do.
EnqueueFails(p) ==
  /\ PosterStep(p, "enqueue", "done")
  /\ Fault
  /\ IF kind = "backfill" THEN UNCHANGED runs ELSE Mark(poster[p].run, "failed")
  /\ UNCHANGED <<setup, jobVars, canceller>>

Bind(p) ==
  /\ PosterStep(p, "bind", "done")
  /\ runs' = [runs EXCEPT ![poster[p].run].bound = TRUE]
  /\ UNCHANGED <<setup, jobVars, canceller, counters>>

\* The API process stops, or a statement of the request fails.
PosterLost(p) ==
  /\ poster[p].pc \in {"create", "enqueue", "bind"}
  /\ poster' = [poster EXCEPT ![p].pc = "done"]
  /\ Fault
  /\ UNCHANGED <<setup, runs, jobVars, canceller>>

-----------------------------------------------------------------------------
(* The cancel request. *)

\* request_cancel: a job that waits is cancelled, one that runs is asked to stop.
RequestCancel(j) ==
  /\ job' = [job EXCEPT ![j] = IF @ = "waiting" THEN "cancelled" ELSE @]
  /\ cancel' = [cancel EXCEPT ![j] = @ \/ job[j] = "running"]

\* The run is read first; it must be open, and bound to its job.
CancelRead(r) ==
  /\ kind # "backfill" /\ canceller.pc = "idle"
  /\ runs[r].state \in Open /\ runs[r].bound
  /\ cancels > 0 /\ cancels' = cancels - 1
  /\ canceller' = [pc |-> "job", run |-> r]
  /\ UNCHANGED <<setup, runs, jobVars, poster, faults>>

\* The run is only marked when the job is already cancelled.
CancelJob ==
  /\ canceller.pc = "job"
  /\ RequestCancel(canceller.run)
  /\ canceller' = IF job'[canceller.run] = "cancelled" THEN [canceller EXCEPT !.pc = "mark"]
                  ELSE [pc |-> "idle", run |-> NoRun]
  /\ UNCHANGED <<setup, runs, attempt, at, poster, counters>>

CancelMark ==
  /\ canceller.pc = "mark"
  /\ Mark(canceller.run, "cancelled")
  /\ canceller' = [pc |-> "idle", run |-> NoRun]
  /\ UNCHANGED <<setup, jobVars, poster, counters>>

CancelLost ==
  /\ canceller.pc = "mark" /\ Fault
  /\ canceller' = [pc |-> "idle", run |-> NoRun]
  /\ UNCHANGED <<setup, runs, jobVars, poster>>

\* POST /admin/v1/jobs/{id}/cancel names a job and knows of no run.
CancelDirect(j) ==
  /\ job[j] \in {"waiting", "running"} /\ ~cancel[j]
  /\ cancels > 0 /\ cancels' = cancels - 1
  /\ RequestCancel(j)
  /\ UNCHANGED <<setup, runs, attempt, at, requestVars, faults>>

-----------------------------------------------------------------------------
(* The worker around a handler. *)

\* A free slot takes any job that waits; a cancel request that outlived the
\* last attempt ends this one before the handler is called.
Claim(j) ==
  /\ job[j] = "waiting"
  /\ Cardinality({k \in Jobs : job[k] = "running"}) < slots
  /\ job' = [job EXCEPT ![j] = "running"]
  /\ attempt' = [attempt EXCEPT ![j] = @ + 1]
  /\ at' = [at EXCEPT ![j] = IF cancel[j] THEN "cancelled" ELSE "load"]
  /\ UNCHANGED <<setup, runs, cancel, requestVars, counters>>

\* Mutant of AfterFailure: the last attempt is followed by one more.
AfterFailureLate(j) == IF attempt[j] =< MaxAttempts THEN "waiting" ELSE "failed_terminal"

\* The state of a job whose attempt came to nothing.
AfterFailure(j) == IF attempt[j] < MaxAttempts THEN "waiting" ELSE "failed_terminal"

Finalize(j) ==
  /\ at[j] \in Returned
  /\ job' = [job EXCEPT ![j] = CASE at[j] = "success"   -> "succeeded"
                                 [] at[j] = "cancelled" -> "cancelled"
                                 [] at[j] = "terminal"  -> "failed_terminal"
                                 [] at[j] = "retryable" -> AfterFailure(j)]
  /\ cancel' = [cancel EXCEPT ![j] = @ /\ at[j] # "success"]
  /\ at' = [at EXCEPT ![j] = "none"]
  /\ UNCHANGED <<setup, runs, attempt, requestVars, counters>>

\* Mutant of Sweep: the second statement, for jobs without an attempt left, is missing.
SweepRequeues(j) ==
  /\ job[j] = "running" /\ at[j] = "none" /\ attempt[j] < MaxAttempts
  /\ job' = [job EXCEPT ![j] = "waiting"]
  /\ UNCHANGED <<setup, runs, attempt, cancel, at, requestVars, counters>>

\* The lease of a lost execution ran out.
Sweep(j) ==
  /\ job[j] = "running" /\ at[j] = "none"
  /\ job' = [job EXCEPT ![j] = AfterFailure(j)]
  /\ UNCHANGED <<setup, runs, attempt, cancel, at, requestVars, counters>>

\* An execution breaks off: a statement or a call fails and the handler
\* returns Retryable, or what it returned is lost with the process.
Breaks(j) ==
  /\ at[j] # "none" /\ Fault
  /\ at' = [at EXCEPT ![j] = IF @ \in Returned THEN "none" ELSE "retryable"]
  /\ UNCHANGED <<setup, runs, job, attempt, cancel, requestVars>>

\* A handler's step that leaves the requests, the counters and the jobs alone.
HandlerStep(j, from, to) ==
  /\ at[j] = from
  /\ at' = [at EXCEPT ![j] = to]
  /\ UNCHANGED <<setup, attempt, cancel, requestVars, counters>>

\* The first statements of every handler of a run: a queued run is set
\* running, and a run that is closed by now is skipped.
LoadRun(j, next) ==
  /\ runs[j].state \in Open
  /\ HandlerStep(j, "load", next)
  /\ Mark(j, "running")
  /\ UNCHANGED job

SkipRun(j) ==
  /\ j \in Runs /\ runs[j].state \in Closed
  /\ HandlerStep(j, "load", "success")
  /\ UNCHANGED <<runs, job>>

\* What the handler finds in its settings or in the run cannot be retried.
Refuse(j) ==
  /\ j \in Runs /\ kind # "backfill" /\ runs[j].state \in Open
  /\ at[j] = "load" /\ Fault
  /\ at' = [at EXCEPT ![j] = "terminal"]
  /\ Mark(j, "failed")
  /\ UNCHANGED <<setup, job, attempt, cancel, requestVars>>

\* A handler looks at the cancel request between two chunks.
StopForCancel(j, from) ==
  /\ cancel[j]
  /\ HandlerStep(j, from, "cancelled")
  /\ IF j \in Runs THEN Mark(j, "cancelled") ELSE UNCHANGED runs
  /\ UNCHANGED job

\* The last statement of a handler of a run.
Succeed(j, from) ==
  /\ HandlerStep(j, from, "success")
  /\ Mark(j, "succeeded")
  /\ UNCHANGED job

=============================================================================
