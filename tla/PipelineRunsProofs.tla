-------------------------- MODULE PipelineRunsProofs --------------------------
(* Theorems about PipelineRuns, for any lists, requests, workers, slots, stages *)
(* and bounds.                                                                  *)
EXTENDS PipelineRuns, FiniteSetTheorems, TLAPS

-----------------------------------------------------------------------------
(* Types. *)

RunRow == [state : {"absent"} \cup Open \cup Closed, list : {0} \cup Lists, batch : Nat,
           stage : Stages, window : BOOLEAN]
Launch == [mode : {"none", "batch", "global"}, batch : Nat, run : {NoRun} \cup Runs,
           failed : BOOLEAN]
Request == [pc : {"new", "check", "create", "enqueue", "fail", "done"}, list : 0..ListCount + 1,
            batch : Nat, run : {NoRun} \cup Runs]

\* A job in the queue has an attempt left, and one that was never queued has used none.
AttemptsLeft ==
  \A j \in StageJobs : /\ job[j] = "waiting" => attempt[j] < MaxAttempts
                       /\ job[j] = "absent" => attempt[j] = 0

\* The steps of a handler that only some stages have.
StageSteps ==
  \A j \in StageJobs : /\ at[j] = "window" => j[2] = Ingest
                       /\ at[j] \in {"enqueue", "stage"} => j[2] < LastStage
                       /\ at[j] \in {"mark", "embed"} => j[2] = Lexical

\* A request creates runs of lists only.
CreatesForList == \A q \in Requests : req[q].pc = "create" => req[q].list \in Lists

TypeInv == TypeOK /\ AttemptsLeft /\ StageSteps /\ CreatesForList

\* The same by the tables a step writes.
JobTypes == /\ job \in [StageJobs -> {"absent", "waiting"} \cup Held \cup Settled]
            /\ attempt \in [StageJobs -> 0..MaxAttempts]
            /\ cancel \in [StageJobs -> BOOLEAN]
            /\ AttemptsLeft
TaskTypes == /\ at \in [StageJobs -> {"none"} \cup Step]
             /\ outcome \in [StageJobs -> {"none"} \cup Outcome]
             /\ StageSteps
RequestTypes == req \in [Requests -> Request] /\ CreatesForList
CountTypes == /\ embedded \in SUBSET Runs
              /\ worked \in [Runs -> SUBSET Stages]
              /\ batchSeq \in Nat
              /\ errors \in 0..ErrorBound
              /\ faults \in 0..FaultBound
              /\ cancels \in 0..CancelBound

LEMMA Tables ==
  TypeOK => /\ run \in [Runs -> RunRow]
            /\ launch \in [Actors -> Launch]
            /\ req \in [Requests -> Request]
BY DEF TypeOK, RunRow, Launch, Request

LEMMA TypeParts ==
  TypeInv <=> /\ run \in [Runs -> RunRow]
              /\ launch \in [Actors -> Launch]
              /\ RequestTypes /\ JobTypes /\ TaskTypes /\ CountTypes
BY DEF TypeInv, TypeOK, RunRow, Launch, Request, RequestTypes, JobTypes, TaskTypes, CountTypes

LEMMA InitType == Init => TypeInv
BY LimitAssumption, StageAssumption, BoundAssumption
   DEF Init, TypeInv, TypeOK, AttemptsLeft, StageSteps, CreatesForList, Stages, Ingest, NoBatch,
       NoRun, Idle, NewRequest, Step, StageJobs

\* What a request, a launch and a run row look like in the middle of things.
LEMMA Records ==
  /\ Idle \in Launch /\ Idle.run = NoRun /\ Idle.mode = "none" /\ ~Idle.failed
  /\ \A m \in {"none", "batch", "global"}, b \in Nat :
       /\ Launching(m, b) \in Launch /\ Launching(m, b).run = NoRun /\ ~Launching(m, b).failed
       /\ Launching(m, b).mode = m
  /\ NewRequest \in Request /\ NewRequest.pc = "new"
  /\ Answered \in Request /\ Answered.pc = "done" /\ Answered.run = NoRun
<1>1. Idle \in Launch /\ Idle.run = NoRun /\ Idle.mode = "none" /\ ~Idle.failed
  BY DEF Idle, Launch, NoBatch, NoRun
<1>2. ASSUME NEW m \in {"none", "batch", "global"}, NEW b \in Nat
      PROVE  /\ Launching(m, b) \in Launch /\ Launching(m, b).run = NoRun
             /\ ~Launching(m, b).failed /\ Launching(m, b).mode = m
  BY DEF Launching, Idle, Launch, NoBatch, NoRun
<1>3. NewRequest \in Request /\ NewRequest.pc = "new" /\ NewRequest.run = NoRun
  BY LimitAssumption DEF NewRequest, Request, NoBatch, NoRun
<1>4. Answered \in Request /\ Answered.pc = "done" /\ Answered.run = NoRun
  BY <1>3 DEF Answered, Request
<1> QED
  BY <1>1, <1>2, <1>3, <1>4

\* The row a run is inserted in is a row of the table.
LEMMA NewRunType ==
  ASSUME NEW l, NEW b, NEW s, InsertRun(l, b, s)
  PROVE  NewRun \in Runs
<1> DEFINE ids == {r \in Runs : run[r].state # "absent"}
<1>1. IsFiniteSet(Runs) /\ Cardinality(Runs) = RunBound
  BY BoundAssumption, FS_Interval DEF Runs
<1>2. ids \in SUBSET Runs /\ ids # Runs
  BY DEF InsertRun
<1>3. Cardinality(ids) \in Nat /\ Cardinality(ids) < RunBound
  <2> HIDE DEF ids
  <2>1. IsFiniteSet(ids) /\ Cardinality(ids) <= Cardinality(Runs) /\ Cardinality(ids) # Cardinality(Runs)
    BY <1>1, <1>2, FS_Subset
  <2>2. Cardinality(ids) \in Nat
    BY <2>1, FS_CardinalityType
  <2> QED
    BY <1>1, <2>1, <2>2, BoundAssumption
<1> QED
  BY <1>3, BoundAssumption DEF NewRun, Runs

LEMMA MarkRunType ==
  ASSUME TypeOK, NEW r, NEW s \in {"absent"} \cup Open \cup Closed, MarkRun(r, s)
  PROVE  run' \in [Runs -> RunRow]
BY Tables DEF MarkRun, RunRow

LEMMA InsertRunType ==
  ASSUME TypeOK, NEW l \in Lists, NEW b \in Nat, NEW s \in Open, InsertRun(l, b, s)
  PROVE  run' \in [Runs -> RunRow]
BY Tables DEF InsertRun, RunRow

-----------------------------------------------------------------------------
(* What each table is written by. *)

LEMMA JobFrame ==
  ASSUME [Next]_vars
  PROVE  \/ UNCHANGED jobVars
         \/ \E a \in Actors : EnqueueIngest(a)
         \/ \E q \in Syncs : SyncEnqueue(q)
         \/ \E j \in StageJobs :
              \/ ClaimStage(j) \/ RequestCancel(j) \/ TaskLost(j) \/ SweepJob(j)
              \/ CancelledEarly(j) \/ LoadRun(j) \/ WorkStops(j) \/ Retryable(j)
              \/ EnqueueNextStage(j) \/ SetCurrentStage(j) \/ EnqueueEmbedding(j) \/ FinalizeJob(j)
BY DEF Next, vars, LaunchNext, PickNext, EnqueueIngestFails, FailActivated, LaunchLost,
       GrokNext, GrokBegin, GrokCheck, GrokCreate, GrokSkip, GrokLaunch,
       SyncNext, SyncCheck, SyncCreate, SyncEnqueueFails, SyncFail, SyncLost, Maintain,
       QueueNext, TaskNext, DoWork, SetIngestWindow, MarkSucceeded, FinalizeFails, CloseRead, CloseRun

LEMMA TaskFrame ==
  ASSUME [Next]_vars
  PROVE  \/ UNCHANGED taskVars
         \/ \E j \in StageJobs : ClaimStage(j) \/ TaskLost(j) \/ TaskNext(j) \/ FinalizeFails(j)
BY DEF Next, vars, LaunchNext, PickNext, EnqueueIngest, EnqueueIngestFails, FailActivated, LaunchLost,
       GrokNext, GrokBegin, GrokCheck, GrokCreate, GrokSkip, GrokLaunch,
       SyncNext, SyncCheck, SyncCreate, SyncEnqueue, SyncEnqueueFails, SyncFail, SyncLost, Maintain,
       QueueNext, RequestCancel, SweepJob

LEMMA RunFrame ==
  ASSUME [Next]_vars
  PROVE  \/ UNCHANGED run
         \/ \E a \in Actors : PickNext(a) \/ FailActivated(a)
         \/ \E g \in Grokmirrors : GrokCreate(g)
         \/ \E q \in Syncs : SyncCreate(q) \/ SyncFail(q)
         \/ \E w \in Workers : Maintain(w)
         \/ \E j \in StageJobs :
              SetIngestWindow(j) \/ SetCurrentStage(j) \/ MarkSucceeded(j) \/ CloseRun(j)
BY DEF Next, vars, LaunchNext, EnqueueIngest, EnqueueIngestFails, LaunchLost,
       GrokNext, GrokBegin, GrokCheck, GrokSkip, GrokLaunch,
       SyncNext, SyncCheck, SyncEnqueue, SyncEnqueueFails, SyncLost,
       QueueNext, ClaimStage, RequestCancel, TaskLost, SweepJob, TaskNext, CancelledEarly, LoadRun,
       DoWork, WorkStops, Retryable, EnqueueNextStage, EnqueueEmbedding, FinalizeJob, FinalizeFails,
       CloseRead

LEMMA LaunchFrame ==
  ASSUME [Next]_vars
  PROVE  \/ UNCHANGED launch
         \/ \E a \in Actors : LaunchNext(a)
         \/ \E g \in Grokmirrors : GrokLaunch(g)
         \/ \E w \in Workers : Maintain(w)
         \/ \E j \in StageJobs : TaskLost(j) \/ MarkSucceeded(j) \/ CloseRun(j)
BY DEF Next, vars, GrokNext, GrokBegin, GrokCheck, GrokCreate, GrokSkip,
       SyncNext, SyncCheck, SyncCreate, SyncEnqueue, SyncEnqueueFails, SyncFail, SyncLost,
       QueueNext, ClaimStage, RequestCancel, SweepJob, TaskNext, CancelledEarly, LoadRun,
       DoWork, WorkStops, Retryable, SetIngestWindow, EnqueueNextStage, SetCurrentStage,
       EnqueueEmbedding, FinalizeJob, FinalizeFails, CloseRead

LEMMA RequestFrame ==
  ASSUME [Next]_vars
  PROVE  \/ UNCHANGED req
         \/ \E g \in Grokmirrors : GrokNext(g)
         \/ \E q \in Syncs : SyncNext(q)
BY DEF Next, vars, LaunchNext, PickNext, EnqueueIngest, EnqueueIngestFails, FailActivated, LaunchLost,
       Maintain, QueueNext, ClaimStage, RequestCancel, TaskLost, SweepJob, TaskNext, CancelledEarly,
       LoadRun, DoWork, WorkStops, Retryable, SetIngestWindow, EnqueueNextStage, SetCurrentStage,
       MarkSucceeded, EnqueueEmbedding, FinalizeJob, FinalizeFails, CloseRead, CloseRun

LEMMA CountFrame ==
  ASSUME [Next]_vars
  PROVE  /\ UNCHANGED batchSeq \/ \E g \in Grokmirrors : GrokBegin(g)
         /\ UNCHANGED embedded \/ \E j \in StageJobs : EnqueueEmbedding(j)
         /\ UNCHANGED worked \/ \E j \in StageJobs : DoWork(j)
         /\ UNCHANGED errors \/ \E j \in StageJobs : Retryable(j)
         /\ UNCHANGED cancels \/ \E j \in StageJobs : RequestCancel(j)
         /\ UNCHANGED faults \/ Fault
BY DEF Next, vars, history, counters, Fault, LaunchNext, PickNext, EnqueueIngest, EnqueueIngestFails,
       FailActivated, LaunchLost,
       GrokNext, GrokBegin, GrokCheck, GrokCreate, GrokSkip, GrokLaunch,
       SyncNext, SyncCheck, SyncCreate, SyncEnqueue, SyncEnqueueFails, SyncFail, SyncLost, Maintain,
       QueueNext, ClaimStage, RequestCancel, TaskLost, SweepJob, TaskNext, CancelledEarly,
       LoadRun, DoWork, WorkStops, Retryable, SetIngestWindow, EnqueueNextStage, SetCurrentStage,
       MarkSucceeded, EnqueueEmbedding, FinalizeJob, FinalizeFails, CloseRead, CloseRun

\* A stage's job is enqueued: it has used no attempt, if it was not there.
LEMMA EnqueuedMove ==
  ASSUME JobTypes, NEW i, job' = Enqueued(i)
  PROVE  /\ job' \in [StageJobs -> {"absent", "waiting"} \cup Held \cup Settled]
         /\ \A j \in StageJobs : \/ job'[j] = job[j]
                                 \/ j = i /\ job[j] = "absent" /\ job'[j] = "waiting"
<1>1. job \in [StageJobs -> {"absent", "waiting"} \cup Held \cup Settled]
  BY DEF JobTypes
<1>2. CASE i \in StageJobs
  BY <1>1, <1>2 DEF Enqueued
<1>3. CASE i \notin StageJobs
  <2>1. job' = job
    BY <1>1, <1>3 DEF Enqueued
  <2> QED
    BY <1>1, <2>1
<1> QED
  BY <1>2, <1>3

LEMMA EnqueuedType ==
  ASSUME JobTypes, NEW i, job' = Enqueued(i), UNCHANGED <<attempt, cancel>>
  PROVE  JobTypes'
<1>1. \A j \in StageJobs : job'[j] # job[j] => job'[j] = "waiting" /\ attempt[j] < MaxAttempts
  BY EnqueuedMove, LimitAssumption DEF JobTypes, AttemptsLeft
<1>2. \A j \in StageJobs : job'[j] # job[j] => job'[j] = "waiting"
  BY <1>1
<1>3. AttemptsLeft'
  BY <1>1, <1>2 DEF JobTypes, AttemptsLeft
<1> QED
  BY <1>3, EnqueuedMove DEF JobTypes

LEMMA JobTypesStep ==
  ASSUME TypeInv, [Next]_vars
  PROVE  JobTypes'
<1> USE LimitAssumption, TypeParts
<1>1. CASE UNCHANGED jobVars
  BY <1>1 DEF jobVars, JobTypes, AttemptsLeft
<1>2. ASSUME NEW a \in Actors, EnqueueIngest(a) PROVE JobTypes'
  BY <1>2, EnqueuedType DEF EnqueueIngest
<1>3. ASSUME NEW q \in Syncs, SyncEnqueue(q) PROVE JobTypes'
  BY <1>3, EnqueuedType DEF SyncEnqueue
<1>4. ASSUME NEW j \in StageJobs, EnqueueNextStage(j) PROVE JobTypes'
  BY <1>4, EnqueuedType DEF EnqueueNextStage
<1>5. ASSUME NEW j \in StageJobs, ClaimStage(j) PROVE JobTypes'
  BY <1>5 DEF ClaimStage, JobTypes, AttemptsLeft, Held, Settled
<1>6. ASSUME NEW j \in StageJobs, RequestCancel(j) PROVE JobTypes'
  BY <1>6 DEF RequestCancel, JobTypes, AttemptsLeft, Settled
<1>7. ASSUME NEW j \in StageJobs, TaskLost(j) PROVE JobTypes'
  BY <1>7 DEF TaskLost, JobTypes, AttemptsLeft, Held
<1>8. ASSUME NEW j \in StageJobs, SweepJob(j) PROVE JobTypes'
  BY <1>8 DEF SweepJob, JobTypes, AttemptsLeft, Settled
<1>9. ASSUME NEW j \in StageJobs, NEW s \in Held, job' = [job EXCEPT ![j] = s], UNCHANGED <<attempt, cancel>>
      PROVE  JobTypes'
  BY <1>9 DEF JobTypes, AttemptsLeft, Held
<1>10. ASSUME NEW j \in StageJobs, NEW o, Return(j, o) PROVE JobTypes'
  BY <1>9, <1>10 DEF Return, Held
<1>11. ASSUME NEW j \in StageJobs, CancelledEarly(j) \/ LoadRun(j) \/ WorkStops(j) \/ Retryable(j)
                                   \/ SetCurrentStage(j) \/ EnqueueEmbedding(j)
       PROVE  JobTypes'
  BY <1>9, <1>10, <1>11
     DEF CancelledEarly, LoadRun, WorkStops, Retryable, SetCurrentStage, EnqueueEmbedding, Held
<1>12. ASSUME NEW j \in StageJobs, FinalizeJob(j) PROVE JobTypes'
  <2>1. PICK s \in {"waiting"} \cup Settled :
          job' = [job EXCEPT ![j] = s] /\ (s = "waiting" => attempt[j] < MaxAttempts)
    <3>1. CASE outcome[j] = "retryable" /\ ~Exhausted(j)
      <4>1. job' = [job EXCEPT ![j] = "waiting"]
        BY <1>12, <3>1 DEF FinalizeJob
      <4>2. attempt[j] < MaxAttempts
        BY <3>1 DEF Exhausted, JobTypes
      <4> QED
        BY <4>1, <4>2
    <3>2. CASE outcome[j] \in {"success", "cancelled", "cancelled_early"}
      <4>1. \/ job' = [job EXCEPT ![j] = "succeeded"]
            \/ job' = [job EXCEPT ![j] = "cancelled"]
        BY <1>12, <3>2 DEF FinalizeJob
      <4> QED
        BY <4>1 DEF Settled
    <3>3. CASE ~(outcome[j] = "retryable" /\ ~Exhausted(j)) /\ outcome[j] \notin {"success", "cancelled", "cancelled_early"}
      <4>1. job' = [job EXCEPT ![j] = "failed_terminal"]
        BY <1>12, <3>3 DEF FinalizeJob
      <4> QED
        BY <4>1 DEF Settled
    <3> QED
      BY <3>1, <3>2, <3>3
  <2>2. attempt' = attempt /\ cancel' \in [StageJobs -> BOOLEAN]
    BY <1>12 DEF FinalizeJob, JobTypes
  <2> QED
    BY <2>1, <2>2 DEF JobTypes, AttemptsLeft, Settled
<1> QED
  BY <1>1, <1>2, <1>3, <1>4, <1>5, <1>6, <1>7, <1>8, <1>11, <1>12, JobFrame

LEMMA TaskTypesStep ==
  ASSUME TypeInv, [Next]_vars
  PROVE  TaskTypes'
<1> USE TypeParts
<1>1. CASE UNCHANGED taskVars
  BY <1>1 DEF taskVars, TaskTypes, StageSteps
<1>2. ASSUME NEW j \in StageJobs, NEW p \in {"none", "load", "load_cancelled", "work", "finish", "close", "close_mark"},
             Goto(j, p), outcome' \in [StageJobs -> {"none"} \cup Outcome]
      PROVE  TaskTypes'
  BY <1>2 DEF Goto, TaskTypes, StageSteps, Step
<1>3. ASSUME NEW j \in StageJobs, NEW o \in Outcome, Return(j, o) PROVE TaskTypes'
  BY <1>2, <1>3 DEF Return, TaskTypes
<1>4. ASSUME NEW j \in StageJobs, End(j) PROVE TaskTypes'
  BY <1>2, <1>4 DEF End, TaskTypes
<1>5. ASSUME NEW j \in StageJobs, ClaimStage(j) PROVE TaskTypes'
  BY <1>2, <1>5 DEF ClaimStage, Goto, TaskTypes
<1>6. ASSUME NEW j \in StageJobs, TaskLost(j) PROVE TaskTypes'
  BY <1>2, <1>6 DEF TaskLost, Goto, TaskTypes
<1>7. ASSUME NEW j \in StageJobs, CancelledEarly(j) \/ WorkStops(j) \/ Retryable(j)
                                  \/ SetCurrentStage(j) \/ EnqueueEmbedding(j)
      PROVE  TaskTypes'
  BY <1>3, <1>7
     DEF CancelledEarly, WorkStops, Retryable, SetCurrentStage, EnqueueEmbedding, Outcome
<1>8. ASSUME NEW j \in StageJobs, LoadRun(j) PROVE TaskTypes'
  BY <1>2, <1>3, <1>8 DEF LoadRun, Outcome, TaskTypes
<1>9. ASSUME NEW j \in StageJobs, FinalizeJob(j) \/ FinalizeFails(j) \/ CloseRead(j) \/ CloseRun(j)
      PROVE  TaskTypes'
  BY <1>2, <1>4, <1>9 DEF FinalizeJob, FinalizeFails, CloseRead, CloseRun, TaskTypes
<1>10. ASSUME NEW j \in StageJobs, DoWork(j) PROVE TaskTypes'
  <2>1. j[2] \in 1..LastStage
    BY DEF StageJobs, Stages
  <2> QED
    BY <1>10, <2>1, StageAssumption DEF DoWork, Goto, TaskTypes, StageSteps, Step, Ingest, Lexical
<1>11. ASSUME NEW j \in StageJobs, SetIngestWindow(j) PROVE TaskTypes'
  BY <1>11, StageAssumption DEF SetIngestWindow, Goto, TaskTypes, StageSteps, Step, Ingest
<1>12. ASSUME NEW j \in StageJobs, EnqueueNextStage(j) PROVE TaskTypes'
  BY <1>12 DEF EnqueueNextStage, Goto, TaskTypes, StageSteps, Step
<1>13. ASSUME NEW j \in StageJobs, MarkSucceeded(j) PROVE TaskTypes'
  BY <1>13 DEF MarkSucceeded, Goto, TaskTypes, StageSteps, Step
<1> QED
  BY <1>1, <1>5, <1>6, <1>7, <1>8, <1>9, <1>10, <1>11, <1>12, <1>13, TaskFrame DEF TaskNext

LEMMA CountTypesStep ==
  ASSUME TypeInv, [Next]_vars
  PROVE  CountTypes'
<1> USE TypeParts, BoundAssumption DEF CountTypes
<1>1. batchSeq' \in Nat
  <2>1. batchSeq' = batchSeq \/ batchSeq' = batchSeq + 1
    BY CountFrame DEF GrokBegin
  <2> QED
    BY <2>1
<1>2. embedded' \in SUBSET Runs
  BY CountFrame DEF EnqueueEmbedding, StageJobs
<1>3. worked' \in [Runs -> SUBSET Stages]
  BY CountFrame DEF DoWork, StageJobs
<1>4. errors' \in 0..ErrorBound
  BY CountFrame DEF Retryable
<1>5. cancels' \in 0..CancelBound
  BY CountFrame DEF RequestCancel
<1>6. faults' \in 0..FaultBound
  BY CountFrame DEF Fault
<1> QED
  BY <1>1, <1>2, <1>3, <1>4, <1>5, <1>6

LEMMA RunTypesStep ==
  ASSUME TypeInv, [Next]_vars
  PROVE  run' \in [Runs -> RunRow]
<1> USE Tables DEF TypeInv
<1>1. ASSUME NEW a \in Actors, PickNext(a) PROVE run' \in [Runs -> RunRow]
  BY <1>1, MarkRunType DEF PickNext, Open
<1>2. ASSUME NEW a \in Actors, FailActivated(a) PROVE run' \in [Runs -> RunRow]
  BY <1>2, MarkRunType DEF FailActivated, Closed
<1>3. ASSUME NEW g \in Grokmirrors, GrokCreate(g) PROVE run' \in [Runs -> RunRow]
  <2>1. g \in Requests /\ req[g].list \in Lists /\ req[g].batch \in Nat
    BY <1>3 DEF GrokCreate, Requests, CreatesForList, Request
  <2> QED
    BY <1>3, <2>1, InsertRunType DEF GrokCreate, Open
<1>4. ASSUME NEW q \in Syncs, SyncCreate(q) PROVE run' \in [Runs -> RunRow]
  <2>1. req[q].list \in Lists
    BY <1>4 DEF SyncCreate, Requests, CreatesForList
  <2> QED
    BY <1>4, <2>1, InsertRunType DEF SyncCreate, Open, NoBatch
<1>5. ASSUME NEW q \in Syncs, SyncFail(q) PROVE run' \in [Runs -> RunRow]
  BY <1>5, MarkRunType DEF SyncFail, Closed
<1>6. ASSUME NEW w \in Workers, Maintain(w) PROVE run' \in [Runs -> RunRow]
  BY <1>6 DEF Maintain, RunRow, Closed
<1>7. ASSUME NEW j \in StageJobs, SetIngestWindow(j) PROVE run' \in [Runs -> RunRow]
  BY <1>7 DEF SetIngestWindow, RunRow
<1>8. ASSUME NEW j \in StageJobs, SetCurrentStage(j) PROVE run' \in [Runs -> RunRow]
  <2>1. j[2] \in 1..LastStage /\ j[2] < LastStage
    BY <1>8 DEF SetCurrentStage, StageSteps, StageJobs, Stages
  <2>2. j[2] + 1 \in Stages
    BY <2>1, StageAssumption DEF Stages
  <2> QED
    BY <1>8, <2>2 DEF SetCurrentStage, RunRow
<1>9. ASSUME NEW j \in StageJobs, MarkSucceeded(j) \/ CloseRun(j) PROVE run' \in [Runs -> RunRow]
  BY <1>9, MarkRunType DEF MarkSucceeded, CloseRun, Closed
<1> QED
  BY <1>1, <1>2, <1>3, <1>4, <1>5, <1>6, <1>7, <1>8, <1>9, RunFrame

LEMMA LaunchTypesStep ==
  ASSUME TypeInv, [Next]_vars
  PROVE  launch' \in [Actors -> Launch]
<1> USE Tables, Records DEF TypeInv
<1>1. ASSUME NEW a \in Actors, PickNext(a) PROVE launch' \in [Actors -> Launch]
  BY <1>1 DEF PickNext, Activatable, Launch, NoBatch
<1>2. ASSUME NEW a \in Actors, EnqueueIngest(a) \/ LaunchLost(a) PROVE launch' \in [Actors -> Launch]
  BY <1>2 DEF EnqueueIngest, LaunchLost
<1>3. ASSUME NEW a \in Actors, EnqueueIngestFails(a) PROVE launch' \in [Actors -> Launch]
  <2> DEFINE v == [launch[a] EXCEPT !.failed = TRUE]
  <2>1. v \in Launch
    BY ZenonT(40) DEF Launch
  <2>2. launch' = [launch EXCEPT ![a] = v]
    BY <1>3 DEF EnqueueIngestFails
  <2> HIDE DEF v
  <2> QED
    BY <2>1, <2>2
<1>4. ASSUME NEW a \in Actors, FailActivated(a) PROVE launch' \in [Actors -> Launch]
  <2> DEFINE v == [launch[a] EXCEPT !.run = NoRun, !.failed = FALSE]
  <2>1. v \in Launch
    BY ZenonT(40) DEF Launch, NoRun
  <2>2. launch' = [launch EXCEPT ![a] = v]
    BY <1>4 DEF FailActivated
  <2> HIDE DEF v
  <2> QED
    BY <2>1, <2>2
<1>5. ASSUME NEW g \in Grokmirrors, GrokLaunch(g) PROVE launch' \in [Actors -> Launch]
  <2>1. req[g].batch \in Nat
    BY DEF Requests, Request
  <2> QED
    BY <1>5, <2>1 DEF GrokLaunch
<1>6. ASSUME NEW w \in Workers, Maintain(w) PROVE launch' \in [Actors -> Launch]
  BY <1>6 DEF Maintain, NoBatch
<1>7. ASSUME NEW j \in StageJobs, TaskLost(j) PROVE launch' \in [Actors -> Launch]
  BY <1>7 DEF TaskLost
<1>8. ASSUME NEW j \in StageJobs, Continue(j) PROVE launch' \in [Actors -> Launch]
  <2>1. run[j[1]].batch \in Nat
    BY DEF StageJobs, RunRow
  <2> QED
    BY <1>8, <2>1 DEF Continue
<1> QED
  BY <1>1, <1>2, <1>3, <1>4, <1>5, <1>6, <1>7, <1>8, LaunchFrame DEF LaunchNext, MarkSucceeded, CloseRun

LEMMA RequestTypesStep ==
  ASSUME TypeInv, [Next]_vars
  PROVE  RequestTypes'
<1> USE Tables, Records, LimitAssumption DEF TypeInv
\* One request moves.
<1>0. ASSUME NEW q \in Requests, NEW v \in Request, v.pc = "create" => v.list \in Lists,
             req' = [req EXCEPT ![q] = v]
      PROVE  RequestTypes'
  BY <1>0 DEF RequestTypes, CreatesForList
<1>1. CASE UNCHANGED req
  BY <1>1 DEF RequestTypes, CreatesForList
<1>2. ASSUME NEW g \in Grokmirrors, GrokNext(g) PROVE RequestTypes'
  <2>0. g \in Requests /\ req[g] \in Request /\ (req[g].pc = "create" => req[g].list \in Lists)
    BY DEF Requests, CreatesForList
  <2>1. ASSUME NEW p \in {NoRun} \cup Runs, NextList(g, p), req[g].list \in Lists PROVE RequestTypes'
    <3> DEFINE v == [req[g] EXCEPT !.pc = "check", !.list = req[g].list + 1, !.run = p]
    <3>1. req' = [req EXCEPT ![g] = v]
      BY <2>1 DEF NextList
    <3>2. req[g].list + 1 \in 0..ListCount + 1
      BY <2>1 DEF Lists
    <3>3. v \in Request /\ v.pc = "check"
      BY <2>0, <2>1, <3>2 DEF Request
    <3> HIDE DEF v
    <3> QED
      BY <1>0, <2>0, <3>1, <3>3
  <2>2. CASE GrokBegin(g)
    <3> DEFINE v == [req[g] EXCEPT !.pc = "check", !.list = 1, !.batch = batchSeq + 1]
    <3>1. req' = [req EXCEPT ![g] = v]
      BY <2>0, <2>2 DEF GrokBegin
    <3>2. batchSeq + 1 \in Nat /\ 1 \in 0..ListCount + 1
      BY TypeParts DEF CountTypes
    <3>3. v \in Request /\ v.pc = "check"
      BY <2>0, <3>2 DEF Request
    <3> HIDE DEF v
    <3> QED
      BY <1>0, <2>0, <3>1, <3>3
  <2>3. CASE GrokCheck(g)
    <3>1. CASE NextList(g, req[g].run)
      BY <2>0, <2>1, <2>3, <3>1 DEF GrokCheck, Request
    <3>2. CASE req' = [req EXCEPT ![g].pc = "create"]
      <4> DEFINE v == [req[g] EXCEPT !.pc = "create"]
      <4>1. req' = [req EXCEPT ![g] = v]
        BY <2>0, <3>2
      <4>2. v \in Request /\ v.list \in Lists
        BY <2>0, <2>3 DEF Request, GrokCheck
      <4> HIDE DEF v
      <4> QED
        BY <1>0, <2>0, <4>1, <4>2
    <3> QED
      BY <2>3, <3>1, <3>2 DEF GrokCheck
  <2>4. CASE GrokCreate(g)
    <3>1. PICK p \in {NoRun} \cup Runs : NextList(g, p)
      BY <2>4, NewRunType DEF GrokCreate, OpenRuns
    <3> QED
      BY <2>0, <2>1, <2>4, <3>1 DEF GrokCreate
  <2>5. CASE GrokSkip(g)
    BY <2>0, <2>1, <2>5 DEF GrokSkip, Request
  <2>6. CASE GrokLaunch(g)
    BY <1>0, <2>0, <2>6 DEF GrokLaunch
  <2> QED
    BY <1>2, <2>2, <2>3, <2>4, <2>5, <2>6 DEF GrokNext
<1>3. ASSUME NEW q \in Syncs, SyncNext(q) PROVE RequestTypes'
  <2>0. q \in Requests /\ req[q] \in Request
    BY DEF Requests
  <2>1. CASE SyncCheck(q)
    <3>1. PICK l \in Lists : req' = [req EXCEPT ![q] =
            IF OpenRuns(l) = {} THEN [@ EXCEPT !.pc = "create", !.list = l] ELSE Answered]
      BY <2>1 DEF SyncCheck
    <3> DEFINE v == [req[q] EXCEPT !.pc = "create", !.list = l]
    <3>2. req' = [req EXCEPT ![q] = v] \/ req' = [req EXCEPT ![q] = Answered]
      BY <2>0, <3>1
    <3>3. l \in 0..ListCount + 1
      BY DEF Lists
    <3>4. v \in Request /\ v.list = l
      BY <2>0, <3>3 DEF Request
    <3> HIDE DEF v
    <3> QED
      BY <1>0, <2>0, <3>2, <3>4
  <2>2. CASE SyncCreate(q)
    <3>1. PICK r \in Runs : req' = [req EXCEPT ![q] = [@ EXCEPT !.pc = "enqueue", !.run = r]]
      BY <2>2 DEF SyncCreate
    <3> DEFINE v == [req[q] EXCEPT !.pc = "enqueue", !.run = r]
    <3>2. req' = [req EXCEPT ![q] = v] /\ v \in Request /\ v.pc = "enqueue"
      BY <2>0, <3>1 DEF Request
    <3> HIDE DEF v
    <3> QED
      BY <1>0, <2>0, <3>2
  <2>3. CASE SyncEnqueueFails(q)
    <3> DEFINE v == [req[q] EXCEPT !.pc = "fail"]
    <3>2. req' = [req EXCEPT ![q] = v] /\ v \in Request /\ v.pc = "fail"
      BY <2>0, <2>3 DEF SyncEnqueueFails, Request
    <3> HIDE DEF v
    <3> QED
      BY <1>0, <2>0, <3>2
  <2>4. CASE SyncEnqueue(q) \/ SyncFail(q) \/ SyncLost(q)
    BY <1>0, <2>0, <2>4 DEF SyncEnqueue, SyncFail, SyncLost
  <2> QED
    BY <1>3, <2>1, <2>2, <2>3, <2>4 DEF SyncNext
<1> QED
  BY <1>1, <1>2, <1>3, RequestFrame

LEMMA NextType == TypeInv /\ [Next]_vars => TypeInv'
<1> SUFFICES ASSUME TypeInv, [Next]_vars PROVE TypeInv'
  OBVIOUS
<1>1. /\ run' \in [Runs -> RunRow] /\ launch' \in [Actors -> Launch]
      /\ RequestTypes' /\ JobTypes' /\ TaskTypes' /\ CountTypes'
  BY RunTypesStep, LaunchTypesStep, RequestTypesStep, JobTypesStep, TaskTypesStep, CountTypesStep
<1> QED
  BY <1>1
     DEF TypeInv, TypeOK, RunRow, Launch, Request, RequestTypes, JobTypes, TaskTypes, CountTypes

LEMMA TypeInvariant == Spec => []TypeInv
BY InitType, NextType, PTL DEF Spec

\* Every run, job, task, launch and request stays within its type: no job is claimed beyond its
\* attempts, and no stage after the last is recorded.
THEOREM TypeCorrect == Spec => []TypeOK
<1>1. TypeInv => TypeOK
  BY DEF TypeInv
<1> QED
  BY <1>1, TypeInvariant, PTL

-----------------------------------------------------------------------------
(* Jobs and their tasks. *)

Loading == {"load", "load_cancelled"}
Handling == {"work", "window", "enqueue", "stage", "mark", "embed"}

\* A task is as far as the queue says its job is.
TaskMatchesJob ==
  \A j \in StageJobs : /\ job[j] = "taken" <=> at[j] \in Loading
                       /\ job[j] = "executing" <=> at[j] \in Handling
                       /\ at[j] = "finish" => job[j] = "finished" /\ outcome[j] \in Outcome

LEMMA MatchStep ==
  ASSUME TypeInv, TaskMatchesJob, [Next]_vars
  PROVE  TaskMatchesJob'
<1> USE TypeParts DEF Loading, Handling
\* One job and its task move.
<1>0. ASSUME NEW j \in StageJobs,
             \A k \in StageJobs \ {j} : /\ at'[k] = at[k] /\ outcome'[k] = outcome[k]
                                        /\ \/ job'[k] = job[k]
                                           \/ job[k] = "absent" /\ job'[k] = "waiting",
             /\ job'[j] = "taken" <=> at'[j] \in Loading
             /\ job'[j] = "executing" <=> at'[j] \in Handling
             /\ at'[j] = "finish" => job'[j] = "finished" /\ outcome'[j] \in Outcome
      PROVE  TaskMatchesJob'
  BY <1>0 DEF TaskMatchesJob
\* Jobs that nobody has claimed move.
<1>1. ASSUME UNCHANGED taskVars,
             \A k \in StageJobs : job'[k] # job[k] =>
               job[k] \in {"absent", "waiting"} /\ job'[k] \in {"waiting", "cancelled"}
      PROVE  TaskMatchesJob'
  BY <1>1 DEF TaskMatchesJob, taskVars
<1>2. CASE UNCHANGED <<jobVars, taskVars>>
  BY <1>1, <1>2 DEF jobVars
<1>3. ASSUME NEW a \in Actors, EnqueueIngest(a) PROVE TaskMatchesJob'
  BY <1>1, <1>3, EnqueuedMove DEF EnqueueIngest
<1>4. ASSUME NEW q \in Syncs, SyncEnqueue(q) PROVE TaskMatchesJob'
  BY <1>1, <1>4, EnqueuedMove DEF SyncEnqueue
<1>5. ASSUME NEW j \in StageJobs, RequestCancel(j) PROVE TaskMatchesJob'
  BY <1>1, <1>5 DEF RequestCancel, JobTypes
<1>6. ASSUME NEW j \in StageJobs, SweepJob(j) PROVE TaskMatchesJob'
  <2>1. at[j] = "none" /\ UNCHANGED taskVars
    BY <1>6 DEF SweepJob, Busy
  <2>2. job'[j] \in {"waiting", "failed_terminal"} /\ \A k \in StageJobs \ {j} : job'[k] = job[k]
    BY <1>6 DEF SweepJob, JobTypes
  <2> QED
    BY <1>0, <2>1, <2>2 DEF taskVars
<1>7. ASSUME NEW j \in StageJobs, ClaimStage(j) PROVE TaskMatchesJob'
  BY <1>7 DEF ClaimStage, TaskMatchesJob, JobTypes, TaskTypes
<1>8. ASSUME NEW j \in StageJobs, TaskLost(j) PROVE TaskMatchesJob'
  BY <1>0, <1>8 DEF TaskLost, JobTypes, TaskTypes, Held
<1>9. ASSUME NEW j \in StageJobs, NEW o \in Outcome, Return(j, o) PROVE TaskMatchesJob'
  BY <1>0, <1>9 DEF Return, Goto, JobTypes, TaskTypes
<1>10. ASSUME NEW j \in StageJobs, CancelledEarly(j) \/ WorkStops(j) \/ Retryable(j)
                                   \/ SetCurrentStage(j) \/ EnqueueEmbedding(j)
       PROVE  TaskMatchesJob'
  BY <1>9, <1>10
     DEF CancelledEarly, WorkStops, Retryable, SetCurrentStage, EnqueueEmbedding, Outcome
<1>11. ASSUME NEW j \in StageJobs, LoadRun(j) PROVE TaskMatchesJob'
  <2>1. CASE job' = [job EXCEPT ![j] = "executing"] /\ Goto(j, "work") /\ UNCHANGED outcome
    BY <1>0, <2>1 DEF Goto, JobTypes, TaskTypes
  <2>2. CASE \E o \in Outcome : Return(j, o)
    BY <1>9, <2>2
  <2> QED
    BY <1>11, <2>1, <2>2 DEF LoadRun, Outcome
<1>12. ASSUME NEW j \in StageJobs, DoWork(j) \/ SetIngestWindow(j) \/ MarkSucceeded(j) PROVE TaskMatchesJob'
  <2>1. at[j] \in Handling /\ UNCHANGED <<job, outcome>>
    BY <1>12 DEF DoWork, SetIngestWindow, MarkSucceeded, jobVars
  <2>2. PICK p \in Handling : at' = [at EXCEPT ![j] = p]
    BY <1>12 DEF DoWork, SetIngestWindow, MarkSucceeded, Goto
  <2> QED
    BY <2>1, <2>2 DEF TaskMatchesJob, TaskTypes
<1>13. ASSUME NEW j \in StageJobs, EnqueueNextStage(j) PROVE TaskMatchesJob'
  <2>1. at[j] = "enqueue" /\ at' = [at EXCEPT ![j] = "stage"] /\ UNCHANGED outcome
    BY <1>13 DEF EnqueueNextStage, Goto
  <2>2. \A k \in StageJobs : \/ job'[k] = job[k]
                             \/ job[k] = "absent" /\ job'[k] = "waiting"
    BY <1>13, EnqueuedMove DEF EnqueueNextStage
  <2>3. job[j] = "executing" /\ job'[j] = "executing"
    BY <2>1, <2>2 DEF TaskMatchesJob
  <2> QED
    BY <1>0, <2>1, <2>2, <2>3 DEF TaskTypes
<1>14. ASSUME NEW j \in StageJobs, FinalizeJob(j) PROVE TaskMatchesJob'
  <2>1. /\ job'[j] \in {"waiting"} \cup Settled
        /\ \A k \in StageJobs \ {j} : job'[k] = job[k]
    <3>1. \/ job' = [job EXCEPT ![j] = "succeeded"] \/ job' = [job EXCEPT ![j] = "cancelled"]
          \/ job' = [job EXCEPT ![j] = "waiting"] \/ job' = [job EXCEPT ![j] = "failed_terminal"]
      BY <1>14 DEF FinalizeJob
    <3> QED
      BY <3>1 DEF JobTypes, Settled
  <2>2. /\ at'[j] \in {"close", "none"}
        /\ \A k \in StageJobs \ {j} : at'[k] = at[k] /\ outcome'[k] = outcome[k]
    BY <1>14 DEF FinalizeJob, Goto, End, TaskTypes
  <2> QED
    BY <1>0, <2>1, <2>2 DEF Settled
<1>15. ASSUME NEW j \in StageJobs, FinalizeFails(j) \/ CloseRead(j) \/ CloseRun(j) PROVE TaskMatchesJob'
  <2>1. at[j] \in {"finish", "close", "close_mark"} /\ UNCHANGED job
    BY <1>15 DEF FinalizeFails, CloseRead, CloseRun, jobVars
  <2>2. /\ at'[j] \in {"close", "close_mark", "none"}
        /\ \A k \in StageJobs \ {j} : at'[k] = at[k] /\ outcome'[k] = outcome[k]
    BY <1>15 DEF FinalizeFails, CloseRead, CloseRun, Goto, End, TaskTypes
  <2> QED
    BY <1>0, <2>1, <2>2 DEF TaskMatchesJob
<1> QED
  BY <1>2, <1>3, <1>4, <1>5, <1>6, <1>7, <1>8, <1>10, <1>11, <1>12, <1>13, <1>14, <1>15,
     JobFrame, TaskFrame DEF TaskNext

LEMMA MatchInvariant == Spec => []TaskMatchesJob
<1>1. Init => TaskMatchesJob
  BY DEF Init, TaskMatchesJob, Loading, Handling
<1> QED
  BY <1>1, MatchStep, TypeInvariant, PTL DEF Spec

\* What a step may do to a stage's job.
LEMMA JobMoves ==
  ASSUME TypeInv, TaskMatchesJob, [Next]_vars, NEW k \in StageJobs
  PROVE  \/ job'[k] = job[k]
         \/ job[k] = "absent" /\ job'[k] = "waiting"
         \/ job[k] = "waiting" /\ job'[k] \in {"taken", "cancelled"}
         \/ job[k] = "taken" /\ job'[k] \in {"executing", "finished"}
         \/ job[k] = "executing" /\ job'[k] = "finished"
         \/ job[k] = "finished" /\ job'[k] \in {"waiting"} \cup Settled
<1> DEFINE Goal == \/ job'[k] = job[k]
                   \/ job[k] = "absent" /\ job'[k] = "waiting"
                   \/ job[k] = "waiting" /\ job'[k] \in {"taken", "cancelled"}
                   \/ job[k] = "taken" /\ job'[k] \in {"executing", "finished"}
                   \/ job[k] = "executing" /\ job'[k] = "finished"
                   \/ job[k] = "finished" /\ job'[k] \in {"waiting"} \cup Settled
<1> USE TypeParts DEF Loading, Handling
<1>1. ASSUME NEW j, job' = Enqueued(j) PROVE Goal
  BY <1>1, EnqueuedMove
<1>2. ASSUME NEW j \in StageJobs, ClaimStage(j) \/ RequestCancel(j) PROVE Goal
  BY <1>2 DEF ClaimStage, RequestCancel, JobTypes
<1>3. ASSUME NEW j \in StageJobs, TaskLost(j) PROVE Goal
  BY <1>3 DEF TaskLost, JobTypes, Held
<1>4. ASSUME NEW j \in StageJobs, SweepJob(j) PROVE Goal
  BY <1>4 DEF SweepJob, Busy, TaskMatchesJob, JobTypes, Held, Settled
<1>5. ASSUME NEW j \in StageJobs, NEW o, Return(j, o), job[j] \in {"taken", "executing"} PROVE Goal
  BY <1>5 DEF Return, JobTypes
<1>6. ASSUME NEW j \in StageJobs, CancelledEarly(j) \/ WorkStops(j) \/ Retryable(j)
                                  \/ SetCurrentStage(j) \/ EnqueueEmbedding(j)
      PROVE  Goal
  <2>1. job[j] \in {"taken", "executing"}
    BY <1>6
       DEF CancelledEarly, WorkStops, Retryable, SetCurrentStage, EnqueueEmbedding, TaskMatchesJob
  <2> QED
    BY <1>5, <1>6, <2>1 DEF CancelledEarly, WorkStops, Retryable, SetCurrentStage, EnqueueEmbedding
<1>7. ASSUME NEW j \in StageJobs, LoadRun(j) PROVE Goal
  <2>1. job[j] = "taken"
    BY <1>7 DEF LoadRun, TaskMatchesJob
  <2>2. CASE job' = [job EXCEPT ![j] = "executing"]
    BY <2>1, <2>2 DEF JobTypes
  <2> QED
    BY <1>5, <1>7, <2>1, <2>2 DEF LoadRun
<1>8. ASSUME NEW j \in StageJobs, FinalizeJob(j) PROVE Goal
  <2>1. job[j] = "finished"
    BY <1>8 DEF FinalizeJob, TaskMatchesJob
  <2>2. \/ job' = [job EXCEPT ![j] = "succeeded"] \/ job' = [job EXCEPT ![j] = "cancelled"]
        \/ job' = [job EXCEPT ![j] = "waiting"] \/ job' = [job EXCEPT ![j] = "failed_terminal"]
    BY <1>8 DEF FinalizeJob
  <2> QED
    BY <2>1, <2>2 DEF JobTypes, Settled
<1> QED
  BY <1>1, <1>2, <1>3, <1>4, <1>6, <1>7, <1>8, JobFrame
     DEF jobVars, EnqueueIngest, SyncEnqueue, EnqueueNextStage

\* A stage's job moves as JobContract lets the jobs of the queue move: the pipeline relies on no
\* more than JobQueue keeps.
THEOREM PipelineKeepsContract == Spec => KeepsQueueContract
<1>1. Init => Queue!Init
  BY DEF Init, Queue!Init
<1>2. ASSUME TypeInv, TaskMatchesJob, [Next]_vars PROVE [Queue!Next]_job
  <2> SUFFICES ASSUME NEW k \in StageJobs, job'[k] # job[k]
               PROVE  <<job[k], job'[k]>> \in Queue!Moves
    BY DEF Queue!Next
  <2> QED
    BY <1>2, JobMoves
       DEF Settled, Queue!Moves, Queue!Submit, Queue!Take, Queue!Withdraw, Queue!Begin,
           Queue!Finish, Queue!GiveBack, Queue!Settle, Queue!Settled
<1> QED
  BY <1>1, <1>2, TypeInvariant, MatchInvariant, PTL DEF Spec, KeepsQueueContract, Queue!Spec

-----------------------------------------------------------------------------
(* Stages follow each other. *)

\* A stage has a job only when the work of the stages before it was done and, after ingest, the
\* window was set; a task past its work has done it.
StagesInOrder ==
  \A j \in StageJobs :
    /\ job[j] # "absent" => /\ \A t \in Stages : t < j[2] => t \in worked[j[1]]
                            /\ j[2] # Ingest => run[j[1]].window
    /\ at[j] \in {"window", "enqueue", "stage", "mark", "embed"} => j[2] \in worked[j[1]]
    /\ at[j] \in {"enqueue", "stage"} => run[j[1]].window

\* A run that has succeeded has its embedding job, or its last stage is about to enqueue it.
EmbeddingComes ==
  faults = 0 => \A r \in Runs :
    run[r].state = "succeeded" => r \in embedded \/ at[<<r, Lexical>>] = "embed"

\* No statement takes a window away, and only the lexical stage marks a run succeeded.
LEMMA RunMoves ==
  ASSUME TypeInv, [Next]_vars, NEW r \in Runs
  PROVE  /\ run[r].window => run'[r].window
         /\ run'[r].state = "succeeded" =>
              \/ run[r].state = "succeeded"
              \/ \E j \in StageJobs : MarkSucceeded(j) /\ j[1] = r
<1> DEFINE Goal == /\ run[r].window => run'[r].window
                   /\ run'[r].state = "succeeded" =>
                        \/ run[r].state = "succeeded"
                        \/ \E j \in StageJobs : MarkSucceeded(j) /\ j[1] = r
<1> USE Tables DEF TypeInv
<1>1. ASSUME NEW q, NEW s, MarkRun(q, s), s # "succeeded" PROVE Goal
  BY <1>1 DEF MarkRun, RunRow
<1>2. ASSUME NEW l, NEW b, NEW s, InsertRun(l, b, s), s # "succeeded" PROVE Goal
  BY <1>2 DEF InsertRun, RunRow
<1>3. ASSUME NEW w \in Workers, Maintain(w) PROVE Goal
  BY <1>3 DEF Maintain, RunRow
<1>4. ASSUME NEW j \in StageJobs, SetIngestWindow(j) \/ SetCurrentStage(j) PROVE Goal
  BY <1>4 DEF SetIngestWindow, SetCurrentStage, RunRow
<1>5. ASSUME NEW j \in StageJobs, MarkSucceeded(j) PROVE Goal
  BY <1>5 DEF MarkSucceeded, MarkRun, RunRow
<1>6. ASSUME NEW j \in StageJobs, CloseRun(j) PROVE Goal
  BY <1>1, <1>6 DEF CloseRun
<1> QED
  BY <1>1, <1>2, <1>3, <1>4, <1>5, <1>6, RunFrame
     DEF PickNext, FailActivated, GrokCreate, SyncCreate, SyncFail

\* Work that was done stays done, and a stage adds its own.
LEMMA WorkMoves ==
  ASSUME TypeInv, [Next]_vars
  PROVE  /\ \A r \in Runs : worked[r] \subseteq worked'[r]
         /\ \A j \in StageJobs : DoWork(j) => j[2] \in worked'[j[1]]
<1>1. worked \in [Runs -> SUBSET Stages]
  BY TypeParts DEF CountTypes
<1>2. \A j \in StageJobs : j[1] \in Runs
  BY DEF StageJobs
<1>3. \A r \in Runs : worked[r] \subseteq worked'[r]
  BY <1>1, <1>2, CountFrame DEF DoWork
<1> QED
  BY <1>1, <1>2, <1>3 DEF DoWork

\* A job enters the queue from the launch of its run, a request or the stage before it.
LEMMA NewJobs ==
  ASSUME TypeInv, TaskMatchesJob, [Next]_vars, NEW k \in StageJobs,
         job[k] = "absent", job'[k] # "absent"
  PROVE  \/ \E a \in Actors : EnqueueIngest(a) /\ k = <<launch[a].run, Ingest>> /\ k[2] = Ingest
         \/ \E q \in Syncs : SyncEnqueue(q) /\ k = <<req[q].run, Ingest>> /\ k[2] = Ingest
         \/ \E j \in StageJobs : EnqueueNextStage(j) /\ k = <<j[1], j[2] + 1>>
<1> USE TypeParts
<1>1. ASSUME NEW i, job' = Enqueued(i) PROVE k = i
  BY <1>1, EnqueuedMove
<1>2. ASSUME NEW j \in StageJobs, ClaimStage(j) \/ RequestCancel(j) \/ TaskLost(j) \/ SweepJob(j)
      PROVE  FALSE
  BY <1>2 DEF ClaimStage, RequestCancel, TaskLost, SweepJob, Held, JobTypes
<1>3. ASSUME NEW j \in StageJobs, NEW s, job[j] # "absent", job' = [job EXCEPT ![j] = s]
      PROVE  FALSE
  BY <1>3 DEF JobTypes
<1>4. ASSUME NEW j \in StageJobs, CancelledEarly(j) \/ LoadRun(j) \/ WorkStops(j) \/ Retryable(j)
                 \/ SetCurrentStage(j) \/ EnqueueEmbedding(j)
      PROVE  FALSE
  <2>1. job[j] # "absent"
    BY <1>4 DEF CancelledEarly, LoadRun, WorkStops, Retryable, SetCurrentStage, EnqueueEmbedding,
                TaskMatchesJob, Loading, Handling
  <2> QED
    BY <1>3, <1>4, <2>1
       DEF CancelledEarly, LoadRun, WorkStops, Retryable, SetCurrentStage, EnqueueEmbedding, Return
<1>5. ASSUME NEW j \in StageJobs, FinalizeJob(j) PROVE FALSE
  <2>1. job[j] # "absent"
    BY <1>5 DEF FinalizeJob, TaskMatchesJob
  <2> QED
    BY <1>3, <1>5, <2>1 DEF FinalizeJob
<1>6. ASSUME NEW a \in Actors, EnqueueIngest(a) PROVE k = <<launch[a].run, Ingest>> /\ k[2] = Ingest
  BY <1>1, <1>6 DEF EnqueueIngest
<1>7. ASSUME NEW q \in Syncs, SyncEnqueue(q) PROVE k = <<req[q].run, Ingest>> /\ k[2] = Ingest
  BY <1>1, <1>7 DEF SyncEnqueue
<1>8. ASSUME NEW j \in StageJobs, EnqueueNextStage(j) PROVE k = <<j[1], j[2] + 1>>
  BY <1>1, <1>8 DEF EnqueueNextStage
<1>9. job' # job
  OBVIOUS
<1> QED
  BY <1>2, <1>4, <1>5, <1>6, <1>7, <1>8, <1>9, JobFrame DEF jobVars

LEMMA OrderStep ==
  ASSUME TypeInv, TaskMatchesJob, StagesInOrder, [Next]_vars
  PROVE  StagesInOrder'
<1> SUFFICES ASSUME NEW k \in StageJobs
             PROVE  /\ job'[k] # "absent" => /\ \A t \in Stages : t < k[2] => t \in worked'[k[1]]
                                             /\ k[2] # Ingest => run'[k[1]].window
                    /\ at'[k] \in {"window", "enqueue", "stage", "mark", "embed"} =>
                         k[2] \in worked'[k[1]]
                    /\ at'[k] \in {"enqueue", "stage"} => run'[k[1]].window
  BY DEF StagesInOrder
<1>0. k[1] \in Runs /\ k[2] \in 1..LastStage /\ \A t \in Stages : t \in Nat
  BY DEF StageJobs, Stages
<1>m. /\ worked[k[1]] \subseteq worked'[k[1]]
      /\ run[k[1]].window => run'[k[1]].window
  BY <1>0, WorkMoves, RunMoves
<1>1. job'[k] # "absent" => /\ \A t \in Stages : t < k[2] => t \in worked'[k[1]]
                            /\ k[2] # Ingest => run'[k[1]].window
  <2>1. CASE job[k] # "absent"
    BY <1>m, <2>1 DEF StagesInOrder
  <2>2. CASE job[k] = "absent" /\ job'[k] # "absent"
    <3>1. k[2] = Ingest \/ \E j \in StageJobs : at[j] = "enqueue" /\ k = <<j[1], j[2] + 1>>
      BY <2>2, NewJobs DEF EnqueueNextStage
    <3>2. CASE k[2] = Ingest
      BY <1>0, <3>2 DEF Ingest, Stages
    <3>3. ASSUME NEW j \in StageJobs, at[j] = "enqueue", k = <<j[1], j[2] + 1>>
          PROVE  /\ \A t \in Stages : t < k[2] => t \in worked[k[1]]
                 /\ run[k[1]].window
      <4>1. k[1] = j[1] /\ k[2] = j[2] + 1 /\ j[2] \in Nat
        BY <3>3 DEF StageJobs, Stages
      <4>2. job[j] # "absent"
        BY <3>3 DEF TaskMatchesJob, Handling
      <4>3. \A t \in Stages : t < k[2] => t < j[2] \/ t = j[2]
        BY <1>0, <4>1
      <4> QED
        BY <3>3, <4>1, <4>2, <4>3 DEF StagesInOrder
    <3> QED
      BY <1>m, <3>1, <3>2, <3>3
  <2> QED
    BY <2>1, <2>2
<1>2. /\ at'[k] \in {"window", "enqueue", "stage", "mark", "embed"} => k[2] \in worked'[k[1]]
      /\ at'[k] \in {"enqueue", "stage"} => run'[k[1]].window
  <2>1. CASE at'[k] = at[k]
    BY <1>m, <2>1 DEF StagesInOrder
  <2>2. CASE DoWork(k)
    <3>1. k[2] \in worked'[k[1]]
      BY <2>2, WorkMoves
    <3>2. at'[k] = "enqueue" => run[k[1]].window
      <4>1. job[k] # "absent"
        BY <2>2 DEF DoWork, TaskMatchesJob, Handling
      <4>2. k[2] # Ingest => run[k[1]].window
        BY <4>1 DEF StagesInOrder
      <4> QED
        BY <2>2, <4>2, TypeParts DEF DoWork, Goto, TaskTypes
    <3>3. at'[k] # "stage"
      BY <2>2, TypeParts DEF DoWork, Goto, TaskTypes
    <3> QED
      BY <1>m, <3>1, <3>2, <3>3
  <2>3. CASE SetIngestWindow(k)
    <3>1. run'[k[1]].window
      BY <1>0, <2>3, Tables DEF TypeInv, SetIngestWindow, RunRow
    <3>2. k[2] \in worked[k[1]]
      BY <2>3 DEF SetIngestWindow, StagesInOrder
    <3> QED
      BY <1>m, <3>1, <3>2
  <2>4. CASE EnqueueNextStage(k)
    BY <1>m, <2>4 DEF EnqueueNextStage, StagesInOrder
  <2>5. CASE MarkSucceeded(k)
    BY <1>m, <2>5, TypeParts DEF MarkSucceeded, StagesInOrder, Goto, TaskTypes
  <2>6. CASE at'[k] \in {"none", "load", "load_cancelled", "work", "finish", "close", "close_mark"}
    BY <2>6
  <2>7. \/ at'[k] = at[k]
        \/ DoWork(k) \/ SetIngestWindow(k) \/ EnqueueNextStage(k) \/ MarkSucceeded(k)
        \/ at'[k] \in {"none", "load", "load_cancelled", "work", "finish", "close", "close_mark"}
    <3>1. ASSUME NEW j \in StageJobs, NEW p, at' = [at EXCEPT ![j] = p],
                 \/ p \in {"none", "load", "load_cancelled", "work", "finish", "close", "close_mark"}
                 \/ DoWork(j) \/ SetIngestWindow(j) \/ EnqueueNextStage(j) \/ MarkSucceeded(j)
          PROVE  <2>7
      BY <3>1, TypeParts DEF TaskTypes
    <3> QED
      BY <3>1, TaskFrame, ZenonT(40)
         DEF taskVars, ClaimStage, TaskLost, FinalizeFails, TaskNext, CancelledEarly, LoadRun, DoWork,
             WorkStops, Retryable, SetIngestWindow, EnqueueNextStage, SetCurrentStage, MarkSucceeded,
             EnqueueEmbedding, FinalizeJob, CloseRead, CloseRun, Return, Goto, End
  <2> QED
    BY <2>1, <2>2, <2>3, <2>4, <2>5, <2>6, <2>7
<1> QED
  BY <1>1, <1>2

LEMMA OrderInvariant == Spec => []StagesInOrder
<1>1. Init => StagesInOrder
  BY DEF Init, StagesInOrder
<1> QED
  BY <1>1, OrderStep, TypeInvariant, MatchInvariant, PTL DEF Spec

\* A run is marked succeeded when its last stage has done its work, so all have.
LEMMA SucceededStep ==
  ASSUME TypeInv, TaskMatchesJob, StagesInOrder, SucceededRanEveryStage, [Next]_vars
  PROVE  SucceededRanEveryStage'
<1> SUFFICES ASSUME NEW r \in Runs, run'[r].state = "succeeded"
             PROVE  worked'[r] = Stages
  BY DEF SucceededRanEveryStage
<1>1. worked[r] \subseteq worked'[r] /\ worked'[r] \subseteq Stages
  BY WorkMoves, CountTypesStep DEF CountTypes
<1>2. CASE run[r].state = "succeeded"
  BY <1>1, <1>2 DEF SucceededRanEveryStage
<1>3. ASSUME NEW j \in StageJobs, MarkSucceeded(j), j[1] = r
      PROVE  worked'[r] = Stages
  <2>1. at[j] = "mark" /\ j[2] = LastStage
    BY <1>3 DEF MarkSucceeded, TypeInv, StageSteps, Lexical
  <2>2. j[2] \in worked[r] /\ \A t \in Stages : t < j[2] => t \in worked[r]
    BY <1>3, <2>1 DEF StagesInOrder, TaskMatchesJob, Handling
  <2>3. \A t \in Stages : t < LastStage \/ t = LastStage
    BY StageAssumption DEF Stages
  <2> QED
    BY <1>1, <2>1, <2>2, <2>3
<1> QED
  BY <1>2, <1>3, RunMoves

\* The embedding job comes with the success of the run, or after a fault.
LEMMA EmbeddingStep ==
  ASSUME TypeInv, EmbeddingComes, [Next]_vars
  PROVE  EmbeddingComes'
<1> SUFFICES ASSUME faults' = 0, NEW r \in Runs, run'[r].state = "succeeded"
             PROVE  r \in embedded' \/ at'[<<r, Lexical>>] = "embed"
  BY DEF EmbeddingComes
<1> DEFINE k == <<r, Lexical>>
<1>0. k \in StageJobs /\ at \in [StageJobs -> {"none"} \cup Step]
  BY StageAssumption, TypeParts DEF StageJobs, Stages, Lexical, TaskTypes
<1>1. ~Fault /\ faults = 0
  <2>1. faults \in Nat
    BY TypeParts, BoundAssumption DEF CountTypes
  <2>2. ~Fault
    BY <2>1 DEF Fault
  <2> QED
    BY <2>1, <2>2, CountFrame
<1>2. embedded \subseteq embedded'
  BY CountFrame DEF EnqueueEmbedding
<1>3. CASE run[r].state = "succeeded"
  <2>1. r \in embedded \/ at[k] = "embed"
    BY <1>1, <1>3 DEF EmbeddingComes
  <2>2. CASE at[k] = "embed" /\ at'[k] # "embed"
    <3>1. ASSUME NEW j \in StageJobs, NEW p, at' = [at EXCEPT ![j] = p] PROVE j = k
      BY <1>0, <2>2, <3>1
    <3> HIDE DEF k
    <3>2. EnqueueEmbedding(k)
      BY <1>1, <2>2, <3>1, TaskFrame, ZenonT(40)
         DEF taskVars, ClaimStage, Busy, TaskLost, FinalizeFails, TaskNext, CancelledEarly, LoadRun,
             DoWork, WorkStops, Retryable, SetIngestWindow, EnqueueNextStage, SetCurrentStage,
             MarkSucceeded, EnqueueEmbedding, FinalizeJob, CloseRead, CloseRun, Return, Goto, End
    <3>3. k[1] \in embedded'
      BY <1>1, <3>2 DEF EnqueueEmbedding
    <3> QED
      BY <3>3 DEF k
  <2> QED
    BY <1>2, <2>1, <2>2
<1>4. ASSUME NEW j \in StageJobs, MarkSucceeded(j), j[1] = r
      PROVE  at'[k] = "embed"
  <2>1. j[2] = Lexical
    BY <1>4 DEF MarkSucceeded, TypeInv, StageSteps
  <2>2. j = k
    BY <1>4, <2>1 DEF StageJobs
  <2> QED
    BY <1>0, <1>4, <2>2 DEF MarkSucceeded, Goto
<1> QED
  BY <1>3, <1>4, RunMoves

\* Whatever order tasks, retries and faults come in, no stage is started before its run has its
\* window.
THEOREM WindowFound == Spec => []StageFindsWindow
<1>1. StagesInOrder => StageFindsWindow
  BY DEF StagesInOrder, StageFindsWindow
<1> QED
  BY <1>1, OrderInvariant, PTL

\* A run that succeeds has done the work of all its stages.
THEOREM EveryStageRan == Spec => []SucceededRanEveryStage
<1>1. Init => SucceededRanEveryStage
  BY DEF Init, SucceededRanEveryStage
<1> QED
  BY <1>1, SucceededStep, TypeInvariant, MatchInvariant, OrderInvariant, PTL DEF Spec

\* Without a fault every run that succeeds gets its embedding job.
THEOREM EmbeddingEnqueued == Spec => []SucceededIsEmbedded
<1>1. Init => EmbeddingComes
  BY DEF Init, EmbeddingComes
<1>2. EmbeddingComes => SucceededIsEmbedded
  BY DEF EmbeddingComes, SucceededIsEmbedded
<1> QED
  BY <1>1, <1>2, EmbeddingStep, TypeInvariant, PTL DEF Spec

-----------------------------------------------------------------------------
(***************************************************************************)
(* No run is orphaned without faults and cancels, when only grokmirror     *)
(* requests and the sweep open and activate runs: a sync request marks no  *)
(* run running that is pending, so its ingest job may be the second thing  *)
(* that moves a run.                                                       *)
(***************************************************************************)
(* The invariants. *)

Created == {r \in Runs : run[r].state # "absent"}

\* Ids are given out in order.
IdsInOrder == Created = 1..Cardinality(Created)

\* Activated at some time.
Started(r) == run[r].state \in {"running"} \cup Closed

\* A launch belongs to a task that is over or has only its embedding job left, or to a request that
\* has no list to create; the run it activated is its own and has no job yet.
LaunchesApart ==
  /\ \A j \in StageJobs : launch[j] # Idle => at[j] \in {"none", "embed"}
  /\ \A g \in Grokmirrors : req[g].pc # "done" => launch[g] = Idle
  /\ \A a \in Actors : launch[a].run # NoRun =>
       /\ Started(launch[a].run)
       /\ \A s \in Stages : job[<<launch[a].run, s>>] = "absent"
  /\ \A a, b \in Actors : launch[a].run # NoRun /\ launch[a].run = launch[b].run => a = b

\* Jobs are those of started runs, without a gap; a task reports success when its run is closed or the
\* next stage has its job.
Followed(r, s) == s < LastStage /\ job[<<r, s + 1>>] # "absent"
JobsInOrder ==
  \A r \in Runs, s \in Stages :
    /\ job[<<r, s>>] # "absent" =>
         /\ Started(r)
         /\ \A t \in Stages : t < s => job[<<r, t>>] # "absent"
    /\ at[<<r, s>>] # "none" => job[<<r, s>>] # "absent"
    /\ at[<<r, s>>] = "stage" => Followed(r, s)
    /\ at[<<r, s>>] = "embed" => run[r].state \in Closed
    /\ at[<<r, s>>] = "finish" /\ outcome[<<r, s>>] = "success" =>
         run[r].state \in Closed \/ Followed(r, s)

\* Each of the three needs the other two.
LaunchInv == IdsInOrder /\ LaunchesApart /\ JobsInOrder

\* Without a fault a job that is held has its task.
NoTaskLost ==
  faults = 0 => \A j \in StageJobs : job[j] = "finished" => at[j] = "finish"

\* The last job of a run, waiting, held or about to close the run.
Drives(r, s) ==
  /\ job[<<r, s>>] # "absent"
  /\ \A t \in Stages : s < t => job[<<r, t>>] = "absent"
  /\ job[<<r, s>>] \in {"waiting"} \cup Held \/ at[<<r, s>>] \in {"close", "close_mark"}

RunsDriven ==
  faults = 0 /\ cancels = 0 =>
    \A r \in Runs : run[r].state = "running" =>
      \/ \E a \in Actors : launch[a].run = r
      \/ \E s \in Stages : Drives(r, s)

-----------------------------------------------------------------------------
(* What moves in a step. *)

LEMMA NewRunIsNew ==
  ASSUME IdsInOrder, NEW l, NEW b, NEW s, InsertRun(l, b, s)
  PROVE  /\ NewRun \in Runs /\ run[NewRun].state = "absent"
         /\ NewRun = Cardinality(Created) + 1 /\ Cardinality(Created) \in Nat
<1>1. Created \in SUBSET Runs /\ IsFiniteSet(Runs)
  BY BoundAssumption, FS_Interval DEF Created, Runs
<1>2. Cardinality(Created) \in Nat
  BY <1>1, FS_Subset, FS_CardinalityType
<1>3. NewRun \in Runs /\ NewRun = Cardinality(Created) + 1
  BY NewRunType DEF NewRun, Created
<1>4. NewRun \notin Created
  BY <1>2, <1>3 DEF IdsInOrder
<1> QED
  BY <1>2, <1>3, <1>4 DEF Created

\* A run opens as pending, is activated once by whoever launches it, and stays closed.
LEMMA StateMoves ==
  ASSUME Syncs = {}, TypeInv, TaskMatchesJob, LaunchInv, [Next]_vars, NEW r \in Runs
  PROVE  \/ run'[r].state = run[r].state
         \/ /\ run[r].state = "absent" /\ run'[r].state = "pending" /\ r = NewRun
            /\ NewRun = Cardinality(Created) + 1 /\ Cardinality(Created) \in Nat
         \/ run[r].state = "pending" /\ run'[r].state = "cancelled"
         \/ Started(r) /\ run'[r].state \in Closed
         \/ /\ run[r].state = "pending" /\ run'[r].state = "running"
            /\ \E a \in Actors : PickNext(a) /\ launch'[a].run = r
<1> DEFINE Goal ==
         \/ run'[r].state = run[r].state
         \/ /\ run[r].state = "absent" /\ run'[r].state = "pending" /\ r = NewRun
            /\ NewRun = Cardinality(Created) + 1 /\ Cardinality(Created) \in Nat
         \/ run[r].state = "pending" /\ run'[r].state = "cancelled"
         \/ Started(r) /\ run'[r].state \in Closed
         \/ /\ run[r].state = "pending" /\ run'[r].state = "running"
            /\ \E a \in Actors : PickNext(a) /\ launch'[a].run = r
<1> USE Tables DEF TypeInv, LaunchInv
<1>1. ASSUME NEW a \in Actors, PickNext(a) PROVE Goal
  <2>1. CASE UNCHANGED run
    BY <2>1
  <2>2. CASE ~UNCHANGED run
    <3>1. PICK q \in Activatable(launch[a].mode, launch[a].batch) :
            MarkRun(q, "running") /\ launch' = [launch EXCEPT ![a].run = q]
      BY <1>1, <2>2 DEF PickNext
    <3>2. q \in Runs /\ run[q].state = "pending"
      BY <3>1 DEF Activatable
    <3>3. launch'[a].run = q
      BY <3>1, <3>2 DEF Launch
    <3>4. CASE r = q
      <4>1. run'[r].state = "running"
        BY <3>1, <3>4 DEF MarkRun, RunRow
      <4> QED
        BY <1>1, <3>2, <3>3, <3>4, <4>1
    <3>5. CASE r # q
      BY <3>1, <3>5 DEF MarkRun, RunRow
    <3> QED
      BY <3>4, <3>5
  <2> QED
    BY <2>1, <2>2
<1>2. ASSUME NEW q, NEW s \in Closed, MarkRun(q, s), q \in Runs => Started(q) PROVE Goal
  BY <1>2 DEF MarkRun, RunRow
<1>3. ASSUME NEW a \in Actors, FailActivated(a) PROVE Goal
  <2>1. launch[a].run \in {NoRun} \cup Runs
    BY DEF Launch
  <2>2. launch[a].run \in Runs => Started(launch[a].run)
    BY BoundAssumption DEF LaunchesApart, Runs, NoRun
  <2> QED
    BY <1>2, <1>3, <2>2 DEF FailActivated, Closed
<1>4. ASSUME NEW g \in Grokmirrors, GrokCreate(g) PROVE Goal
  <2>1. CASE UNCHANGED run
    BY <2>1
  <2>2. CASE InsertRun(req[g].list, req[g].batch, "pending")
    <3>1. /\ NewRun \in Runs /\ run[NewRun].state = "absent"
          /\ NewRun = Cardinality(Created) + 1 /\ Cardinality(Created) \in Nat
      BY <2>2, NewRunIsNew
    <3>2. run' = [run EXCEPT ![NewRun] =
                    [@ EXCEPT !.state = "pending", !.list = req[g].list, !.batch = req[g].batch]]
      BY <2>2 DEF InsertRun, NewRun
    <3> QED
      BY <3>1, <3>2 DEF RunRow
  <2> QED
    BY <1>4, <2>1, <2>2 DEF GrokCreate
<1>5. ASSUME NEW w \in Workers, Maintain(w) PROVE Goal
  BY <1>5 DEF Maintain, RunRow
<1>6. ASSUME NEW j \in StageJobs, SetIngestWindow(j) \/ SetCurrentStage(j) PROVE Goal
  BY <1>6 DEF SetIngestWindow, SetCurrentStage, RunRow
<1>7. ASSUME NEW j \in StageJobs, MarkSucceeded(j) \/ CloseRun(j) PROVE Goal
  <2>1. Started(j[1])
    <3>1. j = <<j[1], j[2]>> /\ j[1] \in Runs /\ j[2] \in Stages
      BY DEF StageJobs
    <3>2. at[j] # "none"
      BY <1>7 DEF MarkSucceeded, CloseRun
    <3> QED
      BY <3>1, <3>2 DEF JobsInOrder
  <2> QED
    BY <1>2, <1>7, <2>1 DEF MarkSucceeded, CloseRun, Closed
<1> QED
  BY <1>1, <1>3, <1>4, <1>5, <1>6, <1>7, RunFrame

\* Only the task's own steps move it.
LEMMA TaskMoves ==
  ASSUME TypeInv, [Next]_vars, NEW k \in StageJobs
  PROVE  \/ at'[k] = at[k] /\ outcome'[k] = outcome[k]
         \/ ClaimStage(k) \/ TaskLost(k) \/ TaskNext(k) \/ FinalizeFails(k)
<1>1. ASSUME NEW j \in StageJobs, j # k, ClaimStage(j) \/ TaskLost(j) \/ TaskNext(j) \/ FinalizeFails(j)
      PROVE  at'[k] = at[k] /\ outcome'[k] = outcome[k]
  BY <1>1, TypeParts
     DEF TaskTypes, ClaimStage, TaskLost, FinalizeFails, TaskNext, CancelledEarly, LoadRun, DoWork,
         WorkStops, Retryable, SetIngestWindow, EnqueueNextStage, SetCurrentStage, MarkSucceeded,
         EnqueueEmbedding, FinalizeJob, CloseRead, CloseRun, Return, Goto, End
<1> QED
  BY <1>1, TaskFrame DEF taskVars

\* Only its own actor moves a launch.
LEMMA LaunchMoves ==
  ASSUME TypeInv, [Next]_vars, NEW a \in Actors, launch'[a] # launch[a]
  PROVE  \/ launch[a] # Idle /\ LaunchNext(a)
         \/ a \in Grokmirrors /\ GrokLaunch(a) /\ launch'[a].run = NoRun
         \/ a \in Workers /\ launch[a] = Idle /\ launch'[a].run = NoRun
         \/ a \in StageJobs /\ TaskLost(a) /\ launch'[a] = Idle
         \/ a \in StageJobs /\ (MarkSucceeded(a) \/ CloseRun(a)) /\ launch'[a].run = NoRun
<1> DEFINE Goal ==
         \/ launch[a] # Idle /\ LaunchNext(a)
         \/ a \in Grokmirrors /\ GrokLaunch(a) /\ launch'[a].run = NoRun
         \/ a \in Workers /\ launch[a] = Idle /\ launch'[a].run = NoRun
         \/ a \in StageJobs /\ TaskLost(a) /\ launch'[a] = Idle
         \/ a \in StageJobs /\ (MarkSucceeded(a) \/ CloseRun(a)) /\ launch'[a].run = NoRun
<1> USE Tables, Records DEF TypeInv
<1>1. ASSUME NEW b \in Actors, LaunchNext(b) PROVE Goal
  <2>1. b = a
    BY <1>1 DEF LaunchNext, PickNext, EnqueueIngest, EnqueueIngestFails, FailActivated, LaunchLost
  <2>2. launch[b] # Idle
    BY <1>1 DEF LaunchNext, PickNext, EnqueueIngest, EnqueueIngestFails, FailActivated, LaunchLost
  <2> QED
    BY <1>1, <2>1, <2>2
<1>2. ASSUME NEW g \in Grokmirrors, GrokLaunch(g) PROVE Goal
  <2>1. req[g].batch \in Nat
    BY DEF Requests, Request
  <2>2. g = a /\ launch'[a] = Launching("batch", req[g].batch)
    BY <1>2, <2>1 DEF GrokLaunch
  <2> QED
    BY <1>2, <2>1, <2>2
<1>3. ASSUME NEW w \in Workers, Maintain(w) PROVE Goal
  BY <1>3 DEF Maintain, NoBatch
<1>4. ASSUME NEW j \in StageJobs, TaskLost(j) PROVE Goal
  BY <1>4 DEF TaskLost
<1>5. ASSUME NEW j \in StageJobs, MarkSucceeded(j) \/ CloseRun(j) PROVE Goal
  <2>1. run[j[1]].batch \in Nat /\ Continue(j)
    BY <1>5 DEF StageJobs, RunRow, MarkSucceeded, CloseRun
  <2>2. j = a /\ launch'[a] = Launching("batch", run[j[1]].batch)
    BY <2>1 DEF Continue
  <2> QED
    BY <1>5, <2>1, <2>2
<1> QED
  BY <1>1, <1>2, <1>3, <1>4, <1>5, LaunchFrame

\* Which run a launch has in hand changes when it picks one or lets it go.
LEMMA LaunchRuns ==
  ASSUME TypeInv, [Next]_vars, NEW a \in Actors
  PROVE  \/ launch'[a].run = launch[a].run
         \/ launch'[a].run = NoRun
         \/ PickNext(a) /\ launch'[a].run \in Runs /\ run[launch'[a].run].state = "pending"
                        /\ run'[launch'[a].run].state = "running"
<1> USE Tables, Records DEF TypeInv
<1>1. CASE LaunchNext(a)
  <2>1. CASE PickNext(a)
    <3>1. CASE UNCHANGED run
      <4>1. \/ launch'[a].run = NoRun
            \/ \E q \in Runs : run[q].state = "pending" /\ MarkRun(q, "running")
        BY <2>1 DEF PickNext, NoBatch, Activatable
      <4>2. ASSUME NEW q \in Runs, run[q].state = "pending", MarkRun(q, "running") PROVE FALSE
        BY <3>1, <4>2 DEF MarkRun, RunRow
      <4> QED
        BY <4>1, <4>2
    <3>2. CASE ~UNCHANGED run
      <4>1. PICK q \in Activatable(launch[a].mode, launch[a].batch) :
              MarkRun(q, "running") /\ launch' = [launch EXCEPT ![a].run = q]
        BY <2>1, <3>2 DEF PickNext
      <4>2. q \in Runs /\ run[q].state = "pending" /\ launch'[a].run = q
        BY <4>1 DEF Activatable, Launch
      <4>3. run'[q].state = "running"
        BY <4>1, <4>2 DEF MarkRun, RunRow
      <4> QED
        BY <2>1, <4>2, <4>3
    <3> QED
      BY <3>1, <3>2
  <2>2. CASE EnqueueIngest(a) \/ LaunchLost(a)
    BY <2>2 DEF EnqueueIngest, LaunchLost
  <2>3. CASE EnqueueIngestFails(a)
    BY <2>3 DEF EnqueueIngestFails, Launch
  <2>4. CASE FailActivated(a)
    BY <2>4 DEF FailActivated, Launch
  <2> QED
    BY <1>1, <2>1, <2>2, <2>3, <2>4 DEF LaunchNext
<1> QED
  BY <1>1, LaunchMoves

LEMMA IdsStep ==
  ASSUME Syncs = {}, TypeInv, TaskMatchesJob, LaunchInv, [Next]_vars
  PROVE  IdsInOrder'
<1>1. Created \subseteq Created'
  BY StateMoves DEF Created, Started, Closed
<1>2. CASE Created' = Created
  BY <1>2 DEF LaunchInv, IdsInOrder
<1>3. CASE Created' # Created
  <2>1. PICK r \in Runs : r \in Created' /\ r \notin Created
    BY <1>1, <1>3 DEF Created
  <2>2. NewRun = Cardinality(Created) + 1 /\ Cardinality(Created) \in Nat
    BY <2>1, StateMoves DEF Created, Started, Closed
  <2>3. \A q \in Created' : q \in Created \/ q = NewRun
    BY StateMoves DEF Created, Started, Closed
  <2>4. NewRun \in Created'
    BY <2>1, <2>3
  <2>5. Created' = 1..(Cardinality(Created) + 1)
    <3>1. Created = 1..Cardinality(Created)
      BY DEF LaunchInv, IdsInOrder
    <3>2. Created' = Created \cup {Cardinality(Created) + 1}
      BY <1>1, <2>2, <2>3, <2>4
    <3> DEFINE n == Cardinality(Created)
    <3>3. n \in Nat => (1..n) \cup {n + 1} = 1..(n + 1)
      OBVIOUS
    <3> QED
      BY <2>2, <3>1, <3>2, <3>3
  <2>6. Cardinality(1..(Cardinality(Created) + 1)) = Cardinality(Created) + 1
    BY <2>2, FS_Interval
  <2> QED
    BY <2>5, <2>6 DEF IdsInOrder
<1> QED
  BY <1>2, <1>3

LEMMA LaunchesStep ==
  ASSUME Syncs = {}, TypeInv, TaskMatchesJob, LaunchInv, [Next]_vars
  PROVE  LaunchesApart'
<1> USE DEF LaunchInv
<1>0. \A a \in Actors : launch[a].run \in {NoRun} \cup Runs
  BY Tables DEF TypeInv, Launch
<1>1. ASSUME NEW j \in StageJobs, launch'[j] # Idle PROVE at'[j] \in {"none", "embed"}
  <2>1. j \in Actors /\ j \notin Grokmirrors /\ j \notin Workers
    BY ActorsAssumption DEF Actors, Requests
  <2>2. CASE MarkSucceeded(j) \/ CloseRun(j)
    BY <2>2, TypeParts DEF MarkSucceeded, CloseRun, Goto, End, TaskTypes
  <2>3. CASE launch[j] # Idle
    <3>1. at[j] \in {"none", "embed"}
      BY <2>3 DEF LaunchesApart
    <3>2. at'[j] = at[j] \/ TaskLost(j)
      BY <2>3, <3>1, TaskMoves
         DEF ClaimStage, Busy, TaskNext, FinalizeFails, CancelledEarly, LoadRun, DoWork, WorkStops,
             Retryable, SetIngestWindow, EnqueueNextStage, SetCurrentStage, MarkSucceeded,
             EnqueueEmbedding, FinalizeJob, CloseRead, CloseRun
    <3>3. TaskLost(j) => at'[j] = "none"
      BY TypeParts DEF TaskLost, TaskTypes
    <3> QED
      BY <3>1, <3>2, <3>3
  <2> QED
    BY <1>1, <2>1, <2>2, <2>3, LaunchMoves
<1>2. ASSUME NEW g \in Grokmirrors, req'[g].pc # "done" PROVE launch'[g] = Idle
  <2>1. g \in Actors /\ g \notin StageJobs /\ g \notin Workers
    BY ActorsAssumption DEF Actors, Requests
  <2>2. ASSUME GrokLaunch(g) PROVE FALSE
    BY <1>2, <2>2, Tables, Records DEF TypeInv, GrokLaunch, Requests
  <2>3. req[g].pc # "done"
    <3>1. ASSUME NEW h \in Grokmirrors, GrokNext(h) PROVE h # g => req'[g] = req[g]
      BY <3>1, Tables DEF TypeInv, Requests, GrokNext, GrokBegin, GrokCheck, GrokCreate, GrokSkip,
                          GrokLaunch, NextList
    <3>2. req'[g] = req[g] \/ GrokNext(g)
      BY <3>1, RequestFrame
    <3>3. GrokNext(g) => req[g].pc # "done"
      BY DEF GrokNext, GrokBegin, GrokCheck, GrokCreate, GrokSkip, GrokLaunch
    <3> QED
      BY <1>2, <3>2, <3>3
  <2>4. launch[g] = Idle
    BY <2>3 DEF LaunchesApart
  <2> QED
    BY <2>1, <2>2, <2>4, LaunchMoves
<1>3. ASSUME NEW a \in Actors, launch'[a].run # NoRun
      PROVE  /\ run'[launch'[a].run].state \in {"running"} \cup Closed
             /\ \A s \in Stages : job'[<<launch'[a].run, s>>] = "absent"
  <2> DEFINE r == launch'[a].run
  <2>1. CASE launch[a].run = r
    <3>1. r \in Runs /\ Started(r) /\ \A s \in Stages : job[<<r, s>>] = "absent"
      BY <1>0, <1>3, <2>1 DEF LaunchesApart
    <3>2. run'[r].state \in {"running"} \cup Closed
      BY <3>1, StateMoves DEF Started, Closed
    <3>3. ASSUME NEW s \in Stages, job'[<<r, s>>] # "absent" PROVE FALSE
      <4> DEFINE k == <<r, s>>
      <4>1. k \in StageJobs /\ k[1] = r /\ k[2] = s /\ job[k] = "absent"
        BY <3>1 DEF StageJobs
      <4>2. ASSUME NEW b \in Actors, EnqueueIngest(b), k = <<launch[b].run, Ingest>> PROVE FALSE
        <5>1. launch[b].run = r
          BY <4>2
        <5>2. b = a
          BY <1>3, <2>1, <5>1 DEF LaunchesApart
        <5>3. launch'[a] = Idle
          BY <4>2, <5>2, Tables DEF TypeInv, EnqueueIngest
        <5> QED
          BY <1>3, <5>3, Records
      <4>3. ASSUME NEW j \in StageJobs, EnqueueNextStage(j), k = <<j[1], j[2] + 1>> PROVE FALSE
        <5>1. j = <<r, j[2]>> /\ j[2] \in Stages
          BY <4>3 DEF StageJobs
        <5>2. job[j] = "absent"
          BY <3>1, <5>1
        <5>3. at[j] \in Handling
          BY <4>3 DEF EnqueueNextStage, Handling
        <5> QED
          BY <5>2, <5>3 DEF TaskMatchesJob
      <4> HIDE DEF k
      <4> QED
        BY <3>3, <4>1, <4>2, <4>3, NewJobs DEF k
    <3> QED
      BY <3>2, <3>3
  <2>2. CASE PickNext(a) /\ r \in Runs /\ run[r].state = "pending" /\ run'[r].state = "running"
    <3>1. ~Started(r) /\ run'[r].state \in {"running"} \cup Closed
      BY <2>2 DEF Started, Closed
    <3>2. \A s \in Stages : job[<<r, s>>] = "absent"
      BY <2>2, <3>1 DEF JobsInOrder
    <3>3. job' = job
      BY <2>2 DEF PickNext, jobVars
    <3> QED
      BY <3>1, <3>2, <3>3
  <2> QED
    BY <1>3, <2>1, <2>2, LaunchRuns
<1>4. ASSUME NEW a \in Actors, NEW b \in Actors, launch'[a].run # NoRun,
             launch'[a].run = launch'[b].run, a # b
      PROVE  FALSE
  \* A run that one of them has just picked was pending, so the other has not got it.
  <2>1. ASSUME NEW c \in Actors, NEW d \in Actors, c # d, launch'[c].run = launch'[d].run,
               launch'[c].run # NoRun, launch'[c].run # launch[c].run
        PROVE  FALSE
    <3>1. PickNext(c) /\ launch'[c].run \in Runs /\ run[launch'[c].run].state = "pending"
      BY <2>1, LaunchRuns
    <3>2. launch'[d] = launch[d]
      BY <2>1, <3>1, Tables DEF TypeInv, PickNext
    <3>3. Started(launch'[d].run)
      BY <2>1, <3>2 DEF LaunchesApart
    <3> QED
      BY <2>1, <3>1, <3>3 DEF Started, Closed
  <2>2. launch'[a].run = launch[a].run /\ launch'[b].run = launch[b].run
    BY <1>4, <2>1
  <2> QED
    BY <1>4, <2>2 DEF LaunchesApart
<1> QED
  BY <1>1, <1>2, <1>3, <1>4 DEF LaunchesApart, Started

LEMMA JobsStep ==
  ASSUME Syncs = {}, TypeInv, TaskMatchesJob, LaunchInv, [Next]_vars
  PROVE  JobsInOrder'
<1> USE DEF LaunchInv
<1> SUFFICES ASSUME NEW r \in Runs, NEW s \in Stages
    PROVE  /\ job'[<<r, s>>] # "absent" =>
                /\ run'[r].state \in {"running"} \cup Closed
                /\ \A t \in Stages : t < s => job'[<<r, t>>] # "absent"
           /\ at'[<<r, s>>] # "none" => job'[<<r, s>>] # "absent"
           /\ at'[<<r, s>>] = "stage" => Followed(r, s)'
           /\ at'[<<r, s>>] = "embed" => run'[r].state \in Closed
           /\ at'[<<r, s>>] = "finish" /\ outcome'[<<r, s>>] = "success" =>
                run'[r].state \in Closed \/ Followed(r, s)'
  BY DEF JobsInOrder, Started
<1> DEFINE k == <<r, s>>
<1>0. k \in StageJobs /\ k[1] = r /\ k[2] = s /\ s \in 1..LastStage
  BY DEF StageJobs, Stages
<1>a. \A j \in StageJobs : job[j] # "absent" => job'[j] # "absent"
  BY JobMoves DEF Settled
<1>b. /\ Started(r) => run'[r].state \in {"running"} \cup Closed
      /\ run[r].state \in Closed => run'[r].state \in Closed
  BY StateMoves DEF Started, Closed
<1>c. Followed(r, s) => Followed(r, s)'
  <2>1. s < LastStage => <<r, s + 1>> \in StageJobs
    BY <1>0, StageAssumption DEF StageJobs, Stages
  <2> QED
    BY <1>a, <2>1 DEF Followed
<1>d. \/ at'[k] = at[k] /\ outcome'[k] = outcome[k]
      \/ ClaimStage(k) \/ TaskLost(k) \/ TaskNext(k) \/ FinalizeFails(k)
  BY <1>0, TaskMoves
<1> USE TypeParts
<1> HIDE DEF k
<1>1. ASSUME job'[k] # "absent"
      PROVE  /\ run'[r].state \in {"running"} \cup Closed
             /\ \A t \in Stages : t < s => job'[<<r, t>>] # "absent"
  <2>1. CASE job[k] # "absent"
    BY <1>a, <1>b, <2>1 DEF JobsInOrder, StageJobs, k
  <2>2. CASE job[k] = "absent"
    <3>1. ASSUME NEW a \in Actors, EnqueueIngest(a), k = <<launch[a].run, Ingest>>
          PROVE  Started(r) /\ ~\E t \in Stages : t < s
      BY <1>0, <3>1 DEF EnqueueIngest, LaunchesApart, Stages, Ingest, k
    <3>2. ASSUME NEW j \in StageJobs, EnqueueNextStage(j), k = <<j[1], j[2] + 1>>
          PROVE  Started(r) /\ \A t \in Stages : t < s => job'[<<r, t>>] # "absent"
      <4>1. j = <<r, j[2]>> /\ j[2] \in Stages /\ s = j[2] + 1
        BY <1>0, <3>2 DEF StageJobs
      <4>2. job[j] # "absent"
        BY <3>2 DEF EnqueueNextStage, TaskMatchesJob, Handling
      <4>3. Started(r) /\ \A t \in Stages : t < j[2] => job[<<r, t>>] # "absent"
        BY <4>1, <4>2 DEF JobsInOrder
      <4>4. \A t \in Stages : t < s => t < j[2] \/ t = j[2]
        BY <4>1 DEF Stages
      <4>5. \A t \in Stages : t < s => job[<<r, t>>] # "absent" /\ <<r, t>> \in StageJobs
        BY <4>1, <4>2, <4>3, <4>4 DEF StageJobs
      <4> QED
        BY <1>a, <4>3, <4>5
    <3> QED
      BY <1>0, <1>1, <1>b, <2>2, <3>1, <3>2, NewJobs
  <2> QED
    BY <2>1, <2>2
<1>2. at'[k] # "none" => job'[k] # "absent"
  <2>1. at[k] # "none" => job[k] # "absent"
    BY DEF JobsInOrder, k
  <2>2. ClaimStage(k) => job[k] # "absent"
    BY DEF ClaimStage
  <2>3. TaskLost(k) => at'[k] = "none"
    BY <1>0 DEF TaskLost, TaskTypes
  <2>4. TaskNext(k) \/ FinalizeFails(k) => at[k] # "none"
    BY DEF TaskNext, FinalizeFails, CancelledEarly, LoadRun, DoWork, WorkStops, Retryable,
           SetIngestWindow, EnqueueNextStage, SetCurrentStage, MarkSucceeded, EnqueueEmbedding,
           FinalizeJob, CloseRead, CloseRun
  <2> QED
    BY <1>0, <1>a, <1>d, <2>1, <2>2, <2>3, <2>4
\* A task comes to these steps from one place each.
<1>3. /\ at'[k] = "stage" /\ at[k] # "stage" => EnqueueNextStage(k)
      /\ at'[k] = "embed" /\ at[k] # "embed" => MarkSucceeded(k)
      /\ at'[k] = "finish" /\ outcome'[k] = "success" =>
           \/ at[k] = "finish" /\ outcome[k] = "success"
           \/ LoadRun(k) /\ run[r].state # "running"
           \/ SetCurrentStage(k) \/ EnqueueEmbedding(k)
  <2>1. CASE ClaimStage(k) \/ TaskLost(k) \/ FinalizeFails(k)
    BY <1>0, <2>1 DEF ClaimStage, TaskLost, FinalizeFails, Goto, End, TaskTypes
  <2>2. CASE CancelledEarly(k) \/ WorkStops(k) \/ Retryable(k)
    BY <1>0, <2>2 DEF CancelledEarly, WorkStops, Retryable, Return, Goto, TaskTypes
  <2>3. CASE LoadRun(k)
    BY <1>0, <2>3 DEF LoadRun, Return, Goto, TaskTypes
  <2>4. CASE DoWork(k) \/ SetIngestWindow(k) \/ EnqueueNextStage(k) \/ MarkSucceeded(k)
    BY <1>0, <2>4 DEF DoWork, SetIngestWindow, EnqueueNextStage, MarkSucceeded, Goto, TaskTypes
  <2>5. CASE SetCurrentStage(k) \/ EnqueueEmbedding(k)
    BY <1>0, <2>5 DEF SetCurrentStage, EnqueueEmbedding, Return, Goto, TaskTypes
  <2>6. CASE FinalizeJob(k) \/ CloseRead(k) \/ CloseRun(k)
    BY <1>0, <2>6 DEF FinalizeJob, CloseRead, CloseRun, Goto, End, TaskTypes
  <2> QED
    BY <1>d, <2>1, <2>2, <2>3, <2>4, <2>5, <2>6 DEF TaskNext
<1>4. at'[k] = "stage" => Followed(r, s)'
  <2>1. CASE at[k] = "stage"
    BY <1>c, <2>1 DEF JobsInOrder, k
  <2>2. CASE EnqueueNextStage(k)
    <3>1. s < LastStage
      BY <1>0, <2>2 DEF EnqueueNextStage, TaskTypes, StageSteps
    <3>2. <<r, s + 1>> \in StageJobs
      BY <1>0, <3>1, StageAssumption DEF StageJobs, Stages
    <3>3. job'[<<r, s + 1>>] # "absent"
      BY <1>0, <2>2, <3>2 DEF EnqueueNextStage, Enqueued, JobTypes
    <3> QED
      BY <3>1, <3>3 DEF Followed
  <2> QED
    BY <1>3, <2>1, <2>2
<1>5. at'[k] = "embed" => run'[r].state \in Closed
  <2>1. CASE at[k] = "embed"
    BY <1>b, <2>1 DEF JobsInOrder, k
  <2>2. CASE MarkSucceeded(k)
    BY <1>0, <2>2, Tables DEF TypeInv, MarkSucceeded, MarkRun, RunRow, Closed
  <2> QED
    BY <1>3, <2>1, <2>2
<1>6. ASSUME at'[k] = "finish", outcome'[k] = "success"
      PROVE  run'[r].state \in Closed \/ Followed(r, s)'
  <2>1. CASE at[k] = "finish" /\ outcome[k] = "success"
    BY <1>b, <1>c, <2>1 DEF JobsInOrder, k
  <2>2. CASE LoadRun(k) /\ run[r].state # "running"
    <3>1. Started(r)
      BY <2>2 DEF LoadRun, JobsInOrder, k
    <3> QED
      BY <1>b, <2>2, <3>1 DEF Started
  <2>3. CASE SetCurrentStage(k)
    BY <1>c, <2>3 DEF SetCurrentStage, JobsInOrder, k
  <2>4. CASE EnqueueEmbedding(k)
    BY <1>b, <2>4 DEF EnqueueEmbedding, JobsInOrder, k
  <2> QED
    BY <1>3, <1>6, <2>1, <2>2, <2>3, <2>4
<1> QED
  BY <1>1, <1>2, <1>4, <1>5, <1>6 DEF k

LEMMA LaunchInvariant == Syncs = {} /\ Spec => []LaunchInv
<1> SUFFICES ASSUME Syncs = {} PROVE Spec => []LaunchInv
  OBVIOUS
<1>1. Init => LaunchInv
  <2> SUFFICES ASSUME Init PROVE LaunchInv
    OBVIOUS
  <2>1. Created = {}
    BY DEF Init, Created
  <2>2. IdsInOrder
    <3>1. 1..0 = {}
      OBVIOUS
    <3> QED
      BY <2>1, <3>1, FS_EmptySet DEF IdsInOrder
  <2>3. LaunchesApart
    BY Records DEF Init, LaunchesApart, Actors, Requests
  <2>4. JobsInOrder
    BY DEF Init, JobsInOrder, StageJobs
  <2> QED
    BY <2>2, <2>3, <2>4 DEF LaunchInv
<1>2. TypeInv /\ TaskMatchesJob /\ LaunchInv /\ [Next]_vars => LaunchInv'
  BY IdsStep, LaunchesStep, JobsStep DEF LaunchInv
<1> QED
  BY <1>1, <1>2, TypeInvariant, MatchInvariant, PTL DEF Spec

-----------------------------------------------------------------------------
(* Something moves each running run. *)

LEMMA FaultFree ==
  ASSUME TypeInv, [Next]_vars, faults' = 0
  PROVE  ~Fault /\ faults = 0
<1>1. faults \in Nat
  BY TypeParts, BoundAssumption DEF CountTypes
<1>2. ~Fault
  BY <1>1 DEF Fault
<1> QED
  BY <1>1, <1>2, CountFrame

LEMMA TaskLostStep ==
  ASSUME TypeInv, TaskMatchesJob, NoTaskLost, [Next]_vars
  PROVE  NoTaskLost'
<1> SUFFICES ASSUME faults' = 0, NEW k \in StageJobs, job'[k] = "finished"
             PROVE  at'[k] = "finish"
  BY DEF NoTaskLost
<1>1. ~Fault /\ faults = 0
  BY FaultFree
<1> USE TypeParts
<1>2. CASE job[k] = "finished"
  <2>1. at[k] = "finish"
    BY <1>1, <1>2 DEF NoTaskLost
  <2>2. CASE at'[k] = at[k]
    BY <2>1, <2>2
  <2>3. CASE at'[k] # at[k]
    <3>1. FinalizeJob(k)
      BY <1>1, <2>1, <2>3, TaskMoves
         DEF ClaimStage, Busy, TaskLost, TaskNext, FinalizeFails, CancelledEarly, LoadRun, DoWork,
             WorkStops, Retryable, SetIngestWindow, EnqueueNextStage, SetCurrentStage,
             MarkSucceeded, EnqueueEmbedding, CloseRead, CloseRun
    <3>2. \/ job' = [job EXCEPT ![k] = "succeeded"] \/ job' = [job EXCEPT ![k] = "cancelled"]
          \/ job' = [job EXCEPT ![k] = "waiting"] \/ job' = [job EXCEPT ![k] = "failed_terminal"]
      BY <3>1 DEF FinalizeJob
    <3> QED
      BY <1>2, <3>2 DEF JobTypes
  <2> QED
    BY <2>2, <2>3
<1>3. CASE job[k] # "finished"
  <2>1. ASSUME NEW j \in StageJobs, NEW o, Return(j, o) PROVE at'[k] = "finish"
    BY <1>3, <2>1 DEF Return, Goto, JobTypes, TaskTypes
  <2>2. ASSUME NEW i, job' = Enqueued(i) PROVE FALSE
    BY <1>3, <2>2, EnqueuedMove
  <2>3. ASSUME NEW j \in StageJobs, NEW s, s # "finished", job' = [job EXCEPT ![j] = s] PROVE FALSE
    BY <1>3, <2>3 DEF JobTypes
  <2>4. ASSUME NEW j \in StageJobs, ClaimStage(j) \/ RequestCancel(j) \/ SweepJob(j) PROVE FALSE
    BY <1>3, <2>3, <2>4 DEF ClaimStage, RequestCancel, SweepJob
  <2>5. ASSUME NEW j \in StageJobs, TaskLost(j) PROVE FALSE
    BY <1>1, <2>5 DEF TaskLost
  <2>6. ASSUME NEW j \in StageJobs, CancelledEarly(j) \/ WorkStops(j) \/ Retryable(j) \/ LoadRun(j)
                                    \/ SetCurrentStage(j) \/ EnqueueEmbedding(j)
        PROVE  at'[k] = "finish"
    BY <2>1, <2>3, <2>6
       DEF CancelledEarly, WorkStops, Retryable, LoadRun, SetCurrentStage, EnqueueEmbedding
  <2>7. ASSUME NEW j \in StageJobs, FinalizeJob(j) PROVE FALSE
    <3>1. \/ job' = [job EXCEPT ![j] = "succeeded"] \/ job' = [job EXCEPT ![j] = "cancelled"]
          \/ job' = [job EXCEPT ![j] = "waiting"] \/ job' = [job EXCEPT ![j] = "failed_terminal"]
      BY <2>7 DEF FinalizeJob
    <3> QED
      BY <2>3, <3>1
  <2>8. job' # job
    BY <1>3
  <2> QED
    BY <2>2, <2>4, <2>5, <2>6, <2>7, <2>8, JobFrame
       DEF jobVars, EnqueueIngest, SyncEnqueue, EnqueueNextStage
<1> QED
  BY <1>2, <1>3

\* A run that is being launched goes on being launched until its ingest job drives it.
LEMMA LaunchedStaysDriven ==
  ASSUME TypeInv, LaunchInv, [Next]_vars, ~Fault,
         NEW a \in Actors, NEW r \in Runs, launch[a].run = r, run'[r].state = "running"
  PROVE  launch'[a].run = r \/ Drives(r, Ingest)'
<1> USE TypeParts DEF LaunchInv
<1>0. r # NoRun /\ launch[a] # Idle
  BY Records, BoundAssumption DEF Runs, NoRun
<1>1. CASE launch'[a] = launch[a]
  BY <1>1
<1>2. CASE LaunchNext(a)
  <2>1. ~PickNext(a) /\ ~EnqueueIngestFails(a) /\ ~LaunchLost(a)
    BY <1>0 DEF PickNext, EnqueueIngestFails, LaunchLost
  <2>2. CASE FailActivated(a)
    BY <2>2 DEF FailActivated, MarkRun, RunRow
  <2>3. CASE EnqueueIngest(a)
    <3>1. \A s \in Stages : job[<<r, s>>] = "absent" /\ <<r, s>> \in StageJobs
      BY <1>0 DEF LaunchesApart, StageJobs
    <3>2. Ingest \in Stages /\ \A s \in Stages : Ingest < s => s # Ingest
      BY StageAssumption DEF Ingest, Stages
    <3>3. job' = Enqueued(<<r, Ingest>>)
      BY <2>3 DEF EnqueueIngest
    <3>4. job'[<<r, Ingest>>] = "waiting"
      BY <3>1, <3>2, <3>3 DEF Enqueued, JobTypes
    <3>5. \A s \in Stages : Ingest < s => job'[<<r, s>>] = "absent"
      BY <3>1, <3>2, <3>3, EnqueuedMove
    <3> QED
      BY <3>4, <3>5 DEF Drives
  <2> QED
    BY <1>2, <2>1, <2>2, <2>3 DEF LaunchNext
<1>3. ASSUME a \in Grokmirrors, GrokLaunch(a) PROVE FALSE
  BY <1>0, <1>3 DEF GrokLaunch, LaunchesApart
<1>4. ASSUME a \in StageJobs, TaskLost(a) \/ MarkSucceeded(a) \/ CloseRun(a) PROVE FALSE
  BY <1>0, <1>4 DEF TaskLost, MarkSucceeded, CloseRun, LaunchesApart
<1> QED
  BY <1>0, <1>1, <1>2, <1>3, <1>4, LaunchMoves

\* A run whose last job drives it goes on being driven, by that job or by the next stage's.
LEMMA DrivenStaysDriven ==
  ASSUME Syncs = {}, TypeInv, TaskMatchesJob, LaunchInv, NoTaskLost, [Next]_vars,
         faults = 0, ~Fault, cancels' = 0, cancels = 0,
         NEW r \in Runs, NEW s \in Stages, Drives(r, s),
         run[r].state = "running", run'[r].state = "running"
  PROVE  \E t \in Stages : Drives(r, t)'
<1> DEFINE k == <<r, s>>
<1> USE TypeParts DEF LaunchInv
<1>0. /\ k \in StageJobs /\ k[1] = r /\ k[2] = s /\ s \in 1..LastStage
      /\ \A t \in Stages : <<r, t>> \in StageJobs /\ <<r, t>>[1] = r /\ <<r, t>>[2] = t
  BY DEF StageJobs, Stages
<1>a. ~\E j \in StageJobs : RequestCancel(j) \/ TaskLost(j) \/ FinalizeFails(j)
  <2>1. cancels \in Nat
    BY BoundAssumption DEF CountTypes
  <2> QED
    BY <2>1 DEF RequestCancel, TaskLost, FinalizeFails
<1>1. CASE \E t \in Stages : s < t /\ job'[<<r, t>>] # "absent"
  <2>1. PICK t \in Stages : s < t /\ job'[<<r, t>>] # "absent"
    BY <1>1
  <2>2. job[<<r, t>>] = "absent"
    BY <2>1 DEF Drives
  <2>3. ~\E a \in Actors : EnqueueIngest(a) /\ <<r, t>> = <<launch[a].run, Ingest>>
    <3> SUFFICES ASSUME NEW a \in Actors, EnqueueIngest(a), launch[a].run = r PROVE FALSE
      OBVIOUS
    <3>1. launch[a].run # NoRun /\ job[k] # "absent"
      BY DEF EnqueueIngest, Drives
    <3> QED
      BY <3>1 DEF LaunchesApart
  <2>4. PICK j \in StageJobs : EnqueueNextStage(j) /\ <<r, t>> = <<j[1], j[2] + 1>>
    BY <1>0, <2>1, <2>2, <2>3, NewJobs
  <2>5. j = <<r, j[2]>> /\ j[2] \in Stages /\ t = j[2] + 1
    BY <2>4 DEF StageJobs
  <2>6. job[j] # "absent"
    BY <2>4 DEF EnqueueNextStage, TaskMatchesJob, Handling
  <2>7. j[2] = s
    <3>1. ~(s < j[2])
      BY <2>5, <2>6 DEF Drives
    <3> QED
      BY <2>1, <2>5, <3>1 DEF Stages
  <2>8. /\ job'[<<r, t>>] = "waiting"
        /\ \A u \in Stages : t < u => job'[<<r, u>>] = job[<<r, u>>]
    <3>1. job' = Enqueued(<<r, t>>)
      BY <2>4 DEF EnqueueNextStage
    <3>2. \A u \in Stages : t < u => <<r, u>> # <<r, t>>
      BY <2>1 DEF Stages
    <3>3. \A i \in StageJobs : \/ job'[i] = job[i]
                               \/ i = <<r, t>> /\ job'[i] = "waiting"
      BY <3>1, EnqueuedMove
    <3> QED
      BY <1>0, <2>1, <2>2, <3>2, <3>3
  <2>9. \A u \in Stages : t < u => s < u
    BY <2>1 DEF Stages
  <2>10. Drives(r, t)'
    BY <2>8, <2>9 DEF Drives
  <2> QED
    BY <2>10
<1>2. CASE \A t \in Stages : s < t => job'[<<r, t>>] = "absent"
  <2> SUFFICES /\ job'[k] # "absent"
               /\ job'[k] \in {"waiting"} \cup Held \/ at'[k] \in {"close", "close_mark"}
    BY <1>2 DEF Drives
  <2>0. job[k] # "absent" /\ (job[k] \in {"waiting"} \cup Held \/ at[k] \in {"close", "close_mark"})
    BY DEF Drives
  <2> HIDE DEF k
  <2>1. job'[k] # "absent"
    BY <1>0, <2>0, JobMoves DEF Settled
  <2>2. CASE job'[k] \in {"waiting"} \cup Held
    BY <2>1, <2>2
  <2>3. CASE job[k] \in {"waiting"} \cup Held /\ job'[k] \notin {"waiting"} \cup Held
    <3>1. job'[k] \in Settled /\ job'[k] # job[k]
      BY <1>0, <2>3, JobMoves DEF Held, Settled
    <3>2. FinalizeJob(k)
      <4>1. ASSUME NEW j \in StageJobs, NEW v, job' = [job EXCEPT ![j] = v] PROVE j = k /\ v \in Settled
        BY <1>0, <3>1, <4>1 DEF JobTypes
      <4>2. ASSUME NEW i, job' = Enqueued(i) PROVE FALSE
        BY <1>0, <3>1, <4>2, EnqueuedMove DEF Settled
      <4>3. ASSUME NEW j \in StageJobs, SweepJob(j) PROVE FALSE
        <5>1. at[j] = "none" /\ job[j] \in Held
          BY <4>3 DEF SweepJob, Busy
        <5> QED
          BY <5>1 DEF TaskMatchesJob, Loading, Handling, NoTaskLost, Held
      <4>4. ASSUME NEW j \in StageJobs, NEW v \in Held, job' = [job EXCEPT ![j] = v] PROVE FALSE
        BY <4>1, <4>4 DEF Held, Settled
      <4>5. ASSUME NEW j \in StageJobs,
                   \/ ClaimStage(j) \/ CancelledEarly(j) \/ LoadRun(j) \/ WorkStops(j) \/ Retryable(j)
                   \/ SetCurrentStage(j) \/ EnqueueEmbedding(j)
            PROVE  FALSE
        BY <4>4, <4>5 DEF ClaimStage, CancelledEarly, LoadRun, WorkStops, Retryable, SetCurrentStage,
                          EnqueueEmbedding, Return, Held
      <4>6. ASSUME NEW j \in StageJobs, FinalizeJob(j) PROVE j = k
        BY <4>1, <4>6 DEF FinalizeJob
      <4>7. job' # job
        BY <3>1
      <4> QED
        BY <1>a, <4>2, <4>3, <4>5, <4>6, <4>7, JobFrame
           DEF jobVars, EnqueueIngest, SyncEnqueue, EnqueueNextStage
    <3>3. at[k] = "finish" /\ outcome[k] \in Outcome
      BY <1>0, <3>2 DEF FinalizeJob, TaskMatchesJob
    <3>4. outcome[k] # "success"
      <4>1. ~Followed(r, s)
        <5>1. s < LastStage => s + 1 \in Stages /\ s < s + 1
          BY <1>0, StageAssumption DEF Stages
        <5> QED
          BY <5>1 DEF Followed, Drives
      <4> QED
        BY <3>3, <4>1 DEF JobsInOrder, Closed, k
    <3>5. ~(outcome[k] = "retryable" /\ ~Exhausted(k))
      <4> SUFFICES ASSUME outcome[k] = "retryable" /\ ~Exhausted(k) PROVE FALSE
        OBVIOUS
      <4>1. job' = [job EXCEPT ![k] = "waiting"]
        BY <3>2 DEF FinalizeJob
      <4> QED
        BY <1>0, <2>3, <4>1 DEF JobTypes
    <3>6. ClosesRun(k)
      BY <3>3, <3>4, <3>5 DEF ClosesRun, Outcome
    <3>7. at'[k] = "close"
      BY <1>0, <3>2, <3>6 DEF FinalizeJob, Goto, TaskTypes
    <3> QED
      BY <2>1, <3>7
  <2>4. CASE at[k] \in {"close", "close_mark"}
    <3>1. CASE at'[k] = at[k]
      BY <2>1, <2>4, <3>1
    <3>2. CASE at'[k] # at[k]
      <4>1. CloseRead(k) \/ CloseRun(k)
        BY <1>0, <1>a, <2>4, <3>2, TaskMoves
           DEF ClaimStage, Busy, TaskNext, CancelledEarly, LoadRun, DoWork, WorkStops, Retryable,
               SetIngestWindow, EnqueueNextStage, SetCurrentStage, MarkSucceeded, EnqueueEmbedding,
               FinalizeJob
      <4>2. ASSUME CloseRun(k) PROVE FALSE
        BY <1>0, <4>2 DEF CloseRun, MarkRun, RunRow
      <4>3. at'[k] = "close_mark"
        BY <1>0, <4>1, <4>2 DEF CloseRead, Goto, TaskTypes
      <4> QED
        BY <2>1, <4>3
    <3> QED
      BY <3>1, <3>2
  <2> QED
    BY <2>0, <2>2, <2>3, <2>4
<1> QED
  BY <1>1, <1>2

LEMMA DrivenStep ==
  ASSUME Syncs = {}, TypeInv, TaskMatchesJob, LaunchInv, NoTaskLost, RunsDriven, [Next]_vars
  PROVE  RunsDriven'
<1> SUFFICES ASSUME faults' = 0, cancels' = 0, NEW r \in Runs, run'[r].state = "running"
             PROVE  \/ \E a \in Actors : launch'[a].run = r
                    \/ \E s \in Stages : Drives(r, s)'
  BY DEF RunsDriven
<1>1. ~Fault /\ faults = 0
  BY FaultFree
<1>2. cancels = 0
  <2>1. cancels \in Nat
    BY TypeParts, BoundAssumption DEF CountTypes
  <2> QED
    BY <2>1, CountFrame DEF RequestCancel
<1>3. CASE run[r].state = "running"
  <2>1. CASE \E a \in Actors : launch[a].run = r
    <3>1. Ingest \in Stages
      BY StageAssumption DEF Ingest, Stages
    <3> QED
      BY <1>1, <2>1, <3>1, LaunchedStaysDriven
  <2>2. CASE \E s \in Stages : Drives(r, s)
    BY <1>1, <1>2, <1>3, <2>2, DrivenStaysDriven
  <2> QED
    BY <1>1, <1>2, <1>3, <2>1, <2>2 DEF RunsDriven
<1>4. CASE run[r].state # "running"
  BY <1>4, StateMoves DEF Closed
<1> QED
  BY <1>3, <1>4

LEMMA DrivenInvariant == Syncs = {} /\ Spec => [](NoTaskLost /\ RunsDriven)
<1> SUFFICES ASSUME Syncs = {} PROVE Spec => [](NoTaskLost /\ RunsDriven)
  OBVIOUS
<1>1. Init => NoTaskLost /\ RunsDriven
  BY DEF Init, NoTaskLost, RunsDriven
<1>2. TypeInv /\ TaskMatchesJob /\ LaunchInv /\ NoTaskLost /\ RunsDriven /\ [Next]_vars
        => (NoTaskLost /\ RunsDriven)'
  BY TaskLostStep, DrivenStep
<1>3. Spec => []LaunchInv
  BY LaunchInvariant
<1> QED
  BY <1>1, <1>2, <1>3, TypeInvariant, MatchInvariant, PTL DEF Spec

\* Batches, sweeps, retries and failing stages orphan no run: while no fault and no cancel hits it, a
\* running run has a launch or a last job that moves it.
THEOREM NoRunOrphaned == Syncs = {} /\ Spec => []NoOrphan
<1> SUFFICES ASSUME Syncs = {} PROVE Spec => []NoOrphan
  OBVIOUS
<1>1. RunsDriven => NoOrphan
  <2> SUFFICES ASSUME RunsDriven, faults = 0, cancels = 0, NEW r \in Runs, Orphaned(r) PROVE FALSE
    BY DEF NoOrphan
  <2>1. PICK s \in Stages : Drives(r, s)
    BY DEF RunsDriven, Orphaned
  <2> QED
    BY <2>1 DEF Drives, Orphaned, Busy, Held, Settled
<1>2. Spec => [](NoTaskLost /\ RunsDriven)
  BY DrivenInvariant
<1> QED
  BY <1>1, <1>2, PTL

=============================================================================
