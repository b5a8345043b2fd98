------------------------- MODULE JobQueueTimelyProofs -------------------------
(* Theorems about JobQueue where no lease runs out under a live task, which is *)
(* what the heartbeat is there for, and the refinement of JobContract.         *)
EXTENDS JobQueueProofs

-----------------------------------------------------------------------------
(* One execution at a time. *)

\* A live task is that of the current claim of a running job whose lease is in force.
LiveIsCurrent ==
  \A j \in Jobs : \A n \in Claims :
    task[j][n] \in Live => /\ state[j] = "running" /\ attempt[j] = n
                           /\ lease_until[j] = "live"

\* A task that runs or ran the handler has the running row it inserted.
HandlerHasRow ==
  \A j \in Jobs : \A n \in Claims :
    task[j][n] \in {"executing"} \cup Returned => attempts[j][n] = "running"

TimelyInv == LiveIsCurrent /\ NoGhostAttempt /\ HandlerHasRow

LEMMA InitTimely == Init => TimelyInv
BY DEF Init, TimelyInv, LiveIsCurrent, NoGhostAttempt, HandlerHasRow, Live, Returned, Unstarted

\* The trigger on a step that moves no running job, and no task or claim: the rows stay.
LEMMA QuietTrigger ==
  ASSUME TypeOK, attempts' = AttemptTrigger(state'),
         \A j \in Jobs : state[j] = "running" => state'[j] = "running"
  PROVE  attempts' = attempts
BY DEF AttemptTrigger, TypeOK

\* A step under which running jobs, their claims, leases, tasks and rows stay as they are.
LEMMA QuietStep ==
  ASSUME TypeOK, TimelyInv, UNCHANGED <<attempt, task, attempts>>,
         \A j \in Jobs : state[j] = "running" =>
           state'[j] = "running" /\ (lease_until[j] = "live" => lease_until'[j] = "live")
  PROVE  TimelyInv'
BY DEF TimelyInv, LiveIsCurrent, NoGhostAttempt, HandlerHasRow, TypeOK

\* A step that ends the only live task of a job, or of none, and takes the job out of
\* `running`.
LEMMA LeaveStep ==
  ASSUME TypeOK, TimelyInv, NEW S \in SUBSET Jobs, UNCHANGED attempt,
         \A j \in Jobs \ S : /\ state'[j] = state[j] /\ lease_until'[j] = lease_until[j]
                             /\ task'[j] = task[j] /\ attempts'[j] = attempts[j],
         \A j \in S, n \in Claims : task'[j][n] \notin Live /\ attempts'[j][n] # "running"
  PROVE  TimelyInv'
<1>1. LiveIsCurrent' /\ NoGhostAttempt'
  BY DEF TimelyInv, LiveIsCurrent, NoGhostAttempt
<1>2. {"executing"} \cup Returned \subseteq Live
  BY DEF Live
<1>3. HandlerHasRow'
  BY <1>2 DEF TimelyInv, HandlerHasRow
<1> QED
  BY <1>1, <1>3 DEF TimelyInv

LEMMA NextTimely ==
  ASSUME LeaseOutlivesTask, TypeOK, SafeInv, TimelyInv, [Next]_vars
  PROVE  TimelyInv'
<1> USE BoundAssumption
<1>1. ASSUME NEW j \in Jobs, Enqueue(j) PROVE TimelyInv'
  BY <1>1, QuietStep DEF Enqueue, TypeOK, taskVars
<1>2. ASSUME NEW j \in Jobs, RequestCancel(j) PROVE TimelyInv'
  <2>1. \A k \in Jobs : state[k] = "running" => state'[k] = "running"
    BY <1>2 DEF RequestCancel, TypeOK, Pending
  <2>2. attempts' = attempts
    BY <1>2, <2>1, QuietTrigger DEF RequestCancel
  <2> QED
    BY <1>2, <2>1, <2>2, QuietStep DEF RequestCancel, taskVars
<1>3. ASSUME NEW j \in Jobs, Retry(j) PROVE TimelyInv'
  <2>1. \A k \in Jobs : state[k] = "running" => state'[k] = "running" /\ lease_until'[k] = lease_until[k]
    BY <1>3 DEF Retry, SetState, DropClaim, TypeOK
  <2>2. attempts' = attempts
    BY <1>3, <2>1, QuietTrigger DEF Retry
  <2> QED
    BY <1>3, <2>1, <2>2, QuietStep DEF Retry, taskVars
<1>4. ASSUME NEW j \in Jobs, RunAfterArrives(j) PROVE TimelyInv'
  BY <1>4, QuietStep DEF RunAfterArrives, taskVars
<1>5. ASSUME NEW j \in Jobs, LeaseExpires(j) PROVE TimelyInv'
  <2>1. ~Held(j) /\ UNCHANGED <<state, attempt, attempts, task>>
    BY <1>5 DEF LeaseExpires, taskVars
  <2>2. \A n \in Claims : task[j][n] \notin Live
    BY <2>1 DEF Held, TimelyInv, LiveIsCurrent
  <2>3. \A k \in Jobs : k # j => lease_until'[k] = lease_until[k]
    BY <1>5 DEF LeaseExpires, TypeOK
  <2> QED
    BY <2>1, <2>2, <2>3 DEF TimelyInv, LiveIsCurrent, NoGhostAttempt, HandlerHasRow
<1>6. ASSUME NEW w \in Workers, BeginDrain(w) \/ BeginMaintenance(w) PROVE TimelyInv'
  <2>1. Promote /\ UNCHANGED task
    BY <1>6 DEF BeginDrain, BeginMaintenance, taskVars
  <2>2. \A k \in Jobs : state[k] = "running" => state'[k] = "running"
    BY <2>1 DEF Promote, SetState
  <2>3. attempts' = attempts
    BY <2>1, <2>2, QuietTrigger DEF Promote
  <2> QED
    BY <2>1, <2>2, <2>3, QuietStep DEF Promote
<1>7. ASSUME NEW w \in Workers, ClaimJobs(w) PROVE TimelyInv'
  <2>1. PICK S \in Picks(ClaimLimit(w)) :
       /\ SetState(S, "running")
       /\ lease_until' = [j \in Jobs |-> IF j \in S THEN "live" ELSE lease_until[j]]
       /\ attempt' = [j \in Jobs |-> IF j \in S THEN attempt[j] + 1 ELSE attempt[j]]
       /\ task' = [j \in Jobs |-> [n \in Claims |->
            IF j \in S /\ n = attempt[j] + 1
            THEN IF cancel_requested[j] THEN "claimed_cancelled" ELSE "claimed"
            ELSE task[j][n]]]
    BY <1>7 DEF ClaimJobs
  <2>2. \A j \in S : j \in Jobs /\ state[j] = "queued"
    BY DEF Picks, Claimable
  <2>3. UNCHANGED attempts
    BY <1>7 DEF ClaimJobs
  <2>4. LiveIsCurrent'
    BY <2>1, <2>2 DEF SetState, TimelyInv, LiveIsCurrent, TypeOK
  <2>5. NoGhostAttempt' /\ HandlerHasRow'
    BY <2>1, <2>2, <2>3
       DEF SetState, TimelyInv, NoGhostAttempt, HandlerHasRow, Returned, TypeOK
  <2> QED
    BY <2>4, <2>5 DEF TimelyInv
<1>8. ASSUME NEW w \in Workers, SweepRequeue(w) \/ SweepTerminal(w) PROVE TimelyInv'
  <2>1. PICK S \in SUBSET Stuck, s \in {"queued", "failed_terminal"} : SetState(S, s) /\ DropClaim(S)
    <3>1. CASE SweepRequeue(w)
      BY <3>1 DEF SweepRequeue
    <3>2. CASE SweepTerminal(w)
      BY <3>2 DEF SweepTerminal
    <3> QED
      BY <1>8, <3>1, <3>2
  <2>2. attempts' = AttemptTrigger(state') /\ UNCHANGED <<attempt, task>>
    BY <1>8 DEF SweepRequeue, SweepTerminal, taskVars
  <2>3. \A j \in S, n \in Claims : task[j][n] \notin Live
    BY DEF Stuck, TimelyInv, LiveIsCurrent
  <2>4. \A j \in S, n \in Claims : attempts'[j][n] # "running"
    BY <2>1, <2>2, TriggerStep DEF SetState, Stuck
  <2>5. \A j \in Jobs \ S : state'[j] = state[j] /\ lease_until'[j] = lease_until[j]
                            /\ attempts'[j] = attempts[j]
    BY <2>1, <2>2 DEF SetState, DropClaim, AttemptTrigger, TypeOK
  <2> QED
    BY <2>2, <2>3, <2>4, <2>5, LeaveStep DEF Stuck
<1>9. ASSUME NEW w \in Workers, Shutdown(w) \/ Stopped(w) PROVE TimelyInv'
  BY <1>9, QuietStep DEF Shutdown, Stopped, jobVars, jobCols, taskVars
<1>10. ASSUME NEW w \in Workers, Crash(w) PROVE TimelyInv'
  BY <1>10
     DEF Crash, jobVars, jobCols, TimelyInv, LiveIsCurrent, NoGhostAttempt, HandlerHasRow,
         Live, Returned, Unstarted
<1>11. ASSUME NEW j \in Jobs, NEW n \in Claims, StartAttempt(j, n) PROVE TimelyInv'
  <2>1. /\ task[j][n] \in {"claimed", "claimed_cancelled"}
        /\ UNCHANGED <<state, attempt, lease_until>>
    BY <1>11 DEF StartAttempt, jobCols
  <2>2. state[j] = "running" /\ attempt[j] = n /\ attempts[j][n] = "none" /\ lease_until[j] = "live"
    BY <2>1 DEF TimelyInv, LiveIsCurrent, SafeInv, ClaimedHasNoRow, Live
  <2>3. PICK p \in Live : task' = [task EXCEPT ![j][n] = p]
    BY <1>11 DEF StartAttempt, SetTask, AfterStart, Live, Returned, Unstarted
  <2>4. \/ attempts' = [attempts EXCEPT ![j][n] = "running"]
        \/ attempts' = attempts /\ p \in Unstarted
    <3>1. CASE ~HasRunningRow(j) /\ attempts' = [attempts EXCEPT ![j][n] = "running"]
      BY <3>1
    <3>2. CASE SetTask(j, n, "row_conflict") \/ SetTask(j, n, "row_error")
      BY <1>11, <2>3, <3>2 DEF StartAttempt, SetTask, Unstarted, TypeOK, AfterStart
    <3> QED
      BY <1>11, <3>1, <3>2 DEF StartAttempt
  <2>5. \A k \in Jobs, m \in Claims : <<k, m>> # <<j, n>> =>
          task'[k][m] = task[k][m] /\ attempts'[k][m] = attempts[k][m]
    BY <2>3, <2>4 DEF TypeOK
  <2>6. task'[j][n] = p /\ attempts'[j][n] \in {"none", "running"}
        /\ (p \notin Unstarted => attempts'[j][n] = "running")
    BY <2>2, <2>3, <2>4 DEF TypeOK
  <2>7. LiveIsCurrent'
    BY <2>1, <2>2, <2>5 DEF TimelyInv, LiveIsCurrent
  <2>8. NoGhostAttempt'
    BY <2>1, <2>2, <2>5 DEF TimelyInv, NoGhostAttempt
  <2>9. HandlerHasRow'
    BY <2>5, <2>6 DEF TimelyInv, HandlerHasRow, Unstarted, Returned
  <2> QED
    BY <2>7, <2>8, <2>9 DEF TimelyInv
<1>12. ASSUME NEW j \in Jobs, NEW n \in Claims, Heartbeat(j, n) PROVE TimelyInv'
  BY <1>12, QuietStep DEF Heartbeat, TypeOK, taskVars
<1>13. ASSUME NEW j \in Jobs, NEW n \in Claims, HandlerReturns(j, n) PROVE TimelyInv'
  <2>1. PICK o \in Returned : task' = [task EXCEPT ![j][n] = o]
    BY <1>13 DEF HandlerReturns, SetTask
  <2>2. task[j][n] = "executing" /\ UNCHANGED <<state, attempt, lease_until, attempts>>
    BY <1>13 DEF HandlerReturns, jobVars, jobCols
  <2>3. \A k \in Jobs, m \in Claims : <<k, m>> # <<j, n>> => task'[k][m] = task[k][m]
    BY <2>1 DEF TypeOK
  <2> QED
    BY <2>1, <2>2, <2>3 DEF TimelyInv, LiveIsCurrent, NoGhostAttempt, HandlerHasRow, Live
<1>14. ASSUME NEW j \in Jobs, NEW n \in Claims, FinalizeAttempt(j, n) \/ FinalizeWithoutAttempt(j, n)
       PROVE  TimelyInv'
  <2> DEFINE s == OutcomeState(j, n, task[j][n])
  <2>1. /\ task[j][n] \in Live
        /\ s \in Settled \cup {"failed_retryable"}
        /\ WriteOutcome(j, s) /\ EndTask(j, n)
        /\ \/ attempts' = [AttemptTrigger(state') EXCEPT ![j][n] = ClosedAs(s)]
           \/ attempts' = AttemptTrigger(state')
    BY <1>14, OutcomeType DEF FinalizeAttempt, FinalizeWithoutAttempt, Live
  <2> HIDE DEF s
  <2>2. state[j] = "running" /\ state'[j] # "running"
    BY <2>1 DEF TimelyInv, LiveIsCurrent, WriteOutcome, SetState, Settled
  <2>3. \A m \in Claims : task'[j][m] \notin Live
    BY <2>1 DEF TimelyInv, LiveIsCurrent, EndTask, SetTask, Live, Returned, Unstarted, TypeOK
  <2>4. \A m \in Claims : attempts'[j][m] # "running"
    <3>1. \A m \in Claims : AttemptTrigger(state')[j][m] # "running"
      BY <2>2, TriggerRows
    <3>2. AttemptTrigger(state') \in [Jobs -> [Claims -> AttemptStatus]] /\ ClosedAs(s) # "running"
      BY TriggerType, <2>1 DEF ClosedAs
    <3> QED
      BY <2>1, <3>1, <3>2
  <2>5. \A k \in Jobs \ {j} : /\ state'[k] = state[k] /\ lease_until'[k] = lease_until[k]
                              /\ task'[k] = task[k]
    BY <2>1 DEF WriteOutcome, SetState, DropClaim, EndTask, SetTask, TypeOK
  <2>6. \A k \in Jobs \ {j} : attempts'[k] = attempts[k]
    BY <2>1, <2>5, ZenonT(40) DEF AttemptTrigger, TypeOK
  <2>7. UNCHANGED attempt
    BY <2>1 DEF WriteOutcome
  <2>8. {j} \in SUBSET Jobs
    OBVIOUS
  <2> QED
    BY <2>3, <2>4, <2>5, <2>6, <2>7, <2>8, LeaveStep
<1>15. ASSUME NEW j \in Jobs, NEW n \in Claims, TaskLost(j, n) PROVE TimelyInv'
  BY <1>15
     DEF TaskLost, EndTask, SetTask, jobVars, jobCols, TimelyInv, LiveIsCurrent,
         NoGhostAttempt, HandlerHasRow, Live, Returned, Unstarted, TypeOK
<1>16. CASE UNCHANGED vars
  BY <1>16, QuietStep DEF vars, jobVars, jobCols, taskVars
<1> QED
  BY <1>1, <1>2, <1>3, <1>4, <1>5, <1>6, <1>7, <1>8, <1>9, <1>10, <1>11, <1>12, <1>13,
     <1>14, <1>15, <1>16
     DEF Next, AdminStep, ClockStep, LoopNext, TaskNext

LEMMA TimelyInvariant == LeaseOutlivesTask /\ Spec => []TimelyInv
<1>1. Init => TimelyInv
  BY InitTimely
<1>2. LeaseOutlivesTask /\ TypeOK /\ SafeInv /\ TimelyInv /\ [Next]_vars => TimelyInv'
  BY NextTimely
<1>3. LeaseOutlivesTask => LeaseOutlivesTask'
  OBVIOUS
<1> QED
  BY <1>1, <1>2, <1>3, TypeCorrect, SafeInvariant, PTL DEF Spec

\* No two tasks of a job are alive, in whatever workers and claims.
THEOREM OneExecution == LeaseOutlivesTask /\ Spec => []ExclusiveExecution
<1>1. TimelyInv => ExclusiveExecution
  BY DEF TimelyInv, LiveIsCurrent, ExclusiveExecution
<1> QED
  BY <1>1, TimelyInvariant, PTL

\* A running attempt row is that of the current claim of a running job.
THEOREM NoGhosts == LeaseOutlivesTask /\ Spec => []NoGhostAttempt
<1>1. TimelyInv => NoGhostAttempt
  BY DEF TimelyInv
<1> QED
  BY <1>1, TimelyInvariant, PTL

\* The two statements that write rows outside the trigger find theirs missing or running.
LEMMA ClosedStep ==
  ASSUME TypeOK, SafeInv, TimelyInv, [Next]_vars
  PROVE  \A j \in Jobs, n \in Claims :
           attempts[j][n] \in Closed => attempts'[j][n] = attempts[j][n]
<1> SUFFICES ASSUME NEW k \in Jobs, NEW m \in Claims, attempts[k][m] \in Closed
             PROVE  attempts'[k][m] = attempts[k][m]
  OBVIOUS
<1>0. attempts[k][m] \notin {"none", "running"}
  BY DEF Closed
<1>1. CASE attempts' = AttemptTrigger(state')
  BY <1>0, <1>1, TriggerStep
<1>2. ASSUME NEW j \in Jobs, NEW n \in Claims, StartAttempt(j, n)
      PROVE  attempts'[k][m] = attempts[k][m]
  <2>1. attempts[j][n] = "none"
    BY <1>2 DEF StartAttempt, SafeInv, ClaimedHasNoRow
  <2> QED
    BY <1>0, <1>2, <2>1 DEF StartAttempt, TypeOK
<1>3. ASSUME NEW j \in Jobs, NEW n \in Claims, FinalizeAttempt(j, n)
      PROVE  attempts'[k][m] = attempts[k][m]
  <2> DEFINE s == OutcomeState(j, n, task[j][n])
  <2>1. attempts[j][n] = "running"
    BY <1>3 DEF FinalizeAttempt, TimelyInv, HandlerHasRow
  <2>2. attempts' = [AttemptTrigger(state') EXCEPT ![j][n] = ClosedAs(s)]
    BY <1>3 DEF FinalizeAttempt
  <2>3. attempts'[k][m] = AttemptTrigger(state')[k][m]
    BY <1>0, <2>1, <2>2, TriggerType
  <2> QED
    BY <1>0, <2>3, TriggerRows
<1>4. CASE UNCHANGED attempts
  BY <1>4
<1> QED
  BY <1>1, <1>2, <1>3, <1>4
     DEF Next, AdminStep, ClockStep, LoopNext, TaskNext, Enqueue, RequestCancel, Retry,
         RunAfterArrives, LeaseExpires, BeginDrain, BeginMaintenance, Promote, ClaimJobs,
         SweepRequeue, SweepTerminal, Shutdown, Stopped, Crash, Heartbeat, HandlerReturns,
         FinalizeWithoutAttempt, TaskLost, vars, jobVars

\* A finished attempt keeps the status it finished with, whatever late worker, sweep or
\* retry comes after it.
THEOREM ClosedStays == LeaseOutlivesTask /\ Spec => ClosedAttemptIsFinal
<1>1. TypeOK /\ SafeInv /\ TimelyInv /\ [Next]_vars =>
        [\A j \in Jobs, n \in Claims :
           attempts[j][n] \in Closed => attempts'[j][n] = attempts[j][n]]_vars
  BY ClosedStep
<1> QED
  BY <1>1, TypeCorrect, SafeInvariant, TimelyInvariant, PTL DEF Spec, ClosedAttemptIsFinal

\* Outcomes come from live tasks, and those belong to running jobs.
LEMMA SettledStep ==
  ASSUME TypeOK, TimelyInv, [Next]_vars
  PROVE  \A j \in Jobs : state[j] \in Settled =>
           state'[j] = state[j] \/ retries'[j] = retries[j] + 1
<1> SUFFICES ASSUME NEW k \in Jobs, state[k] \in Settled
             PROVE  state'[k] = state[k] \/ retries'[k] = retries[k] + 1
  OBVIOUS
<1>0. state[k] \notin Pending \cup {"absent", "running"}
  BY DEF Settled, Pending
<1>1. ASSUME NEW j \in Jobs, AdminStep(j) PROVE state'[k] = state[k] \/ retries'[k] = retries[k] + 1
  BY <1>0, <1>1 DEF AdminStep, Enqueue, RequestCancel, Retry, SetState, TypeOK
<1>2. ASSUME NEW w \in Workers, LoopNext(w) PROVE state'[k] = state[k]
  <2>1. CASE BeginDrain(w) \/ BeginMaintenance(w)
    BY <1>0, <2>1 DEF BeginDrain, BeginMaintenance, Promote, SetState, Pending
  <2>2. CASE ClaimJobs(w)
    BY <1>0, <2>2 DEF ClaimJobs, Picks, Claimable, SetState, Pending
  <2>3. CASE SweepRequeue(w) \/ SweepTerminal(w)
    BY <1>0, <2>3 DEF SweepRequeue, SweepTerminal, Stuck, SetState
  <2>4. CASE Shutdown(w) \/ Stopped(w) \/ Crash(w)
    BY <2>4 DEF Shutdown, Stopped, Crash, jobVars, jobCols
  <2> QED
    BY <1>2, <2>1, <2>2, <2>3, <2>4 DEF LoopNext
<1>3. ASSUME NEW j \in Jobs, NEW n \in Claims, FinalizeAttempt(j, n) \/ FinalizeWithoutAttempt(j, n)
      PROVE  state'[k] = state[k]
  <2>1. state[j] = "running"
    BY <1>3 DEF FinalizeAttempt, FinalizeWithoutAttempt, Live, TimelyInv, LiveIsCurrent
  <2>2. PICK s : SetState({j}, s)
    BY <1>3 DEF FinalizeAttempt, FinalizeWithoutAttempt, WriteOutcome
  <2> QED
    BY <1>0, <2>1, <2>2 DEF SetState, TypeOK
<1>4. CASE UNCHANGED state
  BY <1>4
<1> QED
  BY <1>1, <1>2, <1>3, <1>4
     DEF Next, ClockStep, TaskNext, RunAfterArrives, LeaseExpires, StartAttempt, Heartbeat,
         HandlerReturns, TaskLost, vars, jobVars, jobCols

\* A settled job moves by an admin's retry alone.
THEOREM SettledStays == LeaseOutlivesTask /\ Spec => SettledOnlyReopenedByRetry
<1>1. TypeOK /\ TimelyInv /\ [Next]_vars =>
        [\A j \in Jobs : state[j] \in Settled =>
           state'[j] = state[j] \/ retries'[j] = retries[j] + 1]_vars
  BY SettledStep
<1> QED
  BY <1>1, TypeCorrect, TimelyInvariant, PTL DEF Spec, SettledOnlyReopenedByRetry

-----------------------------------------------------------------------------
(* The contract. *)

\* A running job is in some claim of it.
RunningIsClaimed == \A j \in Jobs : state[j] = "running" => attempt[j] \in Claims

LEMMA RunningClaimedInvariant == Spec => []RunningIsClaimed
<1>1. Init => RunningIsClaimed
  BY DEF Init, RunningIsClaimed
<1>2. ASSUME TypeOK, RunningIsClaimed, [Next]_vars PROVE RunningIsClaimed'
  <2>1. ASSUME UNCHANGED attempt, \A k \in Jobs : state'[k] = "running" => state[k] = "running"
        PROVE  RunningIsClaimed'
    BY <1>2, <2>1 DEF RunningIsClaimed
  <2>2. ASSUME NEW j \in Jobs, AdminStep(j) PROVE RunningIsClaimed'
    BY <1>2, <2>1, <2>2 DEF AdminStep, Enqueue, RequestCancel, Retry, SetState, TypeOK
  <2>3. ASSUME NEW w \in Workers, ClaimJobs(w) PROVE RunningIsClaimed'
    BY <1>2, <2>3, BoundAssumption
       DEF ClaimJobs, Picks, Claimable, SetState, RunningIsClaimed, TypeOK, Claims
  <2>4. ASSUME NEW w \in Workers, BeginDrain(w) \/ BeginMaintenance(w) PROVE RunningIsClaimed'
    BY <2>1, <2>4 DEF BeginDrain, BeginMaintenance, Promote, SetState
  <2>5. ASSUME NEW w \in Workers, SweepRequeue(w) \/ SweepTerminal(w) PROVE RunningIsClaimed'
    BY <2>1, <2>5 DEF SweepRequeue, SweepTerminal, SetState
  <2>6. ASSUME NEW j \in Jobs, NEW n \in Claims, FinalizeAttempt(j, n) \/ FinalizeWithoutAttempt(j, n)
        PROVE  RunningIsClaimed'
    <3>1. OutcomeState(j, n, task[j][n]) # "running"
      BY <2>6, OutcomeType DEF FinalizeAttempt, FinalizeWithoutAttempt, Settled
    <3> QED
      BY <2>1, <2>6, <3>1 DEF FinalizeAttempt, FinalizeWithoutAttempt, WriteOutcome, SetState
  <2>7. CASE UNCHANGED <<state, attempt>>
    BY <2>1, <2>7
  <2> QED
    BY <1>2, <2>2, <2>3, <2>4, <2>5, <2>6, <2>7
       DEF Next, ClockStep, RunAfterArrives, LeaseExpires, LoopNext, Shutdown, Stopped, Crash,
           TaskNext, StartAttempt, Heartbeat, HandlerReturns, TaskLost, vars, jobVars, jobCols
<1> QED
  BY <1>1, <1>2, TypeCorrect, PTL DEF Spec

\* A job whose row and current task stay as they are keeps its status.
LEMMA SameStatus ==
  ASSUME NEW k \in Jobs, state'[k] = state[k], attempt'[k] = attempt[k],
         task'[k][attempt[k]] = task[k][attempt[k]]
  PROVE  ContractStatus(k)' = ContractStatus(k)
BY DEF ContractStatus

\* The moves of JobContract by what they look like here.
LEMMA ContractMoves ==
  /\ <<"absent", "waiting">> \in Contract!Moves
  /\ <<"waiting", "taken">> \in Contract!Moves
  /\ <<"waiting", "cancelled">> \in Contract!Moves
  /\ <<"taken", "executing">> \in Contract!Moves
  /\ <<"taken", "finished">> \in Contract!Moves
  /\ <<"executing", "finished">> \in Contract!Moves
  /\ <<"finished", "waiting">> \in Contract!Moves
  /\ \A s \in Settled : <<"finished", s>> \in Contract!Moves /\ <<s, "waiting">> \in Contract!Moves
BY DEF Settled, Contract!Moves, Contract!Submit, Contract!Take, Contract!Withdraw, Contract!Begin,
       Contract!Finish, Contract!GiveBack, Contract!Settle, Contract!Readmit, Contract!Settled

\* The task of a job is over once its claim is.
LEMMA FinishedStatus ==
  ASSUME NEW k \in Jobs, state[k] = "running",
         task[k][attempt[k]] \notin {"claimed", "claimed_cancelled", "executing"}
  PROVE  ContractStatus(k) = "finished"
BY DEF ContractStatus, Pending

\* A job moves along its life in the contract, or not at all.
Moves(k) == \/ ContractStatus(k)' = ContractStatus(k)
            \/ <<ContractStatus(k), ContractStatus(k)'>> \in Contract!Moves

LEMMA ContractStep ==
  ASSUME LeaseOutlivesTask, TypeOK, TimelyInv, RunningIsClaimed, [Next]_vars, NEW k \in Jobs
  PROVE  Moves(k)
<1> USE ContractMoves DEF Moves
<1>0. CASE UNCHANGED <<state, attempt, task>>
  BY <1>0, SameStatus
<1>1. ASSUME NEW j \in Jobs, Enqueue(j) PROVE Moves(k)
  <2>1. CASE k = j
    BY <1>1, <2>1 DEF Enqueue, ContractStatus, Pending, TypeOK
  <2>2. CASE k # j
    BY <1>1, <2>2, SameStatus DEF Enqueue, taskVars, TypeOK
  <2> QED
    BY <2>1, <2>2
<1>2. ASSUME NEW j \in Jobs, RequestCancel(j) PROVE Moves(k)
  <2>1. CASE k = j /\ state[j] \in Pending
    BY <1>2, <2>1 DEF RequestCancel, ContractStatus, Pending, TypeOK
  <2>2. CASE ~(k = j /\ state[j] \in Pending)
    BY <1>2, <2>2, SameStatus DEF RequestCancel, taskVars, TypeOK
  <2> QED
    BY <2>1, <2>2
<1>3. ASSUME NEW j \in Jobs, Retry(j) PROVE Moves(k)
  <2>1. CASE k = j
    <3>1. state'[j] \in Pending
      BY <1>3 DEF Retry, SetState, Pending
    <3>2. state[j] \in Pending \/ state[j] \in Settled
      BY <1>3 DEF Retry, TypeOK, JobState
    <3> QED
      BY <2>1, <3>1, <3>2 DEF ContractStatus, Settled, Pending
  <2>2. CASE k # j
    BY <1>3, <2>2, SameStatus DEF Retry, SetState, taskVars
  <2> QED
    BY <2>1, <2>2
<1>4. ASSUME NEW w \in Workers, BeginDrain(w) \/ BeginMaintenance(w) PROVE Moves(k)
  <2>1. Promote /\ UNCHANGED task
    BY <1>4 DEF BeginDrain, BeginMaintenance, taskVars
  <2>2. CASE state'[k] = state[k]
    BY <2>1, <2>2, SameStatus DEF Promote
  <2>3. CASE state'[k] # state[k]
    <3>1. state[k] \in Pending /\ state'[k] \in Pending
      BY <2>1, <2>3 DEF Promote, SetState, Pending
    <3> QED
      BY <3>1 DEF ContractStatus, Pending
  <2> QED
    BY <2>2, <2>3
<1>5. ASSUME NEW w \in Workers, ClaimJobs(w) PROVE Moves(k)
  <2>1. PICK S \in Picks(ClaimLimit(w)) :
       /\ SetState(S, "running")
       /\ attempt' = [j \in Jobs |-> IF j \in S THEN attempt[j] + 1 ELSE attempt[j]]
       /\ task' = [j \in Jobs |-> [n \in Claims |->
            IF j \in S /\ n = attempt[j] + 1
            THEN IF cancel_requested[j] THEN "claimed_cancelled" ELSE "claimed"
            ELSE task[j][n]]]
    BY <1>5 DEF ClaimJobs
  <2>2. CASE k \in S
    <3>1. state[k] = "queued" /\ attempt[k] + 1 \in Claims
      BY <2>2, BoundAssumption DEF Picks, Claimable, TypeOK, Claims
    <3>2. state'[k] = "running" /\ task'[k][attempt'[k]] \in {"claimed", "claimed_cancelled"}
      BY <2>1, <2>2, <3>1 DEF SetState
    <3> QED
      BY <3>1, <3>2 DEF ContractStatus, Pending
  <2>3. CASE k \notin S /\ state[k] = "running"
    <3>1. attempt[k] \in Claims
      BY <2>3 DEF RunningIsClaimed
    <3> QED
      BY <2>1, <2>3, <3>1, SameStatus DEF SetState
  <2>4. CASE k \notin S /\ state[k] # "running"
    BY <2>1, <2>4 DEF SetState, ContractStatus
  <2> QED
    BY <2>2, <2>3, <2>4
<1>6. ASSUME NEW w \in Workers, SweepRequeue(w) \/ SweepTerminal(w) PROVE Moves(k)
  <2>1. PICK S \in SUBSET Stuck, s \in {"queued", "failed_terminal"} : SetState(S, s)
    <3>1. CASE SweepRequeue(w)
      BY <3>1 DEF SweepRequeue
    <3>2. CASE SweepTerminal(w)
      BY <3>2 DEF SweepTerminal
    <3> QED
      BY <1>6, <3>1, <3>2
  <2>2. UNCHANGED <<attempt, task>>
    BY <1>6 DEF SweepRequeue, SweepTerminal, taskVars
  <2>3. CASE k \in S
    <3>1. state[k] = "running" /\ task[k][attempt[k]] \notin Live
      BY <2>3 DEF Stuck, TimelyInv, LiveIsCurrent, RunningIsClaimed
    <3>2. ContractStatus(k) = "finished"
      BY <3>1, FinishedStatus DEF Live
    <3>3. ContractStatus(k)' \in {"waiting", "failed_terminal"}
      BY <2>1, <2>3 DEF SetState, ContractStatus, Pending
    <3> QED
      BY <3>2, <3>3 DEF Settled
  <2>4. CASE k \notin S
    BY <2>1, <2>2, <2>4, SameStatus DEF SetState
  <2> QED
    BY <2>3, <2>4
<1>7. ASSUME NEW w \in Workers, Crash(w) PROVE Moves(k)
  <2>1. UNCHANGED <<state, attempt>>
    BY <1>7 DEF Crash, jobVars, jobCols
  <2>2. CASE state[k] = "running"
    <3>1. attempt[k] \in Claims
      BY <2>2 DEF RunningIsClaimed
    <3>2. task'[k][attempt[k]] \in {task[k][attempt[k]], "ended"}
      BY <1>7, <3>1 DEF Crash
    <3>3. CASE task'[k][attempt[k]] = task[k][attempt[k]]
      BY <2>1, <3>3, SameStatus
    <3>4. CASE task'[k][attempt[k]] = "ended"
      BY <2>1, <2>2, <3>4 DEF ContractStatus, Pending
    <3> QED
      BY <3>2, <3>3, <3>4
  <2>3. CASE state[k] # "running"
    BY <2>1, <2>3 DEF ContractStatus
  <2> QED
    BY <2>2, <2>3
<1>8. ASSUME NEW j \in Jobs, NEW n \in Claims, StartAttempt(j, n) PROVE Moves(k)
  <2>1. UNCHANGED <<state, attempt>> /\ task[j][n] \in {"claimed", "claimed_cancelled"}
    BY <1>8 DEF StartAttempt, jobCols
  <2>2. state[j] = "running" /\ attempt[j] = n
    BY <2>1 DEF TimelyInv, LiveIsCurrent, Live
  <2>3. PICK p \in Live \ {"claimed", "claimed_cancelled"} : task' = [task EXCEPT ![j][n] = p]
    BY <1>8 DEF StartAttempt, SetTask, AfterStart, Live, Returned, Unstarted
  <2>4. CASE k = j
    <3>1. ContractStatus(k) = "taken"
      BY <2>1, <2>2, <2>4 DEF ContractStatus, Pending
    <3>2. ContractStatus(k)' \in {"executing", "finished"}
      BY <2>1, <2>2, <2>3, <2>4 DEF ContractStatus, Pending, TypeOK
    <3> QED
      BY <3>1, <3>2
  <2>5. CASE k # j
    BY <2>1, <2>3, <2>5, SameStatus DEF TypeOK
  <2> QED
    BY <2>4, <2>5
<1>9. ASSUME NEW j \in Jobs, NEW n \in Claims, HandlerReturns(j, n) \/ TaskLost(j, n) PROVE Moves(k)
  <2>1. UNCHANGED <<state, attempt>> /\ task[j][n] \in {"executing"} \cup Unstarted \cup Returned
    BY <1>9 DEF HandlerReturns, TaskLost, jobVars, jobCols
  <2>2. state[j] = "running" /\ attempt[j] = n
    BY <2>1 DEF TimelyInv, LiveIsCurrent, Live
  <2>3. PICK p \in Returned \cup {"ended"} : task' = [task EXCEPT ![j][n] = p]
    BY <1>9 DEF HandlerReturns, TaskLost, EndTask, SetTask
  <2>4. CASE k = j
    <3>1. ContractStatus(k) \in {"executing", "finished"}
      BY <2>1, <2>2, <2>4 DEF ContractStatus, Pending, Unstarted, Returned
    <3>2. ContractStatus(k)' = "finished"
      BY <2>1, <2>2, <2>3, <2>4 DEF ContractStatus, Pending, TypeOK, Returned
    <3> QED
      BY <3>1, <3>2
  <2>5. CASE k # j
    BY <2>1, <2>3, <2>5, SameStatus DEF TypeOK
  <2> QED
    BY <2>4, <2>5
<1>10. ASSUME NEW j \in Jobs, NEW n \in Claims, FinalizeAttempt(j, n) \/ FinalizeWithoutAttempt(j, n)
       PROVE  Moves(k)
  <2>1. task[j][n] \in Returned \cup Unstarted
    BY <1>10 DEF FinalizeAttempt, FinalizeWithoutAttempt
  <2>2. state[j] = "running" /\ attempt[j] = n
    BY <2>1 DEF TimelyInv, LiveIsCurrent, Live
  <2>3. PICK s \in Settled \cup {"failed_retryable"} : WriteOutcome(j, s)
    BY <1>10, OutcomeType DEF FinalizeAttempt, FinalizeWithoutAttempt
  <2>4. CASE k = j
    <3>1. ContractStatus(k) = "finished"
      BY <2>1, <2>2, <2>4, FinishedStatus DEF Unstarted, Returned
    <3>2. state'[k] = s
      BY <2>3, <2>4 DEF WriteOutcome, SetState
    <3>3. ContractStatus(k)' \in Settled \cup {"waiting"}
      BY <3>2 DEF ContractStatus, Pending, Settled
    <3> QED
      BY <3>1, <3>3
  <2>5. CASE k # j
    <3>1. task' = [task EXCEPT ![j][n] = "ended"]
      BY <1>10 DEF FinalizeAttempt, FinalizeWithoutAttempt, EndTask, SetTask
    <3> QED
      BY <2>3, <2>5, <3>1, SameStatus DEF WriteOutcome, SetState, TypeOK
  <2> QED
    BY <2>4, <2>5
<1> QED
  BY <1>0, <1>1, <1>2, <1>3, <1>4, <1>5, <1>6, <1>7, <1>8, <1>9, <1>10
     DEF Next, AdminStep, ClockStep, RunAfterArrives, LeaseExpires, LoopNext, Shutdown, Stopped,
         TaskNext, Heartbeat, vars, jobVars, jobCols, taskVars

\* The queue keeps the contract of JobContract: a job is taken by one worker, runs at most once
\* for that taking and is given back or settled after it, and a settled job waits for a
\* readmission.
THEOREM QueueKeepsContract == LeaseOutlivesTask /\ Spec => ImplementsContract
<1>1. Init => Contract!Init
  BY DEF Init, Contract!Init, ContractStatus, Pending
<1>2. LeaseOutlivesTask /\ TypeOK /\ TimelyInv /\ RunningIsClaimed /\ [Next]_vars
        => [Contract!Next]_([j \in Jobs |-> ContractStatus(j)])
  BY ContractStep DEF Contract!Next, Moves
<1>3. LeaseOutlivesTask => LeaseOutlivesTask'
  OBVIOUS
<1> QED
  BY <1>1, <1>2, <1>3, TypeCorrect, TimelyInvariant, RunningClaimedInvariant, PTL
     DEF Spec, ImplementsContract, Contract!Spec

=============================================================================
