--------------------------- MODULE JobQueueProofs ---------------------------
(* Theorems about JobQueue, for any jobs, workers, limits and bounds. *)
EXTENDS JobQueue, FiniteSetTheorems, TLAPS

\* The value sets the operators below range over.
LEMMA StateSets ==
  /\ Pending \subseteq JobState /\ Settled \subseteq JobState
  /\ "running" \in JobState /\ "absent" \in JobState
  /\ Live \subseteq TaskState /\ Returned \subseteq Live /\ Unstarted \subseteq Live
  /\ Closed \subseteq AttemptStatus
BY DEF Pending, Settled, JobState, Live, TaskState, Returned, Unstarted, Closed, AttemptStatus

\* The trigger closes rows; it leaves the table a table of statuses.
LEMMA TriggerType ==
  ASSUME TypeOK, NEW newState
  PROVE  AttemptTrigger(newState) \in [Jobs -> [Claims -> AttemptStatus]]
BY DEF TypeOK, AttemptTrigger, ClosedAs, AttemptStatus, Closed

\* One entry of a two-level table changes.
LEMMA EntryType ==
  ASSUME NEW T, NEW f \in [Jobs -> [Claims -> T]], NEW j \in Jobs, NEW n \in Claims, NEW v \in T
  PROVE  [f EXCEPT ![j][n] = v] \in [Jobs -> [Claims -> T]]
OBVIOUS

\* An outcome is written as a state the job may be in.
LEMMA OutcomeType ==
  ASSUME NEW j \in Jobs, NEW n \in Claims, NEW o \in Returned \cup Unstarted
  PROVE  OutcomeState(j, n, o) \in Settled \cup {"failed_retryable"}
BY DEF OutcomeState, Returned, Unstarted, Settled

LEMMA InitType == Init => TypeOK
BY BoundAssumption DEF Init, TypeOK, JobState, AttemptStatus, TaskState, LoopState, Claims

LEMMA NextType == TypeOK /\ [Next]_vars => TypeOK'
<1> SUFFICES ASSUME TypeOK, [Next]_vars PROVE TypeOK'
  OBVIOUS
<1> USE BoundAssumption
<1>1. ASSUME NEW j \in Jobs, Enqueue(j) PROVE TypeOK'
  BY <1>1 DEF Enqueue, TypeOK, JobState, Pending, taskVars, ghosts
<1>2. ASSUME NEW j \in Jobs, RequestCancel(j) PROVE TypeOK'
  BY <1>2, TriggerType DEF RequestCancel, TypeOK, JobState, Settled, taskVars
<1>3. ASSUME NEW j \in Jobs, Retry(j) PROVE TypeOK'
  BY <1>3, TriggerType DEF Retry, TypeOK, JobState, Pending, SetState, DropClaim, taskVars
<1>4. ASSUME NEW j \in Jobs, ClockStep(j) PROVE TypeOK'
  BY <1>4 DEF ClockStep, RunAfterArrives, LeaseExpires, TypeOK, taskVars, ghosts
<1>5. ASSUME NEW w \in Workers, BeginDrain(w) PROVE TypeOK'
  BY <1>5, TriggerType
     DEF BeginDrain, LoopStep, Promote, TypeOK, JobState, Pending, SetState, LoopState,
         taskVars, ghosts
<1>6. ASSUME NEW w \in Workers, ClaimJobs(w) PROVE TypeOK'
  BY <1>6
     DEF ClaimJobs, LoopStep, Picks, Claimable, TypeOK, JobState, SetState, LoopState,
         TaskState, Live, ghosts
<1>7. ASSUME NEW w \in Workers, BeginMaintenance(w) PROVE TypeOK'
  BY <1>7, TriggerType
     DEF BeginMaintenance, Promote, TypeOK, JobState, Pending, SetState, LoopState,
         taskVars, ghosts
<1>8. ASSUME NEW w \in Workers, SweepRequeue(w) PROVE TypeOK'
  BY <1>8, TriggerType
     DEF SweepRequeue, LoopStep, TypeOK, JobState, Pending, SetState, DropClaim, LoopState,
         taskVars, ghosts
<1>9. ASSUME NEW w \in Workers, SweepTerminal(w) PROVE TypeOK'
  BY <1>9, TriggerType
     DEF SweepTerminal, LoopStep, TypeOK, JobState, Settled, SetState, DropClaim, LoopState,
         taskVars, ghosts
<1>10. ASSUME NEW w \in Workers, Shutdown(w) \/ Stopped(w) PROVE TypeOK'
  BY <1>10 DEF Shutdown, Stopped, LoopStep, TypeOK, LoopState, jobVars, jobCols, taskVars, ghosts
<1>11. ASSUME NEW w \in Workers, Crash(w) PROVE TypeOK'
  BY <1>11 DEF Crash, Fault, TypeOK, LoopState, TaskState, jobVars, jobCols, ghosts
<1>12. ASSUME NEW j \in Jobs, NEW n \in Claims, StartAttempt(j, n) PROVE TypeOK'
  <2>1. \E p \in TaskState : task' = [task EXCEPT ![j][n] = p]
    BY <1>12 DEF StartAttempt, SetTask, AfterStart, TaskState, Live, Returned, Unstarted
  <2>2. task' \in [Jobs -> [Claims -> TaskState]]
    BY <2>1, EntryType DEF TypeOK
  <2>3. attempts' \in [Jobs -> [Claims -> AttemptStatus]]
    <3>1. attempts' = attempts \/ attempts' = [attempts EXCEPT ![j][n] = "running"]
      BY <1>12 DEF StartAttempt
    <3>2. attempts \in [Jobs -> [Claims -> AttemptStatus]] /\ "running" \in AttemptStatus
      BY DEF TypeOK, AttemptStatus
    <3>3. [attempts EXCEPT ![j][n] = "running"] \in [Jobs -> [Claims -> AttemptStatus]]
      BY <3>2, EntryType
    <3> QED
      BY <3>1, <3>2, <3>3
  <2>4. faults' \in 0..FaultBound
    BY <1>12 DEF StartAttempt, Fault, TypeOK
  <2> QED
    BY <1>12, <2>2, <2>3, <2>4 DEF StartAttempt, TypeOK, jobCols, ghosts
<1>13. ASSUME NEW j \in Jobs, NEW n \in Claims, Heartbeat(j, n) PROVE TypeOK'
  BY <1>13 DEF Heartbeat, TypeOK, taskVars, ghosts
<1>14. ASSUME NEW j \in Jobs, NEW n \in Claims, HandlerReturns(j, n) PROVE TypeOK'
  BY <1>14, EntryType
     DEF HandlerReturns, SetTask, TypeOK, TaskState, Live, jobVars, jobCols, ghosts
<1>15. ASSUME NEW j \in Jobs, NEW n \in Claims, FinalizeAttempt(j, n) PROVE TypeOK'
  <2> DEFINE s == OutcomeState(j, n, task[j][n])
  <2>1. s \in Settled \cup {"failed_retryable"}
    BY <1>15, OutcomeType DEF FinalizeAttempt
  <2>2. attempts' \in [Jobs -> [Claims -> AttemptStatus]]
    <3>1. ClosedAs(s) \in AttemptStatus
      BY DEF ClosedAs, AttemptStatus, Closed
    <3>2. attempts' = [AttemptTrigger(state') EXCEPT ![j][n] = ClosedAs(s)]
      BY <1>15 DEF FinalizeAttempt
    <3> QED
      BY <3>1, <3>2, TriggerType, EntryType
  <2>3. task' \in [Jobs -> [Claims -> TaskState]] /\ runner' \in [Jobs -> [Claims -> Workers \cup {NoWorker}]]
    BY <1>15, EntryType DEF FinalizeAttempt, EndTask, SetTask, TypeOK, TaskState
  <2>4. WriteOutcome(j, s) /\ UNCHANGED <<loop, faults>>
    BY <1>15 DEF FinalizeAttempt
  <2> HIDE DEF s
  <2> QED
    BY <2>1, <2>2, <2>3, <2>4
       DEF WriteOutcome, SetState, DropClaim, TypeOK, JobState, Pending
<1>16. ASSUME NEW j \in Jobs, NEW n \in Claims, FinalizeWithoutAttempt(j, n) PROVE TypeOK'
  <2> DEFINE s == OutcomeState(j, n, task[j][n])
  <2>1. s \in Settled \cup {"failed_retryable"}
    BY <1>16, OutcomeType DEF FinalizeWithoutAttempt
  <2>2. attempts' \in [Jobs -> [Claims -> AttemptStatus]]
    BY <1>16, TriggerType DEF FinalizeWithoutAttempt
  <2>3. task' \in [Jobs -> [Claims -> TaskState]] /\ runner' \in [Jobs -> [Claims -> Workers \cup {NoWorker}]]
    BY <1>16, EntryType DEF FinalizeWithoutAttempt, EndTask, SetTask, TypeOK, TaskState
  <2>4. WriteOutcome(j, s) /\ UNCHANGED <<loop, faults>>
    BY <1>16 DEF FinalizeWithoutAttempt
  <2> HIDE DEF s
  <2> QED
    BY <2>1, <2>2, <2>3, <2>4
       DEF WriteOutcome, SetState, DropClaim, TypeOK, JobState, Pending
<1>17. ASSUME NEW j \in Jobs, NEW n \in Claims, TaskLost(j, n) PROVE TypeOK'
  BY <1>17, EntryType
     DEF TaskLost, Fault, EndTask, SetTask, TypeOK, TaskState, jobVars, jobCols, ghosts
<1>18. CASE UNCHANGED vars
  BY <1>18 DEF vars, jobVars, jobCols, taskVars, ghosts, TypeOK
<1> QED
  BY <1>1, <1>2, <1>3, <1>4, <1>5, <1>6, <1>7, <1>8, <1>9, <1>10, <1>11, <1>12, <1>13,
     <1>14, <1>15, <1>16, <1>17, <1>18
     DEF Next, AdminStep, LoopNext, TaskNext

\* Every column, row and task of the queue stays within its type.
THEOREM TypeCorrect == Spec => []TypeOK
<1>1. Init => TypeOK
  BY InitType
<1>2. TypeOK /\ [Next]_vars => TypeOK'
  BY NextType
<1> QED
  BY <1>1, <1>2, PTL DEF Spec

-----------------------------------------------------------------------------
(* What holds whatever the leases do. *)

\* Claims the job has not come to yet have neither a task nor a row.
FreshClaims ==
  \A j \in Jobs : \A n \in Claims :
    n > attempt[j] => /\ task[j][n] = "none" /\ runner[j][n] = NoWorker
                      /\ attempts[j][n] = "none"

\* A task has no row before it started its attempt.
ClaimedHasNoRow ==
  \A j \in Jobs : \A n \in Claims :
    task[j][n] \in {"claimed", "claimed_cancelled"} => attempts[j][n] = "none"

\* The tasks a standing cancel request lets through: all but those that run
\* the handler or will.
Deferred == {"none", "claimed_cancelled", "cancelled", "ended"} \cup Unstarted

\* CancelHonoured, strengthened: the flag is still up, and the later claims saw it.
CancelStands ==
  \A j \in Jobs : cancelAt[j] # 0 =>
    /\ cancel_requested[j]
    /\ cancelAt[j] <= attempt[j]
    /\ \A n \in Claims : n > cancelAt[j] => task[j][n] \in Deferred

SafeInv ==
  /\ LeaseMatchesState
  /\ FreshClaims
  /\ ClaimedHasNoRow
  /\ SucceededHasWitness
  /\ CancelStands

LEMMA InitSafe == Init => SafeInv
BY BoundAssumption
   DEF Init, SafeInv, LeaseMatchesState, FreshClaims, ClaimedHasNoRow, SucceededHasWitness,
       CancelStands, Claims

\* The trigger touches rows that are running, and only those.
LEMMA TriggerRows ==
  ASSUME TypeOK, NEW newState, NEW j \in Jobs, NEW n \in Claims
  PROVE  /\ attempts[j][n] # "running" => AttemptTrigger(newState)[j][n] = attempts[j][n]
         /\ AttemptTrigger(newState)[j][n] = "running" =>
              attempts[j][n] = "running" /\ (state[j] # "running" \/ newState[j] = "running")
BY DEF AttemptTrigger, ClosedAs, TypeOK

\* The same of a step that fires it.
LEMMA TriggerStep ==
  ASSUME TypeOK, attempts' = AttemptTrigger(state')
  PROVE  \A j \in Jobs, n \in Claims :
           /\ attempts[j][n] # "running" => attempts'[j][n] = attempts[j][n]
           /\ attempts'[j][n] = "running" =>
                attempts[j][n] = "running" /\ (state[j] # "running" \/ state'[j] = "running")
BY TriggerRows

\* A step under which no row that was closed or missing changes, and no job
\* newly reads succeeded, keeps the witness of each success.
LEMMA WitnessStep ==
  ASSUME SucceededHasWitness,
         \A k \in Jobs : state'[k] = "succeeded" => state[k] = "succeeded",
         \A k \in Jobs, m \in Claims :
           attempts[k][m] # "running" => attempts'[k][m] = attempts[k][m]
  PROVE  SucceededHasWitness'
<1> SUFFICES ASSUME NEW k \in Jobs, state'[k] = "succeeded"
             PROVE  \E m \in Claims : attempts'[k][m] = "succeeded"
  BY DEF SucceededHasWitness
<1>1. PICK m \in Claims : attempts[k][m] = "succeeded"
  BY DEF SucceededHasWitness
<1> QED
  BY <1>1

\* Nor does it disturb the claims to come or the tasks without a row.
LEMMA RowlessStep ==
  ASSUME FreshClaims, ClaimedHasNoRow, UNCHANGED <<attempt, task, runner>>,
         \A k \in Jobs, m \in Claims :
           attempts[k][m] # "running" => attempts'[k][m] = attempts[k][m]
  PROVE  FreshClaims' /\ ClaimedHasNoRow'
<1>1. \A k \in Jobs, m \in Claims : attempts[k][m] = "none" => attempts'[k][m] = "none"
  OBVIOUS
<1>2. FreshClaims'
  BY <1>1 DEF FreshClaims
<1>3. ClaimedHasNoRow'
  BY <1>1 DEF ClaimedHasNoRow
<1> QED
  BY <1>2, <1>3

\* A claim with a task is not a claim to come.
LEMMA TaskIsClaimed ==
  ASSUME TypeOK, FreshClaims, NEW j \in Jobs, NEW n \in Claims, task[j][n] # "none"
  PROVE  n <= attempt[j]
<1>1. n \in Nat /\ attempt[j] \in Nat
  BY BoundAssumption DEF TypeOK, Claims
<1>2. ~(n > attempt[j])
  BY DEF FreshClaims
<1> QED
  BY <1>1, <1>2

LEMMA NextSafe == TypeOK /\ SafeInv /\ [Next]_vars => SafeInv'
<1> SUFFICES ASSUME TypeOK, SafeInv, [Next]_vars PROVE SafeInv'
  OBVIOUS
<1> USE DEF SafeInv
<1>1. ASSUME NEW j \in Jobs, Enqueue(j) PROVE SafeInv'
  BY <1>1
     DEF Enqueue, LeaseMatchesState, FreshClaims, ClaimedHasNoRow, SucceededHasWitness,
         CancelStands, TypeOK, taskVars, ghosts
<1>2. ASSUME NEW j \in Jobs, RequestCancel(j) PROVE SafeInv'
  <2>1. LeaseMatchesState'
    BY <1>2 DEF RequestCancel, LeaseMatchesState, TypeOK, Pending
  <2>r. \A k \in Jobs, m \in Claims :
          attempts[k][m] # "running" => attempts'[k][m] = attempts[k][m]
    BY <1>2, TriggerStep DEF RequestCancel
  <2>2. FreshClaims' /\ ClaimedHasNoRow'
    BY <1>2, <2>r, RowlessStep DEF RequestCancel, taskVars
  <2>s. \A k \in Jobs : state'[k] = "succeeded" => state[k] = "succeeded"
    BY <1>2 DEF RequestCancel, TypeOK
  <2>3. SucceededHasWitness'
    BY <2>s, <2>r, WitnessStep
  <2>4. CancelStands'
    <3>1. UNCHANGED <<attempt, task>>
      BY <1>2 DEF RequestCancel, taskVars
    <3>2. \A k \in Jobs : k # j => cancelAt'[k] = cancelAt[k]
                                   /\ cancel_requested'[k] = cancel_requested[k]
      BY <1>2 DEF RequestCancel, TypeOK
    <3>3. cancel_requested'[j] = (cancel_requested[j] \/ state[j] = "running")
      BY <1>2 DEF RequestCancel, TypeOK
    <3>4. cancelAt'[j] = IF state[j] = "running" /\ ~cancel_requested[j]
                         THEN attempt[j] ELSE cancelAt[j]
      BY <1>2 DEF RequestCancel, TypeOK
    <3>5. \A k \in Jobs : attempt[k] \in Nat
      BY DEF TypeOK
    <3>6. \A m \in Claims : m > attempt[j] => task[j][m] \in Deferred
      BY DEF FreshClaims, Deferred
    <3>7. \A k \in Jobs : k # j => (cancelAt'[k] # 0 =>
             /\ cancel_requested'[k]
             /\ cancelAt'[k] <= attempt'[k]
             /\ \A m \in Claims : m > cancelAt'[k] => task'[k][m] \in Deferred)
      BY <3>1, <3>2 DEF CancelStands
    <3>8. cancelAt'[j] # 0 =>
             /\ cancel_requested'[j]
             /\ cancelAt'[j] <= attempt'[j]
             /\ \A m \in Claims : m > cancelAt'[j] => task'[j][m] \in Deferred
      <4>1. CASE state[j] = "running" /\ ~cancel_requested[j]
        <5>1. cancel_requested'[j]
          BY <4>1, <3>3
        <5>2. cancelAt'[j] = attempt[j]
          BY <4>1, <3>4
        <5> QED
          BY <5>1, <5>2, <3>1, <3>5, <3>6
      <4>2. CASE ~(state[j] = "running" /\ ~cancel_requested[j])
        BY <4>2, <3>1, <3>3, <3>4 DEF CancelStands
      <4> QED
        BY <4>1, <4>2
    <3> QED
      BY <3>7, <3>8 DEF CancelStands
  <2> QED
    BY <2>1, <2>2, <2>3, <2>4
<1>3. ASSUME NEW j \in Jobs, Retry(j) PROVE SafeInv'
  <2>1. LeaseMatchesState'
    BY <1>3 DEF Retry, SetState, DropClaim, LeaseMatchesState, TypeOK
  <2>r. \A k \in Jobs, m \in Claims :
          attempts[k][m] # "running" => attempts'[k][m] = attempts[k][m]
    BY <1>3, TriggerStep DEF Retry
  <2>2. FreshClaims' /\ ClaimedHasNoRow'
    BY <1>3, <2>r, RowlessStep DEF Retry, taskVars
  <2>s. \A k \in Jobs : state'[k] = "succeeded" => state[k] = "succeeded"
    BY <1>3 DEF Retry, SetState, TypeOK
  <2>3. SucceededHasWitness'
    BY <2>s, <2>r, WitnessStep
  <2>4. CancelStands'
    BY <1>3 DEF Retry, CancelStands, TypeOK, taskVars
  <2> QED
    BY <2>1, <2>2, <2>3, <2>4
<1>4. ASSUME NEW j \in Jobs, ClockStep(j) PROVE SafeInv'
  BY <1>4
     DEF ClockStep, RunAfterArrives, LeaseExpires, LeaseMatchesState, FreshClaims,
         ClaimedHasNoRow, SucceededHasWitness, CancelStands, TypeOK, taskVars, ghosts
<1>5. ASSUME NEW w \in Workers, BeginDrain(w) \/ BeginMaintenance(w) PROVE SafeInv'
  <2>1. Promote /\ UNCHANGED <<taskVars, ghosts>>
    BY <1>5 DEF BeginDrain, BeginMaintenance
  <2>2. LeaseMatchesState'
    BY <2>1 DEF Promote, SetState, LeaseMatchesState, TypeOK
  <2>r. \A k \in Jobs, m \in Claims :
          attempts[k][m] # "running" => attempts'[k][m] = attempts[k][m]
    BY <2>1, TriggerStep DEF Promote
  <2>3. FreshClaims' /\ ClaimedHasNoRow'
    BY <2>1, <2>r, RowlessStep DEF Promote, taskVars
  <2>s. \A k \in Jobs : state'[k] = "succeeded" => state[k] = "succeeded"
    BY <2>1 DEF Promote, SetState, TypeOK
  <2>4. SucceededHasWitness'
    BY <2>s, <2>r, WitnessStep
  <2>5. CancelStands'
    BY <2>1 DEF Promote, CancelStands, taskVars, ghosts
  <2> QED
    BY <2>2, <2>3, <2>4, <2>5
<1>6. ASSUME NEW w \in Workers, ClaimJobs(w) PROVE SafeInv'
  <2> PICK S \in Picks(ClaimLimit(w)) :
       /\ SetState(S, "running")
       /\ claimed_by' = [j \in Jobs |-> IF j \in S THEN w ELSE claimed_by[j]]
       /\ lease_until' = [j \in Jobs |-> IF j \in S THEN "live" ELSE lease_until[j]]
       /\ attempt' = [j \in Jobs |-> IF j \in S THEN attempt[j] + 1 ELSE attempt[j]]
       /\ task' = [j \in Jobs |-> [n \in Claims |->
            IF j \in S /\ n = attempt[j] + 1
            THEN IF cancel_requested[j] THEN "claimed_cancelled" ELSE "claimed"
            ELSE task[j][n]]]
       /\ runner' = [j \in Jobs |-> [n \in Claims |->
            IF j \in S /\ n = attempt[j] + 1 THEN w ELSE runner[j][n]]]
    BY <1>6 DEF ClaimJobs
  <2>1. UNCHANGED <<due, cancel_requested, attempts, ghosts>>
    BY <1>6 DEF ClaimJobs
  <2>2. LeaseMatchesState'
    BY NoWorkerAssumption DEF SetState, LeaseMatchesState, TypeOK
  <2>3. FreshClaims' /\ ClaimedHasNoRow'
    BY <2>1, BoundAssumption DEF FreshClaims, ClaimedHasNoRow, TypeOK, Claims
  <2>4. SucceededHasWitness'
    BY <2>1 DEF SetState, SucceededHasWitness, TypeOK
  <2>5. CancelStands'
    BY <2>1, BoundAssumption DEF CancelStands, Deferred, TypeOK, Claims, ghosts
  <2> QED
    BY <2>2, <2>3, <2>4, <2>5
<1>7. ASSUME NEW w \in Workers, SweepRequeue(w) \/ SweepTerminal(w) PROVE SafeInv'
  <2>1. PICK S, s : s \in {"queued", "failed_terminal"} /\ SetState(S, s) /\ DropClaim(S)
    <3>1. CASE SweepRequeue(w)
      BY <3>1 DEF SweepRequeue
    <3>2. CASE SweepTerminal(w)
      BY <3>2 DEF SweepTerminal
    <3> QED
      BY <1>7, <3>1, <3>2
  <2>2. /\ attempts' = AttemptTrigger(state')
        /\ UNCHANGED <<due, attempt, cancel_requested, taskVars, ghosts>>
    BY <1>7 DEF SweepRequeue, SweepTerminal
  <2>3. LeaseMatchesState'
    BY <2>1 DEF SetState, DropClaim, LeaseMatchesState, TypeOK
  <2>r. \A k \in Jobs, m \in Claims :
          attempts[k][m] # "running" => attempts'[k][m] = attempts[k][m]
    BY <2>2, TriggerStep
  <2>4. FreshClaims' /\ ClaimedHasNoRow'
    BY <2>2, <2>r, RowlessStep DEF taskVars
  <2>s. \A k \in Jobs : state'[k] = "succeeded" => state[k] = "succeeded"
    BY <2>1 DEF SetState, TypeOK
  <2>5. SucceededHasWitness'
    BY <2>s, <2>r, WitnessStep
  <2>6. CancelStands'
    BY <2>2 DEF CancelStands, taskVars, ghosts
  <2> QED
    BY <2>3, <2>4, <2>5, <2>6
<1>8. ASSUME NEW w \in Workers, Shutdown(w) \/ Stopped(w) PROVE SafeInv'
  BY <1>8
     DEF Shutdown, Stopped, LeaseMatchesState, FreshClaims, ClaimedHasNoRow,
         SucceededHasWitness, CancelStands, jobVars, jobCols, taskVars, ghosts
<1>9. ASSUME NEW w \in Workers, Crash(w) PROVE SafeInv'
  <2>1. /\ UNCHANGED <<jobVars, ghosts>>
        /\ task' = [j \in Jobs |-> [n \in Claims |->
                      IF runner[j][n] = w THEN "ended" ELSE task[j][n]]]
        /\ runner' = [j \in Jobs |-> [n \in Claims |->
                        IF runner[j][n] = w THEN NoWorker ELSE runner[j][n]]]
    BY <1>9 DEF Crash
  <2>2. LeaseMatchesState' /\ SucceededHasWitness'
    BY <2>1 DEF LeaseMatchesState, SucceededHasWitness, jobVars, jobCols
  <2>3. FreshClaims'
    BY <2>1, NoWorkerAssumption DEF FreshClaims, jobVars, jobCols
  <2>4. ClaimedHasNoRow' /\ CancelStands'
    BY <2>1 DEF ClaimedHasNoRow, CancelStands, Deferred, jobVars, jobCols, ghosts
  <2> QED
    BY <2>2, <2>3, <2>4
<1>10. ASSUME NEW j \in Jobs, NEW n \in Claims, StartAttempt(j, n) PROVE SafeInv'
  <2>1. /\ task[j][n] \in {"claimed", "claimed_cancelled"}
        /\ UNCHANGED <<jobCols, runner, ghosts>>
        /\ UNCHANGED attempts \/ attempts' = [attempts EXCEPT ![j][n] = "running"]
    BY <1>10 DEF StartAttempt
  <2>2. PICK p \in TaskState :
          /\ task' = [task EXCEPT ![j][n] = p]
          /\ p \notin {"none", "claimed", "claimed_cancelled"}
          /\ task[j][n] = "claimed_cancelled" => p \in Deferred
    BY <1>10
       DEF StartAttempt, SetTask, AfterStart, TaskState, Live, Returned, Unstarted, Deferred
  <2>3. n <= attempt[j] /\ attempts[j][n] = "none"
    BY <2>1, TaskIsClaimed DEF ClaimedHasNoRow
  <2>4. LeaseMatchesState'
    BY <2>1 DEF LeaseMatchesState, jobCols
  <2>t. /\ \A k \in Jobs, m \in Claims : <<k, m>> # <<j, n>> =>
             task'[k][m] = task[k][m] /\ attempts'[k][m] = attempts[k][m]
        /\ task'[j][n] = p
    BY <2>1, <2>2 DEF TypeOK
  <2>5. FreshClaims'
    <3> SUFFICES ASSUME NEW k \in Jobs, NEW m \in Claims, m > attempt[k]
                 PROVE  task'[k][m] = "none" /\ runner'[k][m] = NoWorker
                        /\ attempts'[k][m] = "none"
      BY <2>1 DEF FreshClaims, jobCols
    <3>1. <<k, m>> # <<j, n>>
      BY <2>3, BoundAssumption DEF TypeOK, Claims
    <3> QED
      BY <2>1, <2>t, <3>1 DEF FreshClaims
  <2>c. ClaimedHasNoRow'
    BY <2>2, <2>t DEF ClaimedHasNoRow
  <2>6. SucceededHasWitness'
    <3> SUFFICES ASSUME NEW k \in Jobs, state[k] = "succeeded"
                 PROVE  \E m \in Claims : attempts'[k][m] = "succeeded"
      BY <2>1 DEF SucceededHasWitness, jobCols
    <3>1. PICK m \in Claims : attempts[k][m] = "succeeded"
      BY DEF SucceededHasWitness
    <3> QED
      BY <3>1, <2>3, <2>t
  <2>7. CancelStands'
    BY <2>1, <2>2 DEF CancelStands, Deferred, Unstarted, TypeOK, jobCols, ghosts
  <2> QED
    BY <2>4, <2>5, <2>c, <2>6, <2>7
<1>11. ASSUME NEW j \in Jobs, NEW n \in Claims, Heartbeat(j, n) PROVE SafeInv'
  BY <1>11
     DEF Heartbeat, LeaseMatchesState, FreshClaims, ClaimedHasNoRow, SucceededHasWitness,
         CancelStands, TypeOK, taskVars, ghosts
<1>12. ASSUME NEW j \in Jobs, NEW n \in Claims, HandlerReturns(j, n) PROVE SafeInv'
  <2>1. /\ task[j][n] = "executing"
        /\ UNCHANGED <<jobVars, runner, ghosts>>
    BY <1>12 DEF HandlerReturns
  <2>2. PICK o \in Returned : task' = [task EXCEPT ![j][n] = o]
    BY <1>12 DEF HandlerReturns, SetTask
  <2>3. LeaseMatchesState' /\ SucceededHasWitness'
    BY <2>1 DEF LeaseMatchesState, SucceededHasWitness, jobVars, jobCols
  <2>4. FreshClaims' /\ ClaimedHasNoRow'
    BY <2>1, <2>2 DEF FreshClaims, ClaimedHasNoRow, Returned, TypeOK, jobVars, jobCols
  <2>5. CancelStands'
    BY <2>1, <2>2 DEF CancelStands, Deferred, Unstarted, TypeOK, jobVars, jobCols, ghosts
  <2> QED
    BY <2>3, <2>4, <2>5
<1>13. ASSUME NEW j \in Jobs, NEW n \in Claims, FinalizeAttempt(j, n) PROVE SafeInv'
  <2> DEFINE s == OutcomeState(j, n, task[j][n])
  <2>1. /\ WriteOutcome(j, s)
        /\ task' = [task EXCEPT ![j][n] = "ended"]
        /\ runner' = [runner EXCEPT ![j][n] = NoWorker]
        /\ task[j][n] \notin {"none", "claimed", "claimed_cancelled"}
    BY <1>13 DEF FinalizeAttempt, EndTask, SetTask, Returned
  <2>2. s \in Settled \cup {"failed_retryable"}
    BY <1>13, OutcomeType DEF FinalizeAttempt
  <2>3. /\ attempts' = [AttemptTrigger(state') EXCEPT ![j][n] = ClosedAs(s)]
        /\ s = "succeeded" => ClosedAs(s) = "succeeded"
    BY <1>13 DEF FinalizeAttempt, ClosedAs
  <2> HIDE DEF s
  <2>4. AttemptTrigger(state') \in [Jobs -> [Claims -> AttemptStatus]] /\ n <= attempt[j]
    BY <2>1, TriggerType, TaskIsClaimed
  <2>5. LeaseMatchesState'
    BY <2>1, <2>2
       DEF WriteOutcome, SetState, DropClaim, LeaseMatchesState, TypeOK, Settled
  <2>r. \A k \in Jobs, m \in Claims :
          attempts[k][m] # "running" /\ <<k, m>> # <<j, n>> => attempts'[k][m] = attempts[k][m]
    BY <2>3, <2>4, TriggerRows
  <2>t. /\ \A k \in Jobs, m \in Claims : <<k, m>> # <<j, n>> =>
             task'[k][m] = task[k][m] /\ runner'[k][m] = runner[k][m]
        /\ task'[j][n] = "ended"
        /\ UNCHANGED attempt
    BY <2>1 DEF WriteOutcome, TypeOK
  <2>6. FreshClaims'
    <3> SUFFICES ASSUME NEW k \in Jobs, NEW m \in Claims, m > attempt[k]
                 PROVE  task'[k][m] = "none" /\ runner'[k][m] = NoWorker
                        /\ attempts'[k][m] = "none"
      BY <2>t DEF FreshClaims
    <3>1. <<k, m>> # <<j, n>>
      BY <2>4, BoundAssumption DEF TypeOK, Claims
    <3> QED
      BY <2>r, <2>t, <3>1 DEF FreshClaims
  <2>c. ClaimedHasNoRow'
    BY <2>r, <2>t DEF ClaimedHasNoRow
  <2>7. SucceededHasWitness'
    <3> SUFFICES ASSUME NEW k \in Jobs, state'[k] = "succeeded"
                 PROVE  \E m \in Claims : attempts'[k][m] = "succeeded"
      BY DEF SucceededHasWitness
    <3>1. CASE k = j
      <4>1. s = "succeeded"
        BY <3>1, <2>1 DEF WriteOutcome, SetState, TypeOK
      <4>2. attempts'[j][n] = "succeeded"
        BY <4>1, <2>3, <2>4
      <4> QED
        BY <3>1, <4>2
    <3>2. CASE k # j
      <4>1. state[k] = "succeeded"
        BY <3>2, <2>1 DEF WriteOutcome, SetState, TypeOK
      <4>2. PICK m \in Claims : attempts[k][m] = "succeeded"
        BY <4>1 DEF SucceededHasWitness
      <4> QED
        BY <3>2, <4>2, <2>r
    <3> QED
      BY <3>1, <3>2
  <2>8. CancelStands'
    BY <2>1 DEF WriteOutcome, CancelStands, Deferred, TypeOK
  <2> QED
    BY <2>5, <2>6, <2>c, <2>7, <2>8
<1>14. ASSUME NEW j \in Jobs, NEW n \in Claims, FinalizeWithoutAttempt(j, n) PROVE SafeInv'
  <2> DEFINE s == OutcomeState(j, n, task[j][n])
  <2>1. /\ WriteOutcome(j, s)
        /\ task' = [task EXCEPT ![j][n] = "ended"]
        /\ runner' = [runner EXCEPT ![j][n] = NoWorker]
        /\ task[j][n] \notin {"none", "claimed", "claimed_cancelled"}
    BY <1>14 DEF FinalizeWithoutAttempt, EndTask, SetTask, Unstarted
  <2>2. s \in Settled \cup {"failed_retryable"}
    BY <1>14, OutcomeType DEF FinalizeWithoutAttempt
  <2>3. attempts' = AttemptTrigger(state') /\ s # "succeeded"
    BY <1>14 DEF FinalizeWithoutAttempt, OutcomeState, Unstarted
  <2> HIDE DEF s
  <2>4. n <= attempt[j]
    BY <2>1, TaskIsClaimed
  <2>5. LeaseMatchesState'
    BY <2>1, <2>2
       DEF WriteOutcome, SetState, DropClaim, LeaseMatchesState, TypeOK, Settled
  <2>r. \A k \in Jobs, m \in Claims :
          attempts[k][m] # "running" => attempts'[k][m] = attempts[k][m]
    BY <2>3, TriggerStep
  <2>t. /\ \A k \in Jobs, m \in Claims : <<k, m>> # <<j, n>> =>
             task'[k][m] = task[k][m] /\ runner'[k][m] = runner[k][m]
        /\ task'[j][n] = "ended"
        /\ UNCHANGED attempt
    BY <2>1 DEF WriteOutcome, TypeOK
  <2>6. FreshClaims'
    <3> SUFFICES ASSUME NEW k \in Jobs, NEW m \in Claims, m > attempt[k]
                 PROVE  task'[k][m] = "none" /\ runner'[k][m] = NoWorker
                        /\ attempts'[k][m] = "none"
      BY <2>t DEF FreshClaims
    <3>1. <<k, m>> # <<j, n>>
      BY <2>4, BoundAssumption DEF TypeOK, Claims
    <3> QED
      BY <2>r, <2>t, <3>1 DEF FreshClaims
  <2>c. ClaimedHasNoRow'
    BY <2>r, <2>t DEF ClaimedHasNoRow
  <2>s. \A k \in Jobs : state'[k] = "succeeded" => state[k] = "succeeded"
    BY <2>1, <2>3 DEF WriteOutcome, SetState, TypeOK
  <2>7. SucceededHasWitness'
    BY <2>s, <2>r, WitnessStep
  <2>8. CancelStands'
    BY <2>1 DEF WriteOutcome, CancelStands, Deferred, TypeOK
  <2> QED
    BY <2>5, <2>6, <2>c, <2>7, <2>8
<1>15. ASSUME NEW j \in Jobs, NEW n \in Claims, TaskLost(j, n) PROVE SafeInv'
  <2>1. /\ UNCHANGED <<jobVars, ghosts>>
        /\ task' = [task EXCEPT ![j][n] = "ended"]
        /\ runner' = [runner EXCEPT ![j][n] = NoWorker]
        /\ task[j][n] # "none"
    BY <1>15 DEF TaskLost, EndTask, SetTask, Unstarted, Returned
  <2>2. LeaseMatchesState' /\ SucceededHasWitness'
    BY <2>1 DEF LeaseMatchesState, SucceededHasWitness, jobVars, jobCols
  <2>3. FreshClaims' /\ ClaimedHasNoRow'
    BY <2>1 DEF FreshClaims, ClaimedHasNoRow, TypeOK, jobVars, jobCols
  <2>4. CancelStands'
    BY <2>1 DEF CancelStands, Deferred, TypeOK, jobVars, jobCols, ghosts
  <2> QED
    BY <2>2, <2>3, <2>4
<1>16. CASE UNCHANGED vars
  BY <1>16
     DEF vars, jobVars, jobCols, taskVars, ghosts, LeaseMatchesState, FreshClaims,
         ClaimedHasNoRow, SucceededHasWitness, CancelStands
<1> QED
  BY <1>1, <1>2, <1>3, <1>4, <1>5, <1>6, <1>7, <1>8, <1>9, <1>10, <1>11, <1>12, <1>13,
     <1>14, <1>15, <1>16
     DEF Next, AdminStep, LoopNext, TaskNext

LEMMA SafeInvariant == Spec => []SafeInv
<1>1. Init => SafeInv
  BY InitSafe
<1>2. TypeOK /\ SafeInv /\ [Next]_vars => SafeInv'
  BY NextSafe
<1> QED
  BY <1>1, <1>2, TypeCorrect, PTL DEF Spec

\* With every lease kept or lost, a running job has a holder and a lease and no
\* other job has either.
THEOREM LeaseSound == Spec => []LeaseMatchesState
<1>1. SafeInv => LeaseMatchesState
  BY DEF SafeInv
<1> QED
  BY <1>1, SafeInvariant, PTL

\* A job reads succeeded only with an attempt that succeeded, even when late
\* workers write back unfenced.
THEOREM SuccessWitnessed == Spec => []SucceededHasWitness
<1>1. SafeInv => SucceededHasWitness
  BY DEF SafeInv
<1> QED
  BY <1>1, SafeInvariant, PTL

\* No claim after a standing cancel request runs the handler.
THEOREM CancelIsHonoured == Spec => []CancelHonoured
<1>1. SafeInv => CancelHonoured
  BY DEF SafeInv, CancelStands, CancelHonoured, Deferred, Unstarted
<1> QED
  BY <1>1, SafeInvariant, PTL

-----------------------------------------------------------------------------
(* The slots of a worker. *)

\* The claims of a worker whose tasks are alive.
LiveTasks(w) == {c \in Jobs \X Claims : runner[c[1]][c[2]] = w /\ task[c[1]][c[2]] \in Live}

\* The rows a worker holds.
HeldRows(w) == {j \in Jobs : state[j] = "running" /\ claimed_by[j] = w}

\* No worker has more tasks than slots.
SlotsKept == \A w \in Workers : Inflight(w) <= MaxInflight

\* Until an outcome is lost the current claim of a running job has a live task, in the worker
\* the row names.
HeldIsLive ==
  faults = 0 => \A j \in Jobs : state[j] = "running" =>
    /\ attempt[j] \in Claims
    /\ task[j][attempt[j]] \in Live
    /\ runner[j][attempt[j]] = claimed_by[j]

LEMMA LiveTasksFinite ==
  ASSUME NEW w
  PROVE  /\ IsFiniteSet(LiveTasks(w)) /\ IsFiniteSet(LiveTasks(w)')
         /\ Inflight(w) = Cardinality(LiveTasks(w)) /\ Inflight(w)' = Cardinality(LiveTasks(w)')
         /\ Inflight(w) \in Nat /\ Inflight(w)' \in Nat
<1>1. IsFiniteSet(Claims)
  BY BoundAssumption, FS_Interval DEF Claims
<1>2. IsFiniteSet(Jobs \X Claims)
  BY <1>1, JobsAssumption, FS_Product
<1>3. LiveTasks(w) \in SUBSET (Jobs \X Claims) /\ LiveTasks(w)' \in SUBSET (Jobs \X Claims)
  BY DEF LiveTasks
<1>4. IsFiniteSet(LiveTasks(w)) /\ IsFiniteSet(LiveTasks(w)')
  BY <1>2, <1>3, FS_Subset
<1>5. Inflight(w) = Cardinality(LiveTasks(w)) /\ Inflight(w)' = Cardinality(LiveTasks(w)')
  BY DEF Inflight, LiveTasks
<1> QED
  BY <1>4, <1>5, FS_CardinalityType

\* Of all the actions only ClaimJobs starts tasks.
LEMMA TasksOnlyEnd ==
  ASSUME TypeOK, [Next]_vars, NEW w \in Workers, \A v \in Workers : ~ClaimJobs(v)
  PROVE  LiveTasks(w)' \subseteq LiveTasks(w)
<1>1. CASE UNCHANGED <<task, runner>>
  BY <1>1 DEF LiveTasks
<1>2. ASSUME NEW v \in Workers, Crash(v) PROVE LiveTasks(w)' \subseteq LiveTasks(w)
  BY <1>2, NoWorkerAssumption DEF Crash, LiveTasks, Live, Returned, Unstarted
<1>3. ASSUME NEW j \in Jobs, NEW n \in Claims, StartAttempt(j, n) \/ HandlerReturns(j, n)
      PROVE  LiveTasks(w)' \subseteq LiveTasks(w)
  <2>1. task[j][n] \in Live /\ UNCHANGED runner
    BY <1>3 DEF StartAttempt, HandlerReturns, Live
  <2>2. \A k \in Jobs, m \in Claims : <<k, m>> # <<j, n>> => task'[k][m] = task[k][m]
    BY <1>3 DEF StartAttempt, HandlerReturns, SetTask, TypeOK
  <2> QED
    BY <2>1, <2>2 DEF LiveTasks
<1>4. ASSUME NEW j \in Jobs, NEW n \in Claims, EndTask(j, n) PROVE LiveTasks(w)' \subseteq LiveTasks(w)
  BY <1>4, NoWorkerAssumption DEF EndTask, SetTask, LiveTasks, TypeOK
<1> QED
  BY <1>1, <1>2, <1>3, <1>4
     DEF Next, AdminStep, Enqueue, RequestCancel, Retry, ClockStep, RunAfterArrives, LeaseExpires,
         LoopNext, BeginDrain, BeginMaintenance, SweepRequeue, SweepTerminal, Shutdown, Stopped,
         TaskNext, Heartbeat, FinalizeAttempt, FinalizeWithoutAttempt, TaskLost, vars, taskVars

\* A claim starts one task for each row it picked, in the free slots.
LEMMA ClaimFillsSlots ==
  ASSUME TypeOK, SlotsKept, NEW v \in Workers, ClaimJobs(v), NEW w \in Workers
  PROVE  Inflight(w)' <= MaxInflight
<1>1. PICK S \in Picks(ClaimLimit(v)) :
     /\ task' = [j \in Jobs |-> [n \in Claims |->
          IF j \in S /\ n = attempt[j] + 1
          THEN IF cancel_requested[j] THEN "claimed_cancelled" ELSE "claimed"
          ELSE task[j][n]]]
     /\ runner' = [j \in Jobs |-> [n \in Claims |->
          IF j \in S /\ n = attempt[j] + 1 THEN v ELSE runner[j][n]]]
  BY DEF ClaimJobs
<1>2. CASE w # v
  <2>1. LiveTasks(w)' \subseteq LiveTasks(w)
    BY <1>1, <1>2 DEF LiveTasks
  <2>2. Inflight(w)' <= Inflight(w)
    BY <2>1, LiveTasksFinite, FS_Subset
  <2> QED
    BY <2>2, LiveTasksFinite, ConfigAssumption DEF SlotsKept
<1>3. CASE w = v
  <2> DEFINE New == {<<j, attempt[j] + 1>> : j \in S}
             f == [j \in S |-> <<j, attempt[j] + 1>>]
  <2>1. IsFiniteSet(S) /\ Cardinality(S) \in Nat
    BY JobsAssumption, FS_Subset, FS_CardinalityType DEF Picks, Claimable
  <2>2. f \in Surjection(S, New)
    BY DEF Surjection
  <2>3. IsFiniteSet(New) /\ Cardinality(New) <= Cardinality(S)
    BY <2>1, <2>2, FS_Surjection
  <2>4. LiveTasks(v)' \subseteq LiveTasks(v) \cup New
    BY <1>1 DEF LiveTasks
  <2>5. Cardinality(LiveTasks(v)') <= Cardinality(LiveTasks(v)) + Cardinality(New)
    <3> HIDE DEF New
    <3>1. IsFiniteSet(LiveTasks(v) \cup New)
          /\ Cardinality(LiveTasks(v) \cup New)
               = Cardinality(LiveTasks(v)) + Cardinality(New) - Cardinality(LiveTasks(v) \cap New)
      BY <2>3, LiveTasksFinite, FS_Union
    <3>2. IsFiniteSet(LiveTasks(v) \cap New)
      BY LiveTasksFinite, FS_Intersection
    <3>3. Cardinality(LiveTasks(v) \cap New) \in Nat /\ Cardinality(New) \in Nat
          /\ Cardinality(LiveTasks(v)) \in Nat
      BY <2>3, <3>2, LiveTasksFinite, FS_CardinalityType
    <3>4. Cardinality(LiveTasks(v)') <= Cardinality(LiveTasks(v) \cup New)
      BY <2>4, <3>1, FS_Subset
    <3>5. Cardinality(LiveTasks(v)') \in Nat
      BY LiveTasksFinite, FS_CardinalityType
    <3> QED
      BY <3>1, <3>3, <3>4, <3>5
  <2>6. Cardinality(S) <= MaxInflight - Inflight(v)
    <3>1. Inflight(v) \in Nat
      BY LiveTasksFinite
    <3>2. Cardinality(S) <= ClaimLimit(v)
      <4>1. Cardinality(S) = Smaller(ClaimLimit(v), Cardinality(Claimable))
        BY DEF Picks
      <4>2. ClaimLimit(v) \in Int
        BY <3>1, ConfigAssumption DEF ClaimLimit, Smaller
      <4>3. Cardinality(Claimable) \in Nat
        BY JobsAssumption, FS_Subset, FS_CardinalityType DEF Claimable
      <4> QED
        BY <4>1, <4>2, <4>3 DEF Smaller
    <3> QED
      BY <2>1, <3>1, <3>2, ConfigAssumption DEF ClaimLimit, Smaller
  <2>7. Cardinality(New) \in Nat
    BY <2>3, FS_CardinalityType
  <2> HIDE DEF New
  <2> QED
    BY <1>3, <2>1, <2>3, <2>5, <2>6, <2>7, LiveTasksFinite, ConfigAssumption
<1> QED
  BY <1>2, <1>3

LEMMA SlotsInvariant == Spec => []SlotsKept
<1>1. ASSUME Init PROVE SlotsKept
  <2> SUFFICES ASSUME NEW w \in Workers PROVE Inflight(w) <= MaxInflight
    BY DEF SlotsKept
  <2>1. LiveTasks(w) = {}
    BY <1>1 DEF Init, LiveTasks, Live, Returned, Unstarted
  <2> QED
    BY <2>1, LiveTasksFinite, FS_EmptySet, ConfigAssumption
<1>2. ASSUME TypeOK, SlotsKept, [Next]_vars PROVE SlotsKept'
  <2> SUFFICES ASSUME NEW w \in Workers PROVE Inflight(w)' <= MaxInflight
    BY DEF SlotsKept
  <2>1. CASE \E v \in Workers : ClaimJobs(v)
    BY <1>2, <2>1, ClaimFillsSlots
  <2>2. CASE \A v \in Workers : ~ClaimJobs(v)
    <3>1. LiveTasks(w)' \subseteq LiveTasks(w)
      BY <1>2, <2>2, TasksOnlyEnd
    <3>2. Inflight(w)' <= Inflight(w)
      BY <3>1, LiveTasksFinite, FS_Subset
    <3> QED
      BY <1>2, <3>2, LiveTasksFinite, ConfigAssumption DEF SlotsKept
  <2> QED
    BY <2>1, <2>2
<1> QED
  BY <1>1, <1>2, TypeCorrect, PTL DEF Spec

LEMMA HeldInvariant == Spec => []HeldIsLive
<1>1. Init => HeldIsLive
  BY DEF Init, HeldIsLive
<1>2. ASSUME TypeOK, HeldIsLive, [Next]_vars PROVE HeldIsLive'
  <2> USE BoundAssumption
  <2>0. ASSUME UNCHANGED <<attempt, task, runner>>, faults' = 0 => faults = 0,
               \A k \in Jobs : state'[k] = "running" =>
                 state[k] = "running" /\ claimed_by'[k] = claimed_by[k]
        PROVE  HeldIsLive'
    BY <1>2, <2>0 DEF HeldIsLive
  <2>1. ASSUME NEW j \in Jobs, AdminStep(j) \/ ClockStep(j) PROVE HeldIsLive'
    BY <1>2, <2>0, <2>1
       DEF AdminStep, Enqueue, RequestCancel, Retry, SetState, DropClaim, ClockStep,
           RunAfterArrives, LeaseExpires, taskVars, TypeOK
  <2>2. ASSUME NEW w \in Workers, BeginDrain(w) \/ BeginMaintenance(w) PROVE HeldIsLive'
    BY <2>0, <2>2 DEF BeginDrain, BeginMaintenance, Promote, SetState, taskVars
  <2>3. ASSUME NEW w \in Workers, SweepRequeue(w) \/ SweepTerminal(w) PROVE HeldIsLive'
    BY <2>0, <2>3 DEF SweepRequeue, SweepTerminal, SetState, DropClaim, taskVars
  <2>4. ASSUME NEW w \in Workers, ClaimJobs(w) PROVE HeldIsLive'
    BY <1>2, <2>4
       DEF ClaimJobs, Picks, Claimable, SetState, HeldIsLive, Live, TypeOK, Claims
  <2>5. ASSUME NEW w \in Workers, Shutdown(w) \/ Stopped(w) PROVE HeldIsLive'
    BY <2>0, <2>5 DEF Shutdown, Stopped, jobVars, jobCols, taskVars
  <2>6. CASE faults' # 0
    BY <2>6 DEF HeldIsLive
  <2>7. ASSUME Fault PROVE faults' # 0
    BY <1>2, <2>7 DEF Fault, TypeOK
  <2>8. ASSUME NEW j \in Jobs, NEW n \in Claims, StartAttempt(j, n) \/ HandlerReturns(j, n)
        PROVE  HeldIsLive'
    <3>1. PICK p \in Live : task' = [task EXCEPT ![j][n] = p]
      BY <2>8
         DEF StartAttempt, HandlerReturns, SetTask, AfterStart, Live, Returned, Unstarted
    <3>2. UNCHANGED <<state, attempt, claimed_by, runner>>
      BY <2>8 DEF StartAttempt, HandlerReturns, jobVars, jobCols
    <3>3. faults' = 0 => faults = 0
      BY <2>7, <2>8 DEF StartAttempt, HandlerReturns
    <3> QED
      BY <1>2, <3>1, <3>2, <3>3 DEF HeldIsLive, TypeOK
  <2>9. ASSUME NEW j \in Jobs, NEW n \in Claims, Heartbeat(j, n) PROVE HeldIsLive'
    BY <2>0, <2>9 DEF Heartbeat, taskVars
  <2>10. ASSUME NEW j \in Jobs, NEW n \in Claims, FinalizeAttempt(j, n) \/ FinalizeWithoutAttempt(j, n)
         PROVE  HeldIsLive'
    <3>1. PICK s \in Settled \cup {"failed_retryable"} : WriteOutcome(j, s)
      BY <2>10, OutcomeType DEF FinalizeAttempt, FinalizeWithoutAttempt
    <3>2. EndTask(j, n) /\ UNCHANGED faults
      BY <2>10 DEF FinalizeAttempt, FinalizeWithoutAttempt
    <3>3. /\ state'[j] # "running" /\ UNCHANGED attempt
          /\ \A k \in Jobs : k # j => /\ state'[k] = state[k] /\ claimed_by'[k] = claimed_by[k]
                                      /\ task'[k] = task[k] /\ runner'[k] = runner[k]
      BY <1>2, <3>1, <3>2
         DEF WriteOutcome, SetState, DropClaim, EndTask, SetTask, Settled, TypeOK
    <3> QED
      BY <1>2, <3>2, <3>3 DEF HeldIsLive
  <2>11. CASE UNCHANGED vars
    BY <2>0, <2>11 DEF vars, jobVars, jobCols, taskVars
  <2> QED
    BY <1>2, <2>1, <2>2, <2>3, <2>4, <2>5, <2>6, <2>7, <2>8, <2>9, <2>10, <2>11
       DEF Next, LoopNext, Crash, TaskNext, TaskLost
<1> QED
  BY <1>1, <1>2, TypeCorrect, PTL DEF Spec

\* A worker's rows are at most its slots: each has its own live task.
THEOREM SlotsAreEnough == Spec => []RunningWithinSlots
<1>1. ASSUME SlotsKept, HeldIsLive PROVE RunningWithinSlots
  <2> SUFFICES ASSUME faults = 0, NEW w \in Workers
               PROVE  Cardinality(HeldRows(w)) <= MaxInflight
    BY DEF RunningWithinSlots, HeldRows
  <2> DEFINE f == [j \in HeldRows(w) |-> <<j, attempt[j]>>]
  <2>1. f \in Injection(HeldRows(w), LiveTasks(w))
    BY <1>1 DEF HeldRows, LiveTasks, HeldIsLive, Injection, IsInjective
  <2>2. IsFiniteSet(HeldRows(w)) /\ Cardinality(HeldRows(w)) <= Cardinality(LiveTasks(w))
    BY <2>1, LiveTasksFinite, FS_Injection
  <2> QED
    BY <1>1, <2>2, LiveTasksFinite, FS_CardinalityType, ConfigAssumption DEF SlotsKept
<1> QED
  BY <1>1, SlotsInvariant, HeldInvariant, PTL

=============================================================================
