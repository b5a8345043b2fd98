---------------------------- MODULE JobContract ----------------------------
(***************************************************************************)
(* What the job queue promises to those who submit jobs and to the         *)
(* handlers that run them: a job waits, is taken by one worker, runs at    *)
(* most once for that taking, and only then is given back to the queue or  *)
(* settled; a settled job moves again only when it is readmitted.          *)
(***************************************************************************)
CONSTANT Jobs

VARIABLE status

Settled == {"succeeded", "failed_terminal", "cancelled"}

Init == status = [j \in Jobs |-> "absent"]

\* The life of one job, as pairs of a status and the next one.
Submit == {<<"absent", "waiting">>}
Take == {<<"waiting", "taken">>}
Withdraw == {<<"waiting", "cancelled">>}
Begin == {<<"taken", "executing">>}
\* The handler is over, or its worker is gone, or it never started.
Finish == {"taken", "executing"} \X {"finished"}
GiveBack == {<<"finished", "waiting">>}
Settle == {"finished"} \X Settled
Readmit == Settled \X {"waiting"}

Moves == Submit \cup Take \cup Withdraw \cup Begin \cup Finish
           \cup GiveBack \cup Settle \cup Readmit

\* One statement may move several jobs, each along its own life.
Next == \A j \in Jobs : status'[j] = status[j] \/ <<status[j], status'[j]>> \in Moves

Spec == Init /\ [][Next]_status
=============================================================================
