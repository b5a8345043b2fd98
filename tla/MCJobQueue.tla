----------------------------- MODULE MCJobQueue -----------------------------
(* Instances of JobQueue for TLC. *)
EXTENDS JobQueue, TLC

CONSTANTS j1, j2, w1, w2

\* One job gets a single attempt, the other may be retried.
MCMaxAttempts == j1 :> 1 @@ j2 :> 2
MCPriority == j1 :> 1 @@ j2 :> 0

\* Workers are interchangeable; the runs with fairness do not use this.
WorkerSymmetry == Permutations(Workers)

OneJob == {j1}
OneJobMaxAttempts == j1 :> 2
OneJobPriority == j1 :> 0

=============================================================================
