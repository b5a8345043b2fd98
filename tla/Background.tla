----------------------------- MODULE Background -----------------------------
(***************************************************************************)
(* The runs operators start, put together with what their jobs do: one     *)
(* kind of run per behaviour, the requests that start and cancel runs of   *)
(* it, the workers, and the git fetches or the pipeline run beside them.   *)
(***************************************************************************)
EXTENDS MainlineScan, SearchDocs

CONSTANT Histories  \* the repositories a mainline scan is tried on

ASSUME HistoryAssumption == Histories # {} /\ \A h \in Histories : Repository(h)

vars == <<controlVars, scanVars, docVars>>
dataVars == <<scanVars, docVars>>

\* What the job of a run does between `load` and its return.
RunSteps ==
  CASE kind = "mainline" -> {"state", "unready", "prepare", "chunk", "commits", "matches", "insert",
                             "save", "sum", "rollup", "publish", "state_done", "run_done"}
    [] kind = "meili" -> {"threads", "series", "submit", "save", "mark"}
    [] kind = "backfill" -> {"list", "enqueue", "progress", "mark"}

StepsOf(j) ==
  {"none", "load"} \cup Returned
    \cup (IF j \in Runs THEN RunSteps
          ELSE IF j = Lexical THEN {"submit", "mark", "hand_over"}
          ELSE IF j = Embedding THEN {"embed_series"}
          ELSE IF j \in Batches THEN {"vectors", "build", "submit"} ELSE {})

TypeOK == /\ ControlTypeOK /\ ScanTypeOK /\ DocsTypeOK
          /\ \A j \in Jobs : at[j] \in StepsOf(j)

Init ==
  /\ \E s \in Setups : ControlInit(s)
  /\ ScanInit(IF kind = "mainline" THEN Histories ELSE {CHOOSE h \in Histories : TRUE})
  /\ DocsInit

-----------------------------------------------------------------------------

\* bootstrap_completed_at decides the mode; a bootstrap of the index waits for
\* the pipeline.
Start(p) ==
  /\ kind = "meili" => pipeline # "running"
  /\ Check(p, IF kind = "mainline" /\ ~state.bootstrapped THEN "bootstrap" ELSE "incremental")
  /\ UNCHANGED dataVars

Request(p) == (Create(p) \/ EnqueueRun(p) \/ Bind(p)) /\ UNCHANGED dataVars

RequestBreaks ==
  /\ \/ \E p \in Posters : EnqueueFails(p) \/ PosterLost(p)
     \/ CancelLost
  /\ UNCHANGED dataVars

Cancelling ==
  /\ \/ \E r \in Runs : CancelRead(r)
     \/ CancelJob \/ CancelMark
     \/ \E j \in Jobs : CancelDirect(j)
  /\ UNCHANGED dataVars

Claims == \E j \in Jobs : Claim(j) /\ UNCHANGED dataVars

Ends(j) == (Finalize(j) \/ Sweep(j)) /\ ScanForgets(j) /\ DocsForget(j)

Handle(j) ==
  \/ SkipRun(j) /\ UNCHANGED dataVars
  \/ kind = "mainline" /\ j \in Runs /\ ScanStep(j) /\ UNCHANGED docVars
  \/ j \in Runs /\ (BootstrapStep(j) \/ BackfillStep(j)) /\ UNCHANGED scanVars
  \/ j \in Batches /\ BatchStep(j) /\ UNCHANGED scanVars

Pipeline == kind # "mainline" /\ PipelineStep /\ UNCHANGED scanVars

Broken(j) ==
  \/ Refuse(j) /\ UNCHANGED dataVars
  \/ kind = "mainline" /\ j \in Runs /\ ScanBreaks(j) /\ UNCHANGED docVars
  \/ kind # "mainline" /\ DocsBreak(j) /\ UNCHANGED scanVars

Next ==
  \/ \E p \in Posters : Start(p) \/ Request(p)
  \/ RequestBreaks \/ Cancelling \/ Claims
  \/ \E j \in Jobs : Ends(j) \/ Handle(j) \/ Broken(j)
  \/ Pipeline
  \/ kind = "mainline" /\ Fetch /\ UNCHANGED docVars

Spec == Init /\ [][Next]_vars

\* A request under way is answered; workers claim, handlers take their next
\* step, leases of lost executions run out.  Nobody has to start or to cancel.
Fairness ==
  /\ \A p \in Posters : WF_vars(Request(p))
  /\ WF_vars(Claims)
  /\ WF_vars(\E j \in Jobs : Ends(j) \/ Handle(j))
  /\ WF_vars(Pipeline)

FairSpec == Spec /\ Fairness

-----------------------------------------------------------------------------

\* A run whose job is over without it, or whose request was lost before a job.
Abandoned(r) ==
  \/ job[r] \in {"failed_terminal", "cancelled"}
  \/ job[r] = "none" /\ \A p \in Posters : poster[p] # [poster[p] EXCEPT !.pc = "enqueue", !.run = r]

\* A run that was opened is closed in the end, by its handler or by a cancel,
\* unless its job gave up, was cancelled where the run does not hear of it, or
\* was never enqueued.
EveryRunEnds ==
  \A r \in Runs : runs[r].state \in Open ~> runs[r].state \in Closed \/ Abandoned(r)

\* Every parent is older than its child by the clocks of the committers.
Dated == \A c \in Commits : \A q \in Commit(c).parents : Commit(q).time < Commit(c).time

\* A patch has a canonical commit.  Where two scans may be at work it may be that the
\* UPDATE of one has taken it back from it, and then its row is still there.
Given(p) == matches[p] # NoCommit \/ (slots # 1 /\ \E d \in Commits : <<p, d>> \in former)

\* A patch that some commit of the scanned head matches has been given a commit,
\* however often scans were cut short and resumed at their cursor; where dates
\* are out of order that holds of scans that were never resumed.  With one slot the
\* commit is canonical.
NothingMissed ==
  (state.head # NoCommit /\ (Dated \/ \A r \in Runs : attempt[r] =< 1)) =>
    \A c \in Scanned(state.head, NoCommit) : \A p \in Matching(c) : Given(p)

\* When the public filter is ready and no scan is at work, every series and its
\* search document are summed up by the matches there are, but for the series
\* an incremental scan forgot when it was cut short.
RollupsAgree ==
  (state.ready /\ slots = 1 /\ \A r \in Runs : at[r] = "none") =>
    \A s \in Series \ lost : rollup[s] = Summary(s) /\ published[s] = rollup[s]

\* With one slot a patch keeps the canonical commit it got first: no retry, rescan, resumed
\* walk or merged branch moves it.  (Two scans at work at once both read that a patch has no
\* match; the later UPDATE takes the earlier scan's commit from it.)
CanonicalStays ==
  [][slots = 1 => \A p \in Items : matches[p] # NoCommit => matches'[p] = matches[p]]_vars

\* A bootstrap of the index that succeeded has written every document there was,
\* and a backfill has a batch of its own for every thread there was, over all the
\* retries that resumed them.
SucceededCoversDocs ==
  \A r \in Runs : runs[r].state = "succeeded" =>
    /\ kind = "meili" => \A d \in Known : index[d].text # 0
    /\ kind = "backfill" => \A d \in Known \cap Scope(1) :
                              \E b \in Batches : batch[b].source = r /\ d \in batch[b].ids

\* Nothing is under way and no job of the pipeline or of a batch was given up.
Quiet == /\ \A j \in Jobs : job[j] \notin {"waiting", "running"}
         /\ \A j \in {Threading, Lexical, Embedding} \cup Batches :
              job[j] \notin {"failed_terminal", "cancelled"}

\* With one slot, once all is quiet no document in the index is older than its
\* rows, and what the pipeline changed is there with a vector made of the change.
IndexCurrent ==
  (Quiet /\ slots = 1) =>
    \A d \in Docs :
      /\ index[d].text \in {0, text[d]}
      /\ (d \in Changed /\ job[Embedding] = "succeeded") => index[d] = [text |-> text[d], vector |-> text[d]]

=============================================================================
