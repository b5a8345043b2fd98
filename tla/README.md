# Formal verification of nexus-api-server

TLA+ models of the parts of this repository that hold state across failures and
concurrent actors, the TLC runs that check them on small instances, and proofs
by TLAPS that the results hold for any number of jobs, workers, runs, messages,
commits, documents, attempts and faults.

```
tlc -config JobQueueTimely.cfg MCJobQueue.tla        # one run; PROJECT.json lists them all
tlapm JobQueueProofs.tla        # one module of proofs; the others end in Proofs, too
```

## 1. The system

The server mirrors mailing lists (public-inbox repositories) into PostgreSQL and
Meilisearch. An API process takes admin requests; one or more worker processes
claim jobs from a table and run them.

| part | state it keeps | operations | talks to |
|---|---|---|---|
| job queue (`nexus-db/src/jobs.rs`, migrations 0001, 0026, 0027) | `jobs`, `job_attempts` | enqueue with dedupe, claim, heartbeat, start/finish attempt, finalize, cancel, retry, promote, requeue | everything below, by SQL statements and `NOTIFY` |
| worker engine (`nexus-jobs/src/engine`) | in-flight tasks, slot count | poll, sweep, claim, run a job, write its outcome | queue, handlers, pipeline runs |
| pipeline runs (`nexus-db/src/pipeline.rs`, `pipeline_flow.rs`, the four stage handlers) | `pipeline_runs` | create, activate, record stage and window, close, collapse | queue (one job per stage), engine (closes a run whose job failed) |
| pipeline triggers (`handlers/admin/ingest.rs`, `helpers_and_tests.rs`) | none | sync one list, start a batch for all lists | catalog, pipeline runs, queue |
| ingest (`pipeline/ingest.rs`, `nexus-db/src/ingest`, `scanner.rs`) | messages, bodies, watermarks | stream commits, write a chunk, advance the watermark | git mirror, catalog |
| threading (`nexus-jobs/src/threading.rs`, `pipeline/threading.rs`, `nexus-db/src/threading.rs`) | threads, their nodes and members | find what a window of messages touches, build its forest, write it | pipeline runs (the window), rebuild |
| lineage (`nexus-jobs/src/lineage`, `nexus-db/src/lineage`) | series, versions, items, assembled views, logical slots and their mapping | group a thread's patches into versions, find their series, derive views and slots | pipeline runs, rebuild, mainline scan (series) |
| lexical stage, embedding batches (`pipeline/lexical.rs`, `embedding_generate.rs`) | Meilisearch documents, stored vectors | build documents, store vectors, submit | Meilisearch, the embedding service |
| index bootstrap, embedding backfill (`meili_bootstrap.rs`, `embedding_backfill.rs` and their admin handlers) | run rows with a cursor | start, cancel, go through all documents chunk by chunk | queue, Meilisearch, embedding batches |
| mainline scan (`pipeline/mainline.rs`, `nexus-db/src/mainline.rs`) | scan runs, scan state, commits, matches, rollups | walk a git history, match commits to patches, sum up, publish | git, lineage, Meilisearch |
| rebuild (`pipeline/rebuild.rs`) | none | repeat threading and lineage over a range | threading, lineage |
| parsing, public API, configuration | - | see section 7 | |

### What is hard

* **Leases.** A worker owns a job only while its lease lives, but no statement that
  writes an outcome checks it: `finalize_*` and `mark_*` say `WHERE id = $1`. A
  stalled worker's `start_attempt`, heartbeat or outcome meets a job that the
  sweep has requeued, that another worker runs, or that is settled.
* **Two tables, one fact.** `jobs.state` and `job_attempts.status` are kept together by
  a trigger, by explicit updates, and by a unique index that can refuse a claim.
* **Chains of statements.** A stage enqueues the next one, records it and returns; a run is
  marked, the next activated, its job enqueued. Every gap is a crash point, and a
  retry repeats the part that was done.
* **Dedupe.** A dedupe key outlives its job: enqueueing it again is silently nothing.
* **Overlapping triggers.** Two requests, the sweep and a finishing run all decide on
  what they read before whether to start a run.
* **Derived data kept up incrementally.** Threads, views, slots, rollups and documents are
  functions of mail and git, but are updated from what is new. What was derived in another
  order, by a broken execution, or beside another writer has to come out the same.
* **Read, then write.** A series is looked up and then inserted, threads are found, then
  read, then replaced, a document is built and submitted later.
* **Cursors.** A long job resumes at its cursor; what it only had in memory is gone.
* **Liveness.** The sweep starts a run only when no run is running, so that one
  run that cannot end blocks every list.

The list in PROJECT.json (`hazards`) places each at its line.

### What makes each part correct

* Queue: one execution per claim and none of a settled job; a settled job moves only
  by an admin's retry; attempts mirror the job; retries are bounded; a cancel request is
  honoured; no job is left in the queue for ever.
* Engine: no more running jobs than slots; every outcome reaches the queue or the
  lease runs out.
* Pipeline: stages in order, each with its window, none passed over; every open run is
  closed in the end.
* Ingest: every commit's message is stored once; a watermark never passes a commit that is
  not stored; what an execution hands over is threaded, extracted and indexed.
* Threading: the threads depend on the messages, not on how they were split into runs and
  windows; everyone is in one thread; a rebuild repairs what went wrong.
* Lineage: one series per author and subject; a view has all that older versions leave; the
  latest version is the newest; recomputing changes nothing.
* Background runs: the cursor never passes work that is not done; a run that succeeded covered
  every document; every run ends; the index follows the rows.
* Mainline: no match is missed; a canonical commit stays; a rollup and its document are a
  function of the matches.

## 2. Modules

| module | what it models |
|---|---|
| `JobContract` | abstract: what the queue promises of one job |
| `JobQueue` | the queue and the worker engine, one action per SQL statement or loop step |
| `JobQueueProofs` | theorems about `JobQueue`, whatever leases do |
| `JobQueueTimelyProofs` | theorems where no lease runs out under a live task; the refinement of `JobContract` |
| `PipelineRuns` | pipeline runs, triggers, stage handlers, sweep; stage jobs move as `JobContract` says |
| `PipelineRunsProofs` | theorems about runs and their stages, one of them that grokmirror requests orphan no run |
| `IngestWindow` | one list's mail on its way from git through the four stages, by watermark and window |
| `IngestWindowProofs` | theorems about `IngestWindow` |
| `ThreadWindows` | the epoch windows of threading, used by `IngestWindow` and `Threads` |
| `Threads` | the forest `build_threads` makes, and the stage and the rebuild that keep it up to date |
| `Lineage` | a pass over threads, from candidate versions to logical slots |
| `LineageProofs` | theorems about `Lineage` |
| `OperatorRuns` | the protocol of runs an operator starts and cancels |
| `MainlineScan`, `SearchDocs` | what the jobs of such runs do: scan; bootstrap, backfill, batches, beside a pipeline run |
| `Background` | the last three put together |
| `OrderFacts` | lemmas about finite ordered sets: least and greatest, ranks, images |
| `BackgroundProofs` | the types of `Background`, and what each step may change |
| `BackgroundResultsProofs` | theorems about what its runs leave behind |
| `MCJobQueue`, `MCPipelineRuns`, `MCIngestWindow`, `MCThreads`, `MCLineage`, `MCBackground` | instances for TLC |

`JobQueue` implements `JobContract` (property `ImplementsContract`); `PipelineRuns`
is built on `JobContract` and checks that it uses jobs as the contract says
(`KeepsQueueContract`). So what PipelineRuns assumes of the queue is what JobQueue was
checked to give.

### JobQueue

A job is the row of one dedupe key. `<<j, n>>` is the n-th claim of job j:
`attempt` is incremented by every claim, so n names the claim, its task and its attempt
row.

| TLA+ | code |
|---|---|
| `state`, `due`, `claimed_by`, `lease_until`, `attempt`, `cancel_requested` | columns of `jobs`; `due` is `run_after <= now()`, `lease_until` is none, in the future or in the past |
| `attempts[j][n]` | `job_attempts.status` of the row of claim n |
| `task[j][n]`, `runner[j][n]` | where `process_job` is, and in which process |
| `loop[w]` | where `run` is between two statements |
| `Enqueue`, `RequestCancel`, `Retry` | `JobStore::enqueue`, `request_cancel`, `retry` |
| `BeginDrain`, `ClaimJobs` | `drain_once`: `promote_ready_jobs`, then `claim_jobs` and the spawned tasks |
| `BeginMaintenance`, `SweepRequeue`, `SweepTerminal` | `run_maintenance`: promote, and the two statements of `requeue_stuck_jobs` |
| `StartAttempt`, `Heartbeat`, `HandlerReturns`, `FinalizeAttempt`, `FinalizeWithoutAttempt` | the steps of `process_job` |
| `AttemptTrigger` | `jobs_finalize_running_attempts_trg`, part of every action that updates a job |
| `Crash`, `TaskLost`, `Stopped` | a dead process, a panic or a failed final statement, ctrl_c |
| `RunAfterArrives`, `LeaseExpires` | the clock |

Abstractions: times are the two flags; backoff only decides when a job is due again;
order among jobs of one priority is left open; an enqueue under a key that is there is
no step; joining a task and its last step are one action; a statement that fails has not
committed; worker ids are distinct (the code uses the process id). History variables:
`retries`, `cancelAt`.

`LeaseOutlivesTask` is the assumption the heartbeat is there to make true: a beat
every `heartbeat_ms` renews a lease of `lease_ms`. The runs that set it FALSE show
what survives without it.

### PipelineRuns

Stages are numbered: 1 ingest, 2 threading, then lineage, and `LastStage` lexical.
`run[r]` is the row, `job[<<r, s>>]` the contract status of the stage's job, `at[j]`
the next statement of the handler that runs it.

| TLA+ | code |
|---|---|
| `GrokBegin` .. `GrokLaunch` | `ingest_grokmirror`: per list check, create, then phase 2 |
| `SyncCheck` .. `SyncFail` | `ingest_sync` / `queue_list_ingest` |
| `PickNext`, `EnqueueIngest`, `EnqueueIngestFails`, `FailActivated` | the loops of `activate_and_enqueue_next_list*` |
| `Maintain` | `collapse_duplicate_pending_runs`, `get_any_active_run` and the recovery launch of `run_maintenance` |
| `ClaimStage`, `SweepJob`, `RequestCancel`, `TaskLost` | the queue, as the contract allows |
| `LoadRun`, `DoWork`, `WorkStops`, `Retryable` | what the four handlers have in common |
| `SetIngestWindow`, `EnqueueNextStage`, `SetCurrentStage`, `MarkSucceeded`, `EnqueueEmbedding` | their statements |
| `FinalizeJob`, `CloseRead`, `CloseRun` | `process_job` after the handler, `finalize_pipeline_run_if_needed` |

Abstractions: the work of a stage is one step that may end in an error, a cancel or
(threading) a terminal failure; stage jobs have no priorities; the list's place in
`Lists` is its batch position; a create that is refused by the unique index and the read
of the open run are one step; no lease runs out under a live task; an admin retry of a
stage job is left to JobQueue. `errors` counts I/O errors a handler returns,
`faults` failed statements outside handlers and tasks or requests that die.

### IngestWindow

A commit is its history, the sequence of what its ancestors and itself carry, so that
ancestors are prefixes and a rewritten branch has new commits.

| TLA+ | code |
|---|---|
| `watermark`, `instances` | `repo_watermarks`, `list_message_instances`; `seen` is `seen_at`, as the number of the run's ingest execution that wrote the row (0: an earlier run) |
| `window` | `pipeline_runs.ingest_window_*`, as the execution that set it |
| `head`, `read`, `chunkEnd` | the `rev-list` stream: its tip, what is behind it, the chunk that was written |
| `ScanRepo`, `WriteChunk`, `MarkWatermark`, `NextRepo`, `SetWindow`, `EnqueueThreading`, `IngestReturns` | the statements of `handle_pipeline_ingest` |
| `PlanThreading`, `ThreadWindow`, `EpochWindows` | the epoch windows of `handle_pipeline_threading` |
| `ExtractLineage`, `UpsertDocuments`, `StageReturns` | the work of the last two stages, and how the three end |
| `Push`, `Purge`, `ResetWatermark` | grokmirror, public-inbox, an administrator; at any moment |
| `BreakOff` | an error, a dead worker, a cancel or a terminal failure, before any statement |

Abstractions: histories are linear; one slot, so that one stage runs at a time and a run's
tasks have ended before the next run starts; worker and database read one clock; a job that
ends badly closes its run (PipelineRuns has the cases where it does not); `done` is what a
stage has processed at least once, the content of threads and documents is not kept;
lineage and lexical are one step each, since they repeat all their work on a retry. A scan
of a watermark that is no longer on its branch may or may not find it: git prunes when it likes.

### Threads

A mail is what threading reads of it: id, reference chain, date, subject, whether it says Re:,
and its epoch. `seen[m]` is the run whose ingest stage stored m. A thread is its root, hash,
nodes with their parents, and members.

| TLA+ | code |
|---|---|
| `BuildThreads` and what it is made of | `build_threads`: duplicates, dummies for missing references, linking without cycles, pruning of dummies, subject fallback, components |
| `Closure` | `load_messages_with_ancestor_closure` |
| `Impacted`, `MembersOf` | `find_impacted_thread_ids`, `list_message_pks_for_threads` |
| `ApplyComponents` | `apply_components`: rows unchanged, taken over by root, new, and stale ones deleted |
| `StartStage`, `StartRebuild`, `Finish` | begin and end of `handle_pipeline_threading`, `handle_threading_rebuild_list` |
| `FindThreads`, `LoadAndBuild`, `Apply` | the three accesses of `apply_threading_for_anchors`, per window |
| `BreakOffStage`, `BreakOffRebuild` | an error, a dead worker, a cancel |

Abstractions: `depth` and `sort_key` follow from the forest; the membership hash is what it is
made from; `ThreadingRunContext` caches what does not change in a run; a list's mail is numbered
in the order of its primary keys and stored by runs in any order.

### Lineage

A mail says what the parser and the ingest facts know of it. A candidate is one version as a
thread's mail has it.

| TLA+ | code |
|---|---|
| `Candidates`, `Candidate`, `Group`, `Version` | `build_candidates` with its grouping, deduplication and ordinals |
| `Resolve` with `ByChange`, `ByRefs`, `ByPatches`, `BySubject`, `Fallback` | `resolve_series_id` and the fallback before a series is made |
| `FindSeries`, `WriteVersion`, `WriteItems` | `upsert_series`, `upsert_series_version`, `upsert_patch_items_batch` |
| `WriteView`, `FlagPartial` | `apply_assembled_view`: own items, inherited ones, `set_partial_reroll_flag` |
| `PlanSlots`, `WriteSlot`, `WriteMapping` | `recompute_logical_mapping` |
| `Touch` | `touch_series_seen` |
| `Hydrate`, `ComputePatchIds` | `process_patch_enrichment_batch`: patch ids from ingest facts, then from diffs |
| `Arrive`, `Begin`, `Break` | mail that is threaded, the chunk of a pass, its end between two statements |

Abstractions: one pass at a time, as in the stages of one active run; a chunk is any set of
threads; ties of date, thread and version go by the first mail; the patch id of a fact is the
one the diff has; list presence, thread references, author names, files and diff statistics are
left out. History variables: `results`, the tables after whole passes over all mail, and `breaks`,
for each pass that broke off the version whose row it left without items, if any.

### OperatorRuns, MainlineScan, SearchDocs, Background

One behaviour has runs of one kind (`kind`), with the slots, requests, faults and cancels
of a member of `Setups`. Run r has job r; further jobs are those of the pipeline run and
of embedding batches.

| TLA+ | code |
|---|---|
| `Check`, `Create`, `EnqueueRun`, `Bind`, `EnqueueFails`, `PosterLost` | the admin handlers that start a run |
| `CancelRead`, `CancelJob`, `CancelMark`, `CancelDirect` | the handlers that cancel a run or its job |
| `Claim`, `Finalize`, `Sweep`, `Breaks` | queue and engine, as `JobContract` allows |
| `Prepare` | `handle_mainline_scan` up to the chunks: head, cursor, `rev-list`, tags |
| `Resolve`, `UpsertCommits`, `SaveChunk` | one chunk of commits |
| `UnsetCanonical`, `InsertMatches`, `InsertRefused` | `replace_canonical_matches`: its UPDATE, its INSERT, and the unique index refusing that |
| `matches`, `former` | `patch_item_mainline_matches`: the canonical row of a patch, and its other rows |
| `SumUp`, `WriteRollup`, `Publish` | rollups, and their documents |
| `MarkState`, `ScanSucceeds`, `Fetch` | scan state, end of the run, the mirror moving on |
| `ListChunk`, `SubmitChunk`, `SaveCursor` | `handle_meili_bootstrap` |
| `ListBatch`, `BackfillEnqueues`, `BackfillProgress`, `BackfillFails` | `handle_embedding_backfill_run` |
| `ChangeRows` .. `EmbedChanged` | a pipeline run: rows change, the lexical stage submits, marks and hands over, the embedding stage enqueues batches |
| `ReadInputs`, `UpsertVectors`, `BuildEmbedded`, `SubmitEmbedded` | `handle_embedding_generate_batch` |

Abstractions: commits and texts are numbers, all mail is stored before the first scan; rollups
and publishing take one series per step; a series' document is built and submitted in one step
when it is published; indexes exist and their settings do not differ; the index takes documents
in the order they were submitted, as Meilisearch's task queue does; no lease runs out under a
live task; a step is one statement that writes, but for the row of a run, which is read and marked in
one step, the rollups of a series and of its versions, and the vectors of a batch; marking at a
cancel does not fail; a backfill has one scope; what becomes of a pipeline run whose stage gives up is in
`PipelineRuns`. An admin retry, the release of a commit, and documents of threads
that are gone (nothing deletes them) are left out. History variable: `lost`.

## 3. Runs

| run | instance | checks |
|---|---|---|
| `queue_stale` | 1 job, 2 workers, leases may run out under a task, 1 fault, 1 retry, 3 claims | `LeaseMatchesState`, `SucceededHasWitness`, `CancelHonoured` |
| `queue_timely` | 2 jobs (1 and 2 attempts, different priority), 2 workers of 1 slot and a batch of 2, 1 fault, 1 retry | `RunningWithinSlots`, `ExclusiveExecution`, `NoGhostAttempt`, `SettledOnlyReopenedByRetry`, `ClosedAttemptIsFinal`, `ImplementsContract` |
| `queue_live` | 2 jobs, 1 worker, 1 fault, with fairness | `EveryJobSettles` |
| `queue_late_start` | as `queue_stale` without faults; **expects a violation** | `SettledHasNoRunningAttempt` |
| `pipeline_faults` | 1 list, a grokmirror and a sync request, 1 slot, 3 stages, 2 attempts, 1 I/O error, 1 fault and 1 cancel, of which 2 in one behaviour (`TroubleBound`), with fairness | `TypeOK`, `StageFindsWindow`, `SucceededRanEveryStage`, `SucceededIsEmbedded`, `KeepsQueueContract`, `DrainsUnlessOrphaned` |
| `pipeline_batches` | 2 lists, 2 grokmirror requests, 2 slots, 2 runs, 2 stages, nothing fails, with fairness | `NoOrphan`, `DrainsUnlessOrphaned` |
| `pipeline_overlap` | 1 list, a grokmirror and a sync request, nothing fails; **expects a violation** | `PipelineDrains` |
| `ingest_chunks` | 1 repo, 3 commits, chunks of 2, 2 attempts, 2 breaks, with fairness | `StoredBehindWatermark`, `OneInstancePerCommit`, `HandedOverIsProcessed`, `WatermarkAdvances`, `EverythingStored` |
| `threads` | mailboxes of 3 messages in up to 3 of the epochs 0, 1, 3; 2 slots, 1 rebuild, 1 break | `TypeOK`, `SameAsBatch`, `EveryoneInOneThread`, `RebuildRestores` |
| `threads_late_parent` | 3 messages of 1 epoch, one job at a time, nothing fails; **expects a violation** | `ThreadedStaysThreaded` |
| `lineage` | 5 mails of 3 threads, 2 authors, 3 passes, 1 break | `TypeOK`, `NoTwinSeries`, `ViewsComplete`, `LatestIsNewest`, `MappedUnlessBroken`, `RepeatsItself` |
| `background` | 8 setups of one or two runs of a kind with faults or cancels, 3 git histories, 4 documents, with fairness | `TypeOK`, `NothingMissed`, `RollupsAgree`, `SucceededCoversDocs`, `IndexCurrent`, `CanonicalStays`, `EveryRunEnds` |

The type invariants of `JobQueue` and `IngestWindow` are theorems (section 5), and no run
repeats them.

Bounds. Two workers and one job already give every race between a stale and a current
claim; three claims let a job be claimed, lost, claimed again and retried. One fault at any
step, followed by the recovery from it, is what the code is written for; two
independent faults repeat the same recovery. Three stages
(`LastStage = 3`) have a first, a middle and a last one; threading and lineage have
the same control flow, and only threading's terminal outcome differs. Runs with one slot are
the default configuration (`max_inflight_jobs = 1`, one worker); `pipeline_batches` has two.
Instances with a liveness property are kept small, because TLC evaluates the fairness
conditions at every step; what needs more troubles at once is proved (section 5).
Three commits in chunks of two give a whole and a short chunk, and a purge before, in and after
the chunk that is marked.

Three messages give a chain, two replies to one, a missing parent of two, a cycle, a
duplicate and a subject reply; three epochs with a gap give one pair of epochs, two pairs and a
single window. `MCThreads` enumerates chains of up to two references in any direction, to a
missing message and in the wrong order, and lets runs store the mail in every order.

The five mails of `lineage` are a cover and its patch, a third version without facts whose
second patch has no version number and comes late, and a resend of a patch by someone
else: together they make inheritance, a fallback, a slot by ordinal and one by title, and both
ways to a series. Three passes are a first, a repeated and a last one.

Two runs of a kind are what a check before a create can let through; the histories have a
branch merged between two scans, which two scans at once see in different chunks, so that they give a
patch different commits and one is refused, a chain of two chunks, and a child of its parent's date and a
lower object id, which are the cases where a walk by date and a resumed walk differ. Two
threads and two series in chunks of one or two give a cursor in the middle of each scope.
`JobBound` gives every batch the backfill and the pipeline can enqueue a row.

Runs other than those of the queue do not check deadlock: when every request is answered and
every run closed, or the bounds are used up, nothing is left to do.

### Fairness

`JobQueue`: ticks keep firing and a stopped worker is started again
(`SF` on the two entry points of the loop, since a loop busy with one tick postpones the
other), a loop that began a sweep or drain finishes it, started tasks go on, handlers return,
and time passes. Nobody has to enqueue, cancel, retry or fail. `PipelineRuns`: the sweep keeps
coming (`SF`, its launch may be busy), claims are made (`SF`, slots may be taken), tasks and launches
go on; a sync that created a run goes on to enqueue its job, while a grokmirror request may stop
anywhere. `IngestWindow`: it is assumed that runs keep being requested; queued
jobs are claimed and tasks go on; git, administrators and breaks are not obliged to anything.
`Background`: a request under way is answered, jobs are claimed, handlers take their next step,
leases of lost executions run out, the pipeline run goes on; nobody has to start or cancel a run.
All of it is weak fairness there, since with the loops abstracted nothing takes turns.
`Threads` and `Lineage` have safety properties only.

## 4. Findings

* `queue_late_start`: `start_attempt` inserts a running attempt whatever the job's
  state is. A worker stalled between claim and start, past its lease, leaves a running attempt
  under a job that is settled by then; the note of 2026-03-03 says the trigger
  prevents this drift. It is closed when the late task finalizes, and never if it does not.
* `pipeline_overlap`: a sync that loses the race against a grokmirror trigger enqueues the
  ingest job of a run that is still pending; the job skips and succeeds, and after its
  activation the run has no job left. It stays running, and with it every
  pending run, since the sweep waits for the active one.

* `threads_late_parent`: `find_impacted_thread_ids` looks for threads of the messages it has
  and their ancestors. A missing parent that arrives in a later run, or a second reply to
  the same missing message, finds none, but its component has the root of the old thread: the
  row is overwritten and the old members are in no thread. A comment in
  `pipeline/threading.rs` says that existing members are loaded first.

`DrainsUnlessOrphaned` names the other ways to the same state: a cancel of a *queued*
stage job, a stage job that runs out of attempts by lease expiry, a crash between
activation and enqueue. The code documents no promise about these, so they are no
findings; the property shows that there is no further way.

`HandedOverIsProcessed` holds only of the execution that enqueued threading and was not
repeated. Two groups of messages are in the store and in no later stage, and a watermark
reset does not bring them back, because a row that is there keeps its `seen_at`: what a broken
ingest execution had written before its retry (the retry's window starts later), and what an
execution adds that is repeated after threading was enqueued (the enqueue dedupes). Nothing
in the repository promises otherwise; the rebuild jobs, which take
any range of `seen_at`, bring both back into threads and lineage.

What conditions of the other properties leave out, nothing promises, but a maintainer
should know of it:

* Pipeline: `mark_run_*` tests nothing. With two slots, an ingest that enqueued the threading
  stage and then fails on `set_run_current_stage` until its attempts are used up may mark a run
  failed that a lexical stage has just marked succeeded, or the other way round.
* Lineage is not idempotent (`RepeatsItself`) where a series was found by the patches of another
  author's resend and has since been seen at a later date, nor where one change id comes in two
  threads and the series was made without it. Slots are outside the property altogether: a cover,
  or a second row of one version number (which a thread that grew leaves behind), is
  given a new slot at each reprocessing. And after a break followed by late mail, the next free
  slot may collide with one taken by ordinal, so that a patch loses its mapping
  (`MappedUnlessBroken`).
* Mainline: an incremental scan that breaks off after its last chunk forgets the series whose
  rollups it had not written (`lost`, left out of `RollupsAgree`). A resumed walk of a history
  whose dates are out of order may miss commits (`NothingMissed` asks for ordered dates
  there). The tag of a commit that was scanned before its release is not filled in later.
* Mainline, two scans at work at once, which takes two slots: both find a patch unmatched. If one writes
  after the other, its UPDATE (`nexus-db/src/mainline.rs:507`) takes the canonical commit from the patch,
  and its INSERT, a statement of its own, gives it another. Between the two the patch has none, though
  the other scan may have recorded its head in the scan state; and for good if the scan dies there and is
  cancelled or gives up. If both UPDATEs come before both INSERTs and the commits differ, the
  unique index of migration 0028 (line 74) refuses the second INSERT; that scan is retried, finds the
  patch matched, and has forgotten the series it was to sum up if it was incremental. `NothingMissed`
  therefore asks, with more than one slot, only for a row of the patch, canonical or not, and
  `CanonicalStays`, `RollupsAgree` and `IndexCurrent` speak of one slot, which is the default.
* Runs: a job whose cancel is noticed while it waits for the index ends without marking its run,
  which then stays open, as does the run of a job that gave up or was never enqueued
  (`Abandoned`, which `EveryRunEnds` excludes).
* Threads: with overlapping jobs, parents that come late, clocks that disagree or duplicate ids,
  the threads depend on the order of runs (`Orderly` excludes them); a rebuild
  restores them under weaker conditions (`RebuildRestores`).

## 5. Proofs

Every theorem holds for all values of the constants that the named ASSUMEs of the modules
allow: limits and epochs are naturals, chunks and attempt limits are not zero, `NoWorker` is
no worker, a git history is finite, the documents of a pipeline run are documents,
mail is a finite sequence of messages of the declared fields.
Hypotheses beyond these stand in the statement of the theorem.

| module | theorem | states |
|---|---|---|
| `JobQueueProofs` | `TypeCorrect` | `[]TypeOK` |
| | `LeaseSound`, `SuccessWitnessed`, `CancelIsHonoured` | `[]LeaseMatchesState`, `[]SucceededHasWitness`, `[]CancelHonoured` |
| | `SlotsAreEnough` | `[]RunningWithinSlots` |
| `JobQueueTimelyProofs` | `OneExecution`, `NoGhosts` | `[]ExclusiveExecution`, `[]NoGhostAttempt` |
| | `ClosedStays`, `SettledStays` | `ClosedAttemptIsFinal`, `SettledOnlyReopenedByRetry` |
| | `QueueKeepsContract` | `ImplementsContract`: JobQueue refines JobContract |
| `PipelineRunsProofs` | `TypeCorrect` | `[]TypeOK` |
| | `PipelineKeepsContract` | `KeepsQueueContract`: stage jobs move as JobContract says |
| | `WindowFound`, `EveryStageRan`, `EmbeddingEnqueued` | `[]StageFindsWindow`, `[]SucceededRanEveryStage`, `[]SucceededIsEmbedded` |
| | `NoRunOrphaned` | `[]NoOrphan` |
| `IngestWindowProofs` | `TypeCorrect` | `[]TypeOK` |
| | `NothingSkipped`, `NoSecondRow`, `WindowProcessed` | `[]StoredBehindWatermark`, `[]OneInstancePerCommit`, `[]HandedOverIsProcessed` |
| | `WatermarkMovesOn` | `WatermarkAdvances` |
| `LineageProofs` | `TypeCorrect` | `[]TypeOK` |
| | `OneSeriesEach`, `LatestIsRight`, `ViewsShowAll` | `[]NoTwinSeries`, `[]LatestIsNewest`, `[]ViewsComplete` |
| `BackgroundProofs` | `TypeCorrect` | `[]TypeOK` |
| `BackgroundResultsProofs` | `MatchesStay`, `Covers` | `CanonicalStays`, `[]SucceededCoversDocs` |
| | `IndexIsCurrent`, `RollupsFollow`, `ScansMissNone` | `[]IndexCurrent`, `[]RollupsAgree`, `[]NothingMissed` |

Every module follows one layout: a typing invariant, lemmas that say which actions move a table
and how (so that later proofs look at a few moves and not at every action), then for each theorem
the invariant that is inductive, its step lemma, and the theorem, whose last step is temporal.

### JobQueue

Nothing is assumed of leases in `JobQueueProofs`: its theorems hold with stale workers. None of
the three safety properties is inductive. `SafeInv` adds what they need: `FreshClaims` (a claim that
was not made yet has no task and no row), `ClaimedHasNoRow` (a claimed task has inserted nothing,
so that its row starts as its own), and `CancelStands` (a standing request is still up in the
column, is no newer than the current claim, and every claim after it saw it). `TriggerRows` and
`TriggerStep` say what the trigger can change, `WitnessStep` that a closed row keeps its status
under any update but its own task's. For the slots, `SlotsKept` bounds the tasks of a worker, not its
rows: a claim fills what its in-flight count leaves free, and `HeldIsLive` says that without a fault
each running row has its live task.

`JobQueueTimelyProofs` has the hypothesis `LeaseOutlivesTask`, the condition of the run
`queue_timely`: no lease runs out under a live task. `TimelyInv` is `LiveIsCurrent` (a live task is
that of the current claim, under a lease in force), `NoGhostAttempt`, and `HandlerHasRow` (a task past
`start_attempt` has its running row). Each needs the others: without the first a late task could
close another claim's row, without the last the trigger's closing of a row could not be told from the
task's. The refinement needs also `RunningIsClaimed`, since the contract's status of a job depends on
where the task of its current claim is. The mapping is `ContractStatus`; `ContractStep` shows that each
step moves each job along `Contract!Moves` or not at all, a claim and a sweep moving several at once.

### PipelineRuns

`TypeInv` strengthens `TypeOK` with `AttemptsLeft`, `StageSteps` and `CreatesForList`.
`TaskMatchesJob` ties the step a task is at to the status of its job, and with it `JobMoves` yields the
contract. `StagesInOrder` says that a stage has a job only when all before it have done their work and,
behind ingest, the run has its window; `WindowFound` and `EveryStageRan` follow. Both hold with
concurrent triggers, losing syncs, retries and faults.

`NoRunOrphaned` has the hypothesis `Syncs = {}`. It is needed: a sync that loses against
a grokmirror trigger orphans a run with nothing having failed (run `pipeline_overlap`). `NoOrphan` itself
speaks of behaviours in which no fault and no cancel has hit. The argument: ids are
given out in order, a launch has its run to itself, and jobs of a run have no gap (`LaunchInv`, three parts
that need one another); then a running run has a launch that holds it or a last job that drives it
(`RunsDriven`), and a job that is held has its task (`NoTaskLost`). `LaunchedStaysDriven` and
`DrivenStaysDriven` are the two halves of the step.

### IngestWindow

`StoredBehindWatermark` becomes inductive with `StreamCovered`: the mail behind the stream is in
the store, and after a write the chunk's is, too. `StreamStarts` shows it of a new scan (what
the scan leaves out is behind the watermark, and so stored), `WriteRows` of a chunk,
`NewRunRows` that a new run loses no row; `AncestorFacts` is the little theory of prefixes
they use.

`WindowProcessed` rests on `HandOver` (one stage at a time, each enqueued by the one before) and
`StagesKeepUp` (while ingest is not claimed again, the window is that of the execution that handed
over, and each stage past its work has processed its rows); `EveryTouchedHasWindow` says that the epoch
windows leave no epoch out. `WatermarkMovesOn` rests on `MarkInv`: a branch only gets older
(`Older`: more commits, some mail purged) but for a rewrite, which makes new commits; watermark,
stream and branch are in that order, so that the mark of a chunk lies ahead of the watermark or on a
history that was given up.

### Lineage

`TypeInv` types each table by itself (`SeriesRows`, `VersionRows`, `ItemRows`, `ViewRows`) and the worker
by the step it is at (`WorkInStep`): from `series` on it has a candidate, from `version` on a series, from
`items` on a version of that series with the candidate's number. `CandidatesAre` shows of any mail that
the candidates of a chunk are well formed and come by date, whatever the grouping; `ResolveIs` that a
series that is found is there, and that none is made while the author has one of this subject within
reach of the last lookup.

* `OneSeriesEach` has the hypothesis `TenYears`: no two messages are more than 3650 days apart, the
  range of the lookup before a series is made (`Fallback`). Without it the code may make a second series.
* `LatestIsRight` rests on `LatestLeads`: while no pass has broken off, each version but the one at work
  is led by the latest version of its series, so that only `Touch` has to be looked at.
* `ViewsShowAll` rests on `ViewInv`. `ItemsWhole` says what a later view may count on: a version has all
  the items of its fingerprint or none, and none only if it is at work or was left so by a break. `DatesRise`:
  what the pass wrote is no younger than what it still has to write, so that an older version written later is
  either new and not older by date (the property leaves it out) or was there with its items, and
  changes no view (`CalmStays`, `ShowsStays`). `ViewsShow` and `FlagsShow` follow a version through its own
  steps (`AssembledShows`); `FingerAtWork` and `CoverOwn` tie the view's ordinals to the items of the
  candidate. The condition on `breaks` is needed: mail that is regrouped after a break may fill in
  the items of an older version after a newer one was assembled without them.

### Background

`TypeInv` is large, because the state of three handlers is typed by where they are: `RunsApart` (a
request and a cancel belong to the runs they name, and one request to one run), `JobsInStep` (what runs
is in execution or lost), `RowsInStep` (a job comes with its row), `ScanInStep` and `DocsInStep` (what a
handler works on is there when its next step takes it). The walk of a scan chooses commits by rank;
that a rank is taken exactly once is `Ranked` in `OrderFacts`.

* `MatchesStay` needs `OneTask`, that with one slot one job runs, and `FoundNew`: between resolving a
  chunk and writing it, what was found unmatched is still unmatched.
* `Covers` is for any number of slots. `Covering` says that the cursor has only passed what is done
  and that the chunk at work is exactly what follows the cursor, in the order of ids (`CandidatesFollow`
  shows the listing has that property); `RowsThere` that no row goes away meanwhile. So retries
  may resume anywhere.
* `IndexIsCurrent` rests on `IndexInv`, five parts. `Fresh`: what is about to be written was made of the rows
  as they are. It is this part that needs one slot: a bootstrap that built a document, was overtaken by a
  change and its lexical stage, and then submits would leave the old one. `StagesInStep`: the changes
  are written before the lexical stage has a job, and its submission covers all of them. `TextsKeepUp`: a
  document is behind its rows only while the lexical stage has still to submit. `BatchesKeepUp`: a batch of the
  pipeline run works on rows that no longer change, and once it succeeded its documents have vectors
  made of them, which no other writer takes back (`EmbeddedStays`). `BatchesMade`: the embedding
  stage has made its batches, so that quiet means they succeeded.
* `RollupsFollow` rests on `RollupInv`, for one slot. `ReadyAgrees`: while the filter is open, a series that is
  behind its matches is one that a scan at work still owes a rollup (`Owed`: the affected series while it goes
  through chunks, the ones left while it sums up), or is lost. `ScanAgrees`: a bootstrap has closed the filter
  until each series agrees or is left, an incremental scan opens it only if it was open, and the summary it
  read is the one it writes. `MatchedWhole`: all patches a commit matches get a commit at once, so that writing a commit's
  tag again (`upsert_mainline_commits`, before the matches) changes no series that was summed up with it.
  `SummaryKept` says what a summary depends on.
* `ScansMissNone` is for any repository. With one slot, what is matched has a canonical commit; with more it was
  given one and has the row yet (`Given`), which is all that is true, as section 4 says. It rests on `WalkInv`
  and, where there is one slot, on `FoundNew`. A commit is complete when all that it and what is behind it
  match is given so. The parts: the commits in the scan
  state are complete (`StateBehind`); so is a run's cursor, where dates are in order (`CursorBehind`); a walk stops
  at a complete commit, or later at one behind its own head (`StopBehind`); what is not done behind the
  head is still to do, oldest first (`RestToDo`); and what a chunk matches is found before it is written
  (`ChunkFound`). `CursorStep` is where dates are needed: what is behind the last commit of a chunk and not done
  would have to come later in the walk, and so be younger than its descendant (`ReachOlder`). Where dates are not
  in order the property, and so the invariant, speaks of runs that were claimed once (`Resumable`).
  Of the walk the proof uses only that `Reach` is the least set with its heads that is closed under parents
  (`ReachCloses`, `ReachLeast`). It is a recursive function, and the induction is done as a least
  counterexample among numbers (`LeastOf`): the function is there up to each bound, its sets grow until one is
  closed, and they cannot grow more often than there are commits.

### Only model-checked

* Liveness: `EveryJobSettles`, `DrainsUnlessOrphaned`, `EverythingStored`, `EveryRunEnds`. The prover
  has no rules for fairness and ENABLED.
* `Threads` with all its properties: what `BuildThreads` computes for every mailbox is a fold over its links
  and a recursion over the tree they make. In `Lineage`, `MappedUnlessBroken` and `RepeatsItself`: the slots
  are a fold over all views of a series, and a repeated pass is a fold over candidates. These are
  inductions over data, and a fold takes an operator, so that no fact about folds can be stated once and
  used (`Reach`, of which `ScansMissNone` needs the least fixed point, is a recursion of its own).

## 6. Plan

Done: the queue, the pipeline, ingest, lineage and the background runs as theorems, as far as
section 5 says.

1. `Lineage` with two passes: a lineage rebuild beside a run, and the backfill of thread
   references.
2. Small algorithms: the backoff with its saturations.

## 7. Not modelled, and why

* Mail and patch parsing, diff metadata, patch ids: text in, data out, no state.
* The public API and its queries: reads only. Authentication, routing, logging, metrics,
  configuration, the CLI: no protocol.
* Meilisearch and the embedding service: external, seen as calls that succeed or fail.
* `finish_attempt` and `reset_run_to_pending`: never called.
* Of rebuild: the lineage rebuild, whose passes are those of `Lineage`, but which may run beside
  a pipeline run, and the backfill of thread references.
* Of the search index: creation and settings of the indexes, and the search queries.
* Of ingest: the tables a message is spread over and its content checks. A chunk that is refused
  for its content fails at each retry; `EverythingStored` assumes that failures end.
* The backoff: it only decides when a job is due.
