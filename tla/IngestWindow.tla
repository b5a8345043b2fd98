---------------------------- MODULE IngestWindow ----------------------------
(***************************************************************************)
(* How the mail of one list gets from its git repositories through the     *)
(* four stages: the ingest stage walks the commits behind each repo's      *)
(* watermark, writes them chunk by chunk and advances the watermark; the   *)
(* other stages find what is new only by time: the instances whose seen_at *)
(* lies in the window that the last ingest execution recorded in the run.  *)
(*                                                                         *)
(* A commit is its history: the sequence of what each of its ancestors and *)
(* itself carries, a message or NoMail, so that the ancestors of a commit  *)
(* are its prefixes and a rewritten history has new commits.  seen_at is   *)
(* the number of the run's ingest execution that wrote the row, 0 for an   *)
(* earlier run: the run's window holds the rows of one execution, since    *)
(* one slot runs one job at a time.  Stage jobs move as in JobContract.    *)
(***************************************************************************)
EXTENDS Sequences, ThreadWindows

CONSTANTS Messages,    \* mails, by content hash
          NoMail,      \* the content of a commit that yields no row
          MaxCommits,  \* bound: commits of a repository
          ChunkSize,   \* mail.commit_batch_size
          MaxAttempts, \* jobs.max_attempts
          MaxBreaks    \* bound: executions that fail, die or are cancelled

ASSUME ChunkAssumption  == ChunkSize \in Nat \ {0}
ASSUME LimitAssumption  == {MaxCommits, MaxBreaks} \subseteq Nat /\ MaxAttempts \in Nat \ {0}
ASSUME MailAssumption   == NoMail \notin Messages

VARIABLES tip,         \* tip[e]: the commit at the tip of e's branch, as git has it
          watermark,   \* repo_watermarks.last_indexed_commit_oid, <<>> for NULL
          instances,   \* list_message_instances
          run,         \* pipeline_runs.state of the list's latest run
          window,      \* the execution whose window pipeline_runs has, 0 for none
          job,         \* job[s]: state of the run's job of stage s
          attempt,     \* attempt[s]: its claims
          task,        \* stage whose job is running, 0 for none
          at,          \* the next statement of the running stage
          repo,        \* ingest: the repo whose commits are being read
          head,        \* ingest: the tip that the rev-list stream of repo started from
          read,        \* ingest: the commits of head up to this one are behind the stream
          chunkEnd,    \* ingest: the last commit of the chunk that was written
          left,        \* threading: epoch windows to come
          done,        \* done[s]: messages that stage s has processed
          breaks,      \* executions that broke off, against MaxBreaks
          handedOver   \* history: the execution that enqueued the run's threading job

streamVars == <<head, read, chunkEnd>>
ingestVars == <<repo, streamVars>>
queueVars == <<run, job, attempt, breaks>>
vars == <<tip, watermark, instances, run, window, job, attempt, task, at, ingestVars,
          left, done, breaks, handedOver>>

Stages  == 1..4          \* ingest, threading, lineage, lexical
Content == Messages \cup {NoMail}
Commits == {c \in Seq(Content) : Len(c) =< MaxCommits}
Mail(c) == c[Len(c)]
Ancestor(c, n) == SubSeq(c, 1, n)
Reachable(c) == {Ancestor(c, n) : n \in 1..Len(c)}

\* Commits the store has a row of, and the messages the window shows.
Stored(e)     == {i.commit : i \in {j \in instances : j.repo = e}}
InWindow(es)  == {Mail(i.commit) : i \in {j \in instances : j.repo \in es /\ j.seen = window}}
Touched       == {i.repo : i \in {j \in instances : j.seen = window}}

-----------------------------------------------------------------------------
(* The rows of the ingest stage *)

\* Mutant of StreamStart: nothing is skipped over: the walk starts at the first commit.
StreamStartAtRoot(e, since) == {0}

\* rev-list --reverse of the branch without what since reaches yields the commits of the
\* tip after the last one that since reaches.
StreamStart(e, since) ==
    {n \in 0..Len(tip[e]) :
        /\ n > 0 => Ancestor(tip[e], n) \in Reachable(since)
        /\ \A m \in n + 1..Len(tip[e]) : Ancestor(tip[e], m) \notin Reachable(since)}

\* Mutant of Since: the scan takes what a lost watermark leaves for nothing new.
SinceTip(e) == IF watermark[e] \in Reachable(tip[e]) THEN {watermark[e]} ELSE {tip[e]}

\* A watermark whose commit is gone (its branch was rewritten, and git may have pruned
\* it) excludes nothing.
Since(e) == IF watermark[e] \in Reachable(tip[e]) THEN {watermark[e]} ELSE {watermark[e], <<>>}

\* Mutant of NewInstances: rows for all commits of the chunk.
NewInstancesAgain(e, cs, execution) ==
    {[repo |-> e, commit |-> c, seen |-> execution] : c \in {d \in cs : Mail(d) # NoMail}}

\* Rows for the commits of a chunk that carry mail and have none; a row that is there
\* keeps its seen_at.
NewInstances(e, cs, execution) ==
    {[repo |-> e, commit |-> c, seen |-> execution] :
        c \in {d \in cs : Mail(d) # NoMail /\ d \notin Stored(e)}}

(* The windows of the threading stage *)

Lowest(S) == {e \in S : \A f \in S : e =< f}

ThreadingWindows == WindowsOf(Touched)

-----------------------------------------------------------------------------
(* Outside the workers *)

\* EXTERNAL: grokmirror fetches a new commit.
Push(e) ==
    /\ Len(tip[e]) < MaxCommits
    /\ \E m \in Messages \cup {NoMail} : tip' = [tip EXCEPT ![e] = Append(@, m)]
    /\ UNCHANGED <<watermark, instances, queueVars, window, task, at, ingestVars, left, done, handedOver>>

\* EXTERNAL: a mail is purged: the branch is rewritten from its commit on.
Purge(e) ==
    /\ \E n \in 1..Len(tip[e]) :
          /\ tip[e][n] # NoMail
          /\ tip' = [tip EXCEPT ![e][n] = NoMail]
    /\ UNCHANGED <<watermark, instances, queueVars, window, task, at, ingestVars, left, done, handedOver>>

\* POST /ingest/reset-watermark
ResetWatermark(e) ==
    /\ watermark[e] # <<>>
    /\ watermark' = [watermark EXCEPT ![e] = <<>>]
    /\ UNCHANGED <<tip, instances, queueVars, window, task, at, ingestVars, left, done, handedOver>>

\* The list's next run, activated with its ingest job when the last one is closed.
NewRun ==
    /\ run # "running" /\ task = 0
    /\ run' = "running"
    /\ window' = 0 /\ handedOver' = 0
    /\ job' = [s \in Stages |-> IF s = 1 THEN "queued" ELSE "none"]
    /\ attempt' = [s \in Stages |-> 0]
    /\ instances' = {[i EXCEPT !.seen = 0] : i \in instances}
    /\ UNCHANGED <<tip, watermark, task, at, ingestVars, left, done, breaks>>

-----------------------------------------------------------------------------
(* Jobs *)

\* The stream and the windows are a task's own.
NoStream == head' = <<>> /\ read' = 0 /\ chunkEnd' = 0

\* A stage job is claimed; the handler loads the run and skips a closed one.
Claim(s) ==
    /\ task = 0 /\ job[s] = "queued"
    /\ attempt' = [attempt EXCEPT ![s] = @ + 1]
    /\ IF run = "running"
       THEN /\ job' = [job EXCEPT ![s] = "running"]
            /\ task' = s
            /\ at' = IF s = 1 THEN "repo" ELSE "query"
       ELSE /\ job' = [job EXCEPT ![s] = "succeeded"]
            /\ UNCHANGED <<task, at>>
    /\ repo' \in Lowest(Epochs) /\ NoStream /\ left' = {}
    /\ UNCHANGED <<tip, watermark, instances, run, window, done, breaks, handedOver>>

\* Any statement of a running stage may fail, or its worker die: the job is queued again,
\* or fails with its last attempt.  A cancel or a terminal failure ends it at once.  A
\* job that ends so takes its run with it ("failed" is also cancelled).
BreakOff ==
    /\ task # 0 /\ breaks < MaxBreaks
    /\ breaks' = breaks + 1
    /\ \E last \in BOOLEAN :
          /\ attempt[task] >= MaxAttempts => last
          /\ job' = [job EXCEPT ![task] = IF last THEN "failed" ELSE "queued"]
          /\ run' = IF last /\ run = "running" THEN "failed" ELSE run
    /\ task' = 0 /\ at' = "idle"
    /\ NoStream /\ left' = {}
    /\ UNCHANGED <<tip, watermark, instances, window, attempt, repo, done, handedOver>>

\* enqueue_next_stage: the dedupe key has one job per run and stage.
Enqueued(jobs, s) == [jobs EXCEPT ![s] = IF @ = "none" THEN "queued" ELSE @]

-----------------------------------------------------------------------------
(* The ingest stage *)

Ingesting(label) == task = 1 /\ at = label

\* get_watermark and the start of the rev-list stream: what is pushed later is not in it.
ScanRepo ==
    /\ Ingesting("repo")
    /\ head' = tip[repo] /\ chunkEnd' = 0
    /\ \E since \in Since(repo) : read' \in StreamStart(repo, since)
    /\ at' = "chunk"
    /\ UNCHANGED <<tip, watermark, instances, queueVars, window, task, repo, left, done, handedOver>>

\* next_chunk, parse_commit_rows and ingest_messages_copy_batch, in one transaction.
WriteChunk ==
    /\ Ingesting("chunk") /\ read < Len(head)
    /\ chunkEnd' = IF Len(head) - read < ChunkSize THEN Len(head) ELSE read + ChunkSize
    /\ instances' = instances \cup
          NewInstances(repo, {Ancestor(head, n) : n \in read + 1..chunkEnd'}, attempt[1])
    /\ at' = "mark"
    /\ UNCHANGED <<tip, watermark, queueVars, window, task, repo, head, read, left, done, handedOver>>

\* Mutant of MarkWatermark: the watermark is moved to the tip the stream started from.
MarkTip ==
    /\ Ingesting("mark")
    /\ watermark' = [watermark EXCEPT ![repo] = head]
    /\ read' = chunkEnd
    /\ at' = "chunk"
    /\ UNCHANGED <<tip, instances, queueVars, window, task, repo, head, chunkEnd, left, done, handedOver>>

\* update_watermark with the last commit of the chunk.
MarkWatermark ==
    /\ Ingesting("mark")
    /\ watermark' = [watermark EXCEPT ![repo] = Ancestor(head, chunkEnd)]
    /\ read' = chunkEnd
    /\ at' = "chunk"
    /\ UNCHANGED <<tip, instances, queueVars, window, task, repo, head, chunkEnd, left, done, handedOver>>

\* The stream ends: the next repo in epoch order, or the window.
NextRepo ==
    /\ Ingesting("chunk") /\ read = Len(head)
    /\ LET later == {e \in Epochs : e > repo}
       IN  IF later = {}
           THEN at' = "window" /\ UNCHANGED repo
           ELSE at' = "repo" /\ repo' \in Lowest(later)
    /\ NoStream
    /\ UNCHANGED <<tip, watermark, instances, queueVars, window, task, left, done, handedOver>>

\* Mutant of SetWindow: a window that an earlier execution set is kept.
SetWindowOnce ==
    /\ Ingesting("window")
    /\ window' = IF window = 0 THEN attempt[1] ELSE window
    /\ at' = "enqueue"
    /\ UNCHANGED <<tip, watermark, instances, queueVars, task, ingestVars, left, done, handedOver>>

\* set_run_ingest_window: from the start of this execution to now.
SetWindow ==
    /\ Ingesting("window")
    /\ window' = attempt[1]
    /\ at' = "enqueue"
    /\ UNCHANGED <<tip, watermark, instances, queueVars, task, ingestVars, left, done, handedOver>>

EnqueueThreading ==
    /\ Ingesting("enqueue")
    /\ job' = Enqueued(job, 2)
    /\ handedOver' = IF job[2] = "none" THEN attempt[1] ELSE handedOver
    /\ at' = "return"
    /\ UNCHANGED <<tip, watermark, instances, run, attempt, breaks, window, task, ingestVars, left, done>>

IngestReturns ==
    /\ Ingesting("return")
    /\ job' = [job EXCEPT ![1] = "succeeded"]
    /\ task' = 0 /\ at' = "idle"
    /\ UNCHANGED <<tip, watermark, instances, run, attempt, breaks, window, ingestVars, left, done, handedOver>>

-----------------------------------------------------------------------------
(* The stages that read the window *)

\* The touched repos give the epoch windows.
PlanThreading ==
    /\ task = 2 /\ at = "query"
    /\ left' = ThreadingWindows
    /\ at' = "thread"
    /\ UNCHANGED <<tip, watermark, instances, queueVars, window, task, ingestVars, done, handedOver>>

\* The window's messages of two epochs are threaded, one transaction.
ThreadWindow ==
    /\ task = 2 /\ at = "thread" /\ left # {}
    /\ \E w \in FirstWindows(left) :
          /\ done' = [done EXCEPT ![2] = @ \cup InWindow(w)]
          /\ left' = left \ {w}
    /\ UNCHANGED <<tip, watermark, instances, queueVars, window, task, at, ingestVars, handedOver>>

ThreadingDone ==
    /\ task = 2 /\ at = "thread" /\ left = {}
    /\ at' = "return"
    /\ UNCHANGED <<tip, watermark, instances, queueVars, window, task, ingestVars, left, done, handedOver>>

\* Lineage reads the threads that have a message in the window.
ExtractLineage ==
    /\ task = 3 /\ at = "query"
    /\ done' = [done EXCEPT ![3] = @ \cup (InWindow(Epochs) \cap done[2])]
    /\ at' = "return"
    /\ UNCHANGED <<tip, watermark, instances, queueVars, window, task, ingestVars, left, handedOver>>

\* Lexical writes the documents of those threads and of the series lineage made of them.
UpsertDocuments ==
    /\ task = 4 /\ at = "query"
    /\ done' = [done EXCEPT ![4] = @ \cup (InWindow(Epochs) \cap done[2] \cap done[3])]
    /\ at' = "return"
    /\ UNCHANGED <<tip, watermark, instances, queueVars, window, task, ingestVars, left, handedOver>>

\* The stage enqueues its successor, the last one closes the run.
StageReturns ==
    /\ task \in 2..4 /\ at = "return"
    /\ LET ended == [job EXCEPT ![task] = "succeeded"]
       IN  IF task = 4
           THEN job' = ended /\ run' = "succeeded"
           ELSE job' = Enqueued(ended, task + 1) /\ UNCHANGED run
    /\ task' = 0 /\ at' = "idle"
    /\ UNCHANGED <<tip, watermark, instances, attempt, breaks, window, ingestVars, left, done, handedOver>>

-----------------------------------------------------------------------------
Init ==
    /\ tip = [e \in Epochs |-> <<>>]
    /\ watermark = [e \in Epochs |-> <<>>]
    /\ instances = {}
    /\ run = "none" /\ window = 0 /\ handedOver = 0
    /\ job = [s \in Stages |-> "none"] /\ attempt = [s \in Stages |-> 0]
    /\ task = 0 /\ at = "idle"
    /\ repo \in Lowest(Epochs) /\ head = <<>> /\ read = 0 /\ chunkEnd = 0 /\ left = {}
    /\ done = [s \in Stages |-> {}]
    /\ breaks = 0

IngestStep == ScanRepo \/ WriteChunk \/ MarkWatermark \/ NextRepo \/ SetWindow
              \/ EnqueueThreading \/ IngestReturns
StageStep  == PlanThreading \/ ThreadWindow \/ ThreadingDone \/ ExtractLineage
              \/ UpsertDocuments \/ StageReturns

Next == \/ \E e \in Epochs : Push(e) \/ Purge(e) \/ ResetWatermark(e)
        \/ NewRun
        \/ \E s \in Stages : Claim(s)
        \/ BreakOff
        \/ IngestStep
        \/ StageStep

Spec == Init /\ [][Next]_vars

\* Runs keep being requested, queued jobs are claimed, and a task goes on.
Fairness == /\ WF_vars(NewRun)
            /\ WF_vars(\E s \in Stages : Claim(s))
            /\ WF_vars(IngestStep) /\ WF_vars(StageStep)
FairSpec == Spec /\ Fairness

-----------------------------------------------------------------------------
(* Properties *)

\* Every variable has its type, a job is claimed at most MaxAttempts times, and a stream
\* does not pass its tip.
TypeOK ==
    /\ tip \in [Epochs -> Commits] /\ watermark \in [Epochs -> Commits]
    /\ instances \subseteq [repo : Epochs, commit : Commits, seen : 0..MaxAttempts]
    /\ run \in {"none", "running", "succeeded", "failed"}
    /\ {window, handedOver} \subseteq 0..MaxAttempts
    /\ job \in [Stages -> {"none", "queued", "running", "succeeded", "failed"}]
    /\ attempt \in [Stages -> 0..MaxAttempts]
    /\ task \in {0} \cup Stages
    /\ at \in {"idle", "repo", "chunk", "mark", "window", "enqueue", "return", "query", "thread"}
    /\ repo \in Epochs /\ head \in Commits /\ read \in 0..Len(head) /\ chunkEnd \in 0..Len(head)
    /\ left \subseteq SUBSET Epochs
    /\ done \in [Stages -> SUBSET Messages]
    /\ breaks \in 0..MaxBreaks

\* What lies behind a watermark is in the store: whatever breaks off between the rows of a
\* chunk and its mark, and however the branch is rewritten or the watermark reset, no
\* mail that the next scan leaves out is missing (ingest.rs writes rows, then marks).
StoredBehindWatermark ==
    \A e \in Epochs : \A c \in Reachable(watermark[e]) : Mail(c) # NoMail => c \in Stored(e)

\* A commit that is read again, after a break between rows and mark, a reset or a missing
\* watermark, gets no second row: no insert meets the unique index of
\* list_message_instances, so that a retry is never stuck on what was done before.
OneInstancePerCommit ==
    \A i, j \in instances : i.repo = j.repo /\ i.commit = j.commit => i = j

\* The message of every row written by the execution that handed the run over to
\* threading is threaded, extracted and indexed when the run has succeeded, unless the
\* ingest job ran once more.  (Rows of its other executions are in no window.)
HandedOverIsProcessed ==
    run = "succeeded" /\ attempt[1] = handedOver =>
        \A i \in instances : i.seen = handedOver =>
            \A s \in Stages \ {1} : Mail(i.commit) \in done[s]

\* A watermark moves on along its branch, is reset, or leaves a branch that was rewritten:
\* it never goes back to have the list scanned again (scanner.rs, update_watermark).
WatermarkAdvances ==
    [][\A e \in Epochs : \/ watermark'[e] \in {watermark[e], <<>>}
                         \/ watermark[e] \in Reachable(watermark'[e]) \cup {<<>>}
                         \/ watermark[e] \notin Reachable(tip[e])]_vars

\* Once fetches and purges stop, all mail of every branch gets into the store and stays
\* there, as long as runs keep being requested: no break, reset or rewrite makes the scan
\* pass over a commit for good.
EverythingStored ==
    <>[](\A e \in Epochs : \A c \in Reachable(tip[e]) : Mail(c) # NoMail => c \in Stored(e))

=============================================================================
