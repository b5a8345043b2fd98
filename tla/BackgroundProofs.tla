--------------------------- MODULE BackgroundProofs ---------------------------
(* Theorems about Background, for any runs, documents, patches and histories. *)
EXTENDS Background, OrderFacts, SequenceTheorems

-----------------------------------------------------------------------------
(* What the operators return. *)

LEMMA MaxIn ==
  ASSUME NEW T \in SUBSET Nat, IsFiniteSet(T), T # {}
  PROVE  Max(T) \in T /\ \A x \in T : x =< Max(T)
<1>1. \E m \in T : \A x \in T : m >= x
  BY GreatestOf
<1>2. Max(T) \in T /\ \A x \in T : Max(T) >= x
  BY <1>1 DEF Max
<1> QED
  BY <1>2

LEMMA MinIn ==
  ASSUME NEW T \in SUBSET Nat, T # {}
  PROVE  Min(T) \in T /\ \A x \in T : Min(T) =< x
BY LeastOf DEF Min

\* Commits have an order.
Age(S) == {p \in S \X S : Older(p[1], p[2])}

LEMMA AgeOrders ==
  ASSUME Repository(history), NEW S \in SUBSET Commits
  PROVE  IsFiniteSet(S) /\ StrictOrder(Age(S), S)
<1>1. \A c \in S : c \in Nat /\ Commit(c).time \in Nat
  BY DEF Repository, Commits, Commit
<1>2. StrictOrder(Age(S), S)
  BY <1>1 DEF StrictOrder, Age, Older
<1>3. IsFiniteSet(S)
  BY FS_Subset DEF Repository, Commits
<1> QED
  BY <1>2, <1>3

LEMMA InOrderType ==
  ASSUME Repository(history), NEW S \in SUBSET Commits
  PROVE  InOrder(S) \in Seq(S)
<1>1. IsFiniteSet(S) /\ StrictOrder(Age(S), S) /\ Cardinality(S) \in Nat
  BY AgeOrders, FS_CardinalityType
<1>2. ASSUME NEW n \in 1..Cardinality(S)
      PROVE  \E c \in S : Cardinality({d \in S : Older(d, c)}) = n - 1
  <2>1. PICK c \in S : Cardinality(Before(Age(S), S, c)) = n - 1
    BY <1>1, Ranked
  <2>2. Before(Age(S), S, c) = {d \in S : Older(d, c)}
    BY DEF Before, Age
  <2> QED
    BY <2>1, <2>2
<1>3. InOrder(S) \in [1..Cardinality(S) -> S]
  BY <1>2 DEF InOrder
<1> QED
  BY <1>1, <1>3

LEMMA WalkType ==
  ASSUME Repository(history), NEW head, NEW stop
  PROVE  Walk(head, stop) \in Seq(Commits)
<1>1. Scanned(head, stop) \in SUBSET Commits
  BY DEF Scanned
<1>2. InOrder(Scanned(head, stop)) \in Seq(Scanned(head, stop))
  BY <1>1, InOrderType
<1> QED
  BY <1>1, <1>2 DEF Walk

-----------------------------------------------------------------------------
(* The inductive type invariant. *)

Created == {r \in Runs : runs[r].state # "absent"}

\* Ids of runs are given out in order, each to one request, which enqueues its job once.
RunsApart ==
  /\ Created = 1..Cardinality(Created)
  /\ \A r \in Runs : runs[r].state = "absent" => job[r] = "none"
  /\ \A p \in Posters :
       /\ poster[p].pc \in {"enqueue", "bind"} => poster[p].run # NoRun
       /\ poster[p].run # NoRun => runs[poster[p].run].state # "absent"
       /\ poster[p].pc = "enqueue" => job[poster[p].run] = "none"
  /\ \A p, q \in Posters : poster[p].run # NoRun /\ poster[p].run = poster[q].run => p = q
  /\ canceller.pc # "idle" => canceller.run # NoRun /\ runs[canceller.run].state # "absent"

\* Jobs, their attempts and executions.
JobsInStep ==
  /\ \A j \in Jobs : /\ job[j] = "none" => attempt[j] = 0
                     /\ job[j] = "waiting" => attempt[j] < MaxAttempts
                     /\ at[j] # "none" => job[j] = "running"

\* A job of the pipeline, or of a batch, comes with its row.
RowsInStep ==
  /\ \A b \in Batches : batch[b].source = 0 => job[b] = "none"
  /\ pipeline = "none" => \A j \in {Threading, Lexical, Embedding} : job[j] = "none"

\* A scan has what its next step takes.
ScanInStep ==
  /\ Repository(history)
  /\ kind = "mainline" => \A r \in Runs :
       /\ runs[r].cursor[1] \in {NoCommit} \cup Commits
       /\ at[r] \in {"chunk", "commits", "matches", "insert", "save"} => scan[r].todo # <<>>
       /\ at[r] \in {"sum", "rollup", "publish"} => scan[r].left # {}
       /\ at[r] \in {"chunk", "commits", "matches", "insert", "save", "sum", "rollup", "publish",
                     "state_done"} => scan[r].step # 0

\* So has a writer of documents.
DocsInStep ==
  /\ work = [j \in Jobs |-> work[j]]
  /\ kind # "mainline" => \A r \in Runs :
       at[r] \in {"submit", "save", "enqueue", "progress"} =>
         work[r].ids \in SUBSET Docs /\ work[r].ids # {}
  /\ \A j \in Jobs : at[j] = "submit" =>
       \A d \in DOMAIN work[j].docs : work[j].docs[d] \in DocRow
  /\ \A j \in Jobs : at[j] = "vectors" =>
       \A d \in DOMAIN work[j].docs : work[j].docs[d] \in Nat

AtTypes == /\ at = [j \in Jobs |-> at[j]]
           /\ \A j \in Jobs : at[j] \in StepsOf(j)

TypeInv == /\ ControlTypeOK /\ ScanTypeOK /\ DocsTypeOK /\ AtTypes
           /\ RunsApart /\ JobsInStep /\ RowsInStep /\ ScanInStep /\ DocsInStep

-----------------------------------------------------------------------------
(* What a step of a handler does to runs and jobs. *)

\* Execution j goes on, or breaks off.
Advance(j) ==
  /\ at[j] # "none"
  /\ \E s \in StepsOf(j) : at' = [at EXCEPT ![j] = s]
  /\ UNCHANGED <<setup, attempt, cancel, requestVars, cancels>>
  /\ faults' \in {faults, faults - 1} /\ faults' \in Nat

MarksRun(j) == j \in Runs /\ \E s \in {"running"} \cup Closed : Mark(j, s)
MovesCursor(j) == j \in Runs /\ \E i \in {1, 2}, n \in Nat : runs' = [runs EXCEPT ![j].cursor[i] = n]

Adds == \E k \in Jobs \ Runs : job[k] = "none" /\ job' = [job EXCEPT ![k] = "waiting"]

Handles(j) == /\ Advance(j)
              /\ UNCHANGED runs \/ MarksRun(j) \/ MovesCursor(j)
              /\ UNCHANGED job \/ Adds

LEMMA JobSets ==
  /\ RunBound \in Nat /\ JobBound \in Nat /\ Runs \subseteq Jobs
  /\ Threading \in Jobs \ Runs /\ Lexical \in Jobs \ Runs /\ Embedding \in Jobs \ Runs
  /\ Threading # Lexical /\ Lexical # Embedding /\ Threading # Embedding
  /\ Batches \subseteq Jobs \ Runs
  /\ \A j \in {Threading, Lexical, Embedding} : j \notin Batches
  /\ Threading \in Nat /\ Lexical \in Nat /\ Embedding \in Nat
  /\ NoRun \notin Runs /\ 0 \notin Jobs
BY BoundAssumption, JobsAssumption
   DEF Runs, Jobs, Threading, Lexical, Embedding, Batches, NoRun

LEMMA FaultType ==
  ASSUME TypeInv
  PROVE  faults \in Nat /\ cancels \in Nat /\ slots \in Nat /\ kind \in {"mainline", "meili", "backfill"}
BY SetupAssumption DEF TypeInv, ControlTypeOK

LEMMA ChunkFacts ==
  ASSUME TypeInv, NEW r \in Runs, scan[r].todo # <<>>
  PROVE  /\ Chunk(r) \in Seq(Commits) /\ Len(Chunk(r)) \in 1..Len(scan[r].todo)
         /\ Last(Chunk(r)) \in ToSet(Chunk(r)) /\ ToSet(Chunk(r)) \subseteq Commits
         /\ SubSeq(scan[r].todo, Len(Chunk(r)) + 1, Len(scan[r].todo)) \in Seq(Commits)
<1> DEFINE todo == scan[r].todo
           n == Min({ChunkSize, Len(todo)})
<1>1. todo \in Seq(Commits) /\ Len(todo) \in Nat \ {0}
  BY DEF TypeInv, ScanTypeOK, ScanRow
<1>2. n \in 1..Len(todo)
  <2>1. {ChunkSize, Len(todo)} \in SUBSET Nat
    BY <1>1, ChunkAssumption
  <2>2. n \in {ChunkSize, Len(todo)} /\ n =< Len(todo)
    BY <2>1, MinIn
  <2> QED
    BY <1>1, <2>2, ChunkAssumption
<1> HIDE DEF todo, n
<1>3. Chunk(r) = SubSeq(todo, 1, n)
  BY DEF Chunk, todo, n
<1>4. Chunk(r) \in Seq(Commits) /\ Len(Chunk(r)) = n
  BY <1>1, <1>2, <1>3
<1>5. SubSeq(todo, Len(Chunk(r)) + 1, Len(todo)) \in Seq(Commits)
  BY <1>1, <1>2, <1>4
<1>6. Last(Chunk(r)) \in ToSet(Chunk(r)) /\ ToSet(Chunk(r)) \subseteq Commits
  BY <1>2, <1>4 DEF Last, ToSet
<1> QED
  BY <1>2, <1>4, <1>5, <1>6 DEF todo

LEMMA BreakMoves ==
  ASSUME TypeInv, NEW j \in Jobs,
         Breaks(j) \/ BackfillFails(j) \/ EmbeddingRefused(j) \/ Refuse(j)
  PROVE  Handles(j)
BY FaultType
   DEF TypeInv, AtTypes, Breaks, BackfillFails, EmbeddingRefused, Refuse, Fault, Handles, Advance,
       StepsOf, Returned, MarksRun, Closed, jobVars, requestVars, setup

LEMMA ScanMoves ==
  ASSUME TypeInv, NEW j \in Runs, kind = "mainline", ScanStep(j)
  PROVE  Handles(j)
<1> USE FaultType, JobSets DEF HandlerStep, Handles, Advance, StepsOf, RunSteps, Returned, counters, setup, requestVars
<1>1. CASE LoadScan(j)
  BY <1>1 DEF LoadScan, LoadRun, MarksRun
<1>2. CASE EnsureState(j)
  BY <1>2 DEF EnsureState
<1>3. CASE \/ Unready(j) \/ Resolve(j) \/ UpsertCommits(j)
           \/ UnsetCanonical(j) \/ InsertMatches(j) \/ InsertRefused(j)
  BY <1>3 DEF Unready, Resolve, UpsertCommits, UnsetCanonical, InsertMatches, InsertRefused
<1>4. CASE Prepare(j)
  BY <1>4 DEF Prepare, AfterChunks
<1>5. CASE SaveChunk(j)
  <2>1. scan[j].todo # <<>> /\ Commits \subseteq Nat
    BY <1>5 DEF SaveChunk, TypeInv, ScanInStep, Repository, Commits
  <2>2. Last(Chunk(j)) \in Nat
    BY <2>1, ChunkFacts
  <2>3. MovesCursor(j)
    BY <1>5, <2>2 DEF SaveChunk, MovesCursor
  <2> QED
    BY <1>5, <2>3 DEF SaveChunk, AfterChunks
<1>6. CASE SumUp(j) \/ WriteRollup(j) \/ MarkState(j)
  BY <1>6 DEF SumUp, WriteRollup, MarkState
<1>7. CASE Publish(j)
  BY <1>7 DEF Publish
<1>8. CASE ScanSucceeds(j)
  BY <1>8 DEF ScanSucceeds, Succeed, MarksRun, Closed
<1>9. CASE ScanCancelled(j)
  BY <1>9 DEF ScanCancelled, StopForCancel, MarksRun, Closed
<1> QED
  BY <1>1, <1>2, <1>3, <1>4, <1>5, <1>6, <1>7, <1>8, <1>9 DEF ScanStep

\* A batch gets a row and a job that were not there, or has both.
LEMMA EnqueueBatchIs ==
  ASSUME TypeInv, NEW s, NEW ids, EnqueueBatch(s, ids)
  PROVE  \/ UNCHANGED <<batch, job>> /\ \E b \in Batches : batch[b] = [source |-> s, ids |-> ids]
         \/ \E b \in Batches : /\ batch[b].source = 0 /\ job[b] = "none"
                               /\ batch' = [batch EXCEPT ![b] = [source |-> s, ids |-> ids]]
                               /\ job' = [job EXCEPT ![b] = "waiting"]
<1> DEFINE free == {b \in Batches : batch[b].source = 0}
<1>1. CASE \E b \in Batches : SameBatch(b, s, ids)
  BY <1>1 DEF EnqueueBatch, SameBatch
<1>2. CASE ~\E b \in Batches : SameBatch(b, s, ids)
  <2>1. /\ free # {}
        /\ batch' = [batch EXCEPT ![Min(free)] = [source |-> s, ids |-> ids]]
        /\ job' = [job EXCEPT ![Min(free)] = "waiting"]
    BY <1>2 DEF EnqueueBatch
  <2>2. free \in SUBSET Nat
    BY JobSets DEF Batches
  <2>3. Min(free) \in free
    BY <2>1, <2>2, MinIn
  <2>4. job[Min(free)] = "none"
    BY <2>3 DEF TypeInv, RowsInStep
  <2> QED
    BY <2>1, <2>3, <2>4
<1> QED
  BY <1>1, <1>2

\* The ids a handler works on have a last one.
LEMMA LastId ==
  ASSUME NEW ids \in SUBSET Docs, ids # {}
  PROVE  Max(ids) \in ids /\ Max(ids) \in Nat \ {0} /\ \A d \in ids : d =< Max(ids)
<1>1. IsFiniteSet(Docs) /\ Docs \subseteq Nat \ {0}
  BY DocAssumption, FS_Interval DEF Docs
<1>2. IsFiniteSet(ids) /\ ids \in SUBSET Nat
  BY <1>1, FS_Subset
<1>3. Max(ids) \in ids /\ \A d \in ids : d =< Max(ids)
  BY <1>2, MaxIn
<1> QED
  BY <1>1, <1>3

LEMMA BootstrapMoves ==
  ASSUME TypeInv, NEW j \in Runs, BootstrapStep(j)
  PROVE  Handles(j)
<1> USE FaultType, JobSets DEF HandlerStep, Handles, Advance, StepsOf, RunSteps, Returned, counters, setup, requestVars
<1>0. kind = "meili"
  BY DEF BootstrapStep
<1>1. CASE LoadRun(j, "threads")
  BY <1>0, <1>1 DEF LoadRun, MarksRun
<1>2. CASE ListChunk(j)
  BY <1>0, <1>2 DEF ListChunk
<1>3. CASE SubmitChunk(j)
  BY <1>0, <1>3 DEF SubmitChunk, Submits
<1>4. CASE SaveCursor(j)
  <2>1. at[j] = "save" /\ runs' = [runs EXCEPT ![j].cursor[ScopeOf(work[j].ids)] = Max(work[j].ids)]
    BY <1>4 DEF SaveCursor
  <2>2. work[j].ids \in SUBSET Docs /\ work[j].ids # {}
    BY <1>0, <2>1 DEF TypeInv, DocsInStep
  <2>3. MovesCursor(j)
    BY <2>1, <2>2, LastId DEF MovesCursor, ScopeOf
  <2> QED
    BY <1>0, <1>4, <2>3 DEF SaveCursor
<1>5. CASE Succeed(j, "mark")
  BY <1>0, <1>5 DEF Succeed, MarksRun, Closed
<1>6. CASE \E from \in {"threads", "series"} : StopForCancel(j, from)
  BY <1>0, <1>6 DEF StopForCancel, MarksRun, Closed
<1> QED
  BY <1>1, <1>2, <1>3, <1>4, <1>5, <1>6 DEF BootstrapStep

LEMMA BackfillMoves ==
  ASSUME TypeInv, NEW j \in Runs, BackfillStep(j)
  PROVE  Handles(j)
<1> USE FaultType, JobSets DEF HandlerStep, Handles, Advance, StepsOf, RunSteps, Returned, counters, setup, requestVars
<1>0. kind = "backfill"
  BY DEF BackfillStep
<1>1. CASE LoadRun(j, "list")
  BY <1>0, <1>1 DEF LoadRun, MarksRun
<1>2. CASE ListBatch(j)
  BY <1>0, <1>2 DEF ListBatch
<1>3. CASE BackfillEnqueues(j)
  <2>1. UNCHANGED job \/ Adds
    BY <1>3, EnqueueBatchIs DEF BackfillEnqueues, Adds
  <2> QED
    BY <1>0, <1>3, <2>1 DEF BackfillEnqueues
<1>4. CASE BackfillProgress(j)
  <2>1. at[j] = "progress" /\ runs' = [runs EXCEPT ![j].cursor[1] = Max(work[j].ids)]
    BY <1>4 DEF BackfillProgress
  <2>2. work[j].ids \in SUBSET Docs /\ work[j].ids # {}
    BY <1>0, <2>1 DEF TypeInv, DocsInStep
  <2>3. MovesCursor(j)
    BY <2>1, <2>2, LastId DEF MovesCursor
  <2> QED
    BY <1>0, <1>4, <2>3 DEF BackfillProgress
<1>5. CASE Succeed(j, "mark")
  BY <1>0, <1>5 DEF Succeed, MarksRun, Closed
<1>6. CASE StopForCancel(j, "list")
  BY <1>0, <1>6 DEF StopForCancel, MarksRun, Closed
<1> QED
  BY <1>1, <1>2, <1>3, <1>4, <1>5, <1>6 DEF BackfillStep

LEMMA BatchMoves ==
  ASSUME TypeInv, NEW j \in Batches, BatchStep(j)
  PROVE  Handles(j)
<1> USE FaultType, JobSets DEF HandlerStep, Handles, Advance, StepsOf, Returned, counters, setup, requestVars
<1>1. CASE ReadInputs(j) \/ UpsertVectors(j) \/ BuildEmbedded(j)
  BY <1>1 DEF ReadInputs, UpsertVectors, BuildEmbedded
<1>2. CASE SubmitEmbedded(j)
  BY <1>2 DEF SubmitEmbedded, Submits
<1>3. CASE StopForCancel(j, "load")
  BY <1>3 DEF StopForCancel
<1> QED
  BY <1>1, <1>2, <1>3 DEF BatchStep

LEMMA PipelineMoves ==
  ASSUME TypeInv, PipelineStep
  PROVE  PipelineStarts \/ \E j \in {Threading, Lexical, Embedding} : Handles(j)
<1> USE FaultType, JobSets DEF HandlerStep, Handles, Advance, StepsOf, Returned, counters, setup, requestVars
<1>1. CASE ChangeRows
  BY <1>1 DEF ChangeRows, EnqueueStage, Adds, TypeInv, ControlTypeOK
<1>2. CASE BuildChanged \/ MarkPipeline
  BY <1>2 DEF BuildChanged, MarkPipeline
<1>3. CASE SubmitChanged
  BY <1>3 DEF SubmitChanged, Submits
<1>4. CASE HandOver
  BY <1>4 DEF HandOver, EnqueueStage, Adds, TypeInv, ControlTypeOK
<1>5. CASE \E j \in {Threading, Lexical} : SkipStage(j)
  BY <1>5 DEF SkipStage
<1>6. CASE \E i \in {1, 2} : EmbedChanged(i)
  <2>1. UNCHANGED job \/ Adds
    BY <1>6, EnqueueBatchIs DEF EmbedChanged, Adds
  <2> QED
    BY <1>6, <2>1 DEF EmbedChanged
<1>7. CASE StopForCancel(Lexical, "load")
  BY <1>7 DEF StopForCancel
<1>8. CASE \E from \in {"load", "embed_series"} : StopForCancel(Embedding, from)
  BY <1>8 DEF StopForCancel
<1> QED
  BY <1>1, <1>2, <1>3, <1>4, <1>5, <1>6, <1>7, <1>8 DEF PipelineStep

\* What a step does to requests, runs and jobs.
LEMMA ControlMoves ==
  ASSUME TypeInv, [Next]_vars
  PROVE  \/ \E p \in Posters : \/ \E m \in {"bootstrap", "incremental"} : Check(p, m)
                               \/ Create(p) \/ EnqueueRun(p) \/ Bind(p)
                               \/ EnqueueFails(p) \/ PosterLost(p)
         \/ CancelLost \/ CancelJob \/ CancelMark
         \/ \E r \in Runs : CancelRead(r)
         \/ \E j \in Jobs : CancelDirect(j) \/ Claim(j) \/ Finalize(j) \/ Sweep(j) \/ Handles(j)
         \/ PipelineStarts /\ pipeline = "none"
         \/ UNCHANGED controlVars
<1>1. CASE UNCHANGED vars
  BY <1>1 DEF vars
<1>2. ASSUME NEW p \in Posters, Start(p) PROVE \E m \in {"bootstrap", "incremental"} : Check(p, m)
  BY <1>2 DEF Start
<1>3. ASSUME NEW j \in Jobs, Handle(j) PROVE Handles(j)
  <2>1. CASE SkipRun(j)
    BY <2>1, FaultType, JobSets
       DEF SkipRun, HandlerStep, Handles, Advance, StepsOf, Returned, counters, setup, requestVars
  <2> QED
    BY <1>3, <2>1, ScanMoves, BootstrapMoves, BackfillMoves, BatchMoves DEF Handle
<1>4. ASSUME NEW j \in Jobs, Broken(j) PROVE Handles(j)
  BY <1>4, BreakMoves DEF Broken, ScanBreaks, DocsBreak
<1>5. CASE Pipeline
  BY <1>5, PipelineMoves, JobSets DEF Pipeline, PipelineStarts
<1>6. CASE Fetch
  BY <1>6 DEF Fetch
<1> QED
  BY <1>1, <1>2, <1>3, <1>4, <1>5, <1>6
     DEF Next, Request, RequestBreaks, Cancelling, Claims, Ends

LEMMA NewRunIsNew ==
  ASSUME TypeInv, NEW p \in Posters, Create(p)
  PROVE  \E r \in Runs :
           /\ runs[r].state = "absent" /\ r = Cardinality(Created) + 1
           /\ Cardinality(Created) \in Nat
           /\ runs' = [runs EXCEPT ![r].state = IF kind = "backfill" THEN "running" ELSE "queued",
                                   ![r].mode = poster[p].mode]
           /\ poster' = [poster EXCEPT ![p].pc = "enqueue", ![p].run = r]
<1>1. IsFiniteSet(Runs) /\ Created \in SUBSET Runs
  BY BoundAssumption, FS_Interval DEF Runs, Created
<1>2. Cardinality(Created) \in Nat
  BY <1>1, FS_Subset, FS_CardinalityType
<1>3. Cardinality(Created) + 1 \notin Created
  BY <1>2 DEF TypeInv, RunsApart
<1>4. Cardinality({q \in Runs : runs[q].state # "absent"}) = Cardinality(Created)
  BY DEF Created
<1> QED
  BY <1>2, <1>3, <1>4 DEF Create, Created

RunRow == [state : {"absent"} \cup Open \cup Closed, bound : BOOLEAN,
           mode : {"bootstrap", "incremental"}, cursor : Nat \X Nat]
JobState == {"none", "waiting", "running", "succeeded", "failed_terminal", "cancelled"}

LEMMA RunTypesStep ==
  ASSUME TypeInv, [Next]_vars
  PROVE  runs' \in [Runs -> RunRow]
<1> USE DEF RunRow, Open, Closed
<1>1. runs \in [Runs -> RunRow]
  BY DEF TypeInv, ControlTypeOK
<1>2. ASSUME NEW p \in Posters, Create(p) PROVE runs' \in [Runs -> RunRow]
  <2>1. poster[p].mode \in {"bootstrap", "incremental"}
    BY DEF TypeInv, ControlTypeOK
  <2> DEFINE s == IF kind = "backfill" THEN "running" ELSE "queued"
  <2>2. PICK q \in Runs : runs' = [runs EXCEPT ![q].state = s, ![q].mode = poster[p].mode]
    BY <1>2, NewRunIsNew
  <2>3. s \in {"running", "queued"}
    OBVIOUS
  <2> HIDE DEF s
  <2> QED
    BY <1>1, <2>1, <2>2, <2>3, ZenonT(40)
<1>3. ASSUME NEW p \in Posters, EnqueueRun(p) \/ Bind(p) \/ EnqueueFails(p) \/ PosterLost(p)
      PROVE  runs' \in [Runs -> RunRow]
  <2>1. CASE UNCHANGED runs
    BY <1>1, <2>1
  <2>2. CASE Bind(p)
    BY <1>1, <2>2, ZenonT(40) DEF Bind
  <2>3. CASE Mark(poster[p].run, "failed")
    BY <1>1, <2>3, ZenonT(40) DEF Mark
  <2> QED
    BY <1>3, <2>1, <2>2, <2>3 DEF EnqueueRun, EnqueueFails, PosterLost
<1>4. CASE CancelMark
  <2>1. canceller.run \in {NoRun} \cup Runs
    BY DEF TypeInv, ControlTypeOK
  <2> QED
    BY <1>1, <1>4, <2>1 DEF CancelMark, Mark
<1>5. ASSUME NEW j \in Jobs, Handles(j) PROVE runs' \in [Runs -> RunRow]
  <2>1. CASE UNCHANGED runs
    BY <1>1, <2>1
  <2>2. CASE MarksRun(j)
    BY <1>1, <2>2 DEF MarksRun, Mark
  <2>3. CASE MovesCursor(j)
    BY <1>1, <2>3 DEF MovesCursor
  <2> QED
    BY <1>5, <2>1, <2>2, <2>3 DEF Handles
<1>6. CASE UNCHANGED runs
  BY <1>1, <1>6
<1> QED
  BY ControlMoves, <1>2, <1>3, <1>4, <1>5, <1>6
     DEF Check, CancelLost, CancelJob, CancelRead, CancelDirect, Claim, Finalize, Sweep,
         PipelineStarts, controlVars

LEMMA RequestTypesStep ==
  ASSUME TypeInv, [Next]_vars
  PROVE  /\ poster' \in [Posters -> [pc : {"check", "create", "enqueue", "bind", "done"},
                                     run : {NoRun} \cup Runs, mode : {"bootstrap", "incremental"}]]
         /\ canceller' \in [pc : {"idle", "job", "mark"}, run : {NoRun} \cup Runs]
<1> DEFINE Row == [pc : {"check", "create", "enqueue", "bind", "done"},
                   run : {NoRun} \cup Runs, mode : {"bootstrap", "incremental"}]
           Asked == [pc : {"idle", "job", "mark"}, run : {NoRun} \cup Runs]
<1>1. poster \in [Posters -> Row] /\ canceller \in Asked
  BY DEF TypeInv, ControlTypeOK
<1>2. ASSUME NEW p \in Posters, NEW m \in {"bootstrap", "incremental"}, Check(p, m)
      PROVE  poster' \in [Posters -> Row] /\ UNCHANGED canceller
  BY <1>1, <1>2 DEF Check
<1>3. ASSUME NEW p \in Posters, Create(p) PROVE poster' \in [Posters -> Row] /\ UNCHANGED canceller
  <2>1. PICK q \in Runs : poster' = [poster EXCEPT ![p].pc = "enqueue", ![p].run = q]
    BY <1>3, NewRunIsNew
  <2>2. UNCHANGED canceller
    BY <1>3 DEF Create
  <2> QED
    BY <1>1, <2>1, <2>2
<1>4. ASSUME NEW p \in Posters, EnqueueRun(p) \/ Bind(p) \/ EnqueueFails(p) \/ PosterLost(p)
      PROVE  poster' \in [Posters -> Row] /\ UNCHANGED canceller
  <2>1. \E to \in {"done", "bind"} : poster' = [poster EXCEPT ![p].pc = to]
    BY <1>4 DEF EnqueueRun, Bind, EnqueueFails, PosterLost, PosterStep
  <2> QED
    BY <1>1, <1>4, <2>1 DEF EnqueueRun, Bind, EnqueueFails, PosterLost
<1>5. CASE CancelLost \/ CancelJob \/ CancelMark \/ \E q \in Runs : CancelRead(q)
  BY <1>1, <1>5 DEF CancelLost, CancelJob, CancelMark, CancelRead
<1>6. CASE UNCHANGED requestVars
  BY <1>1, <1>6 DEF requestVars
<1> QED
  BY ControlMoves, <1>1, <1>2, <1>3, <1>4, <1>5, <1>6
     DEF CancelDirect, Claim, Finalize, Sweep, Handles, Advance, PipelineStarts, controlVars

LEMMA JobTypesStep ==
  ASSUME TypeInv, [Next]_vars
  PROVE  /\ job' \in [Jobs -> JobState]
         /\ attempt' \in [Jobs -> 0..MaxAttempts]
         /\ cancel' \in [Jobs -> BOOLEAN]
<1> USE DEF JobState, jobVars, AfterFailure
<1>1. /\ job \in [Jobs -> JobState]
      /\ attempt \in [Jobs -> 0..MaxAttempts]
      /\ cancel \in [Jobs -> BOOLEAN]
  BY DEF TypeInv, ControlTypeOK
<1>2. ASSUME NEW p \in Posters,
             EnqueueRun(p) \/ Check(p, "bootstrap") \/ Check(p, "incremental") \/ Create(p)
               \/ Bind(p) \/ EnqueueFails(p) \/ PosterLost(p)
      PROVE  /\ job' \in [Jobs -> JobState] /\ attempt' = attempt /\ cancel' = cancel
  BY <1>1, <1>2 DEF EnqueueRun, Check, Create, Bind, EnqueueFails, PosterLost
<1>3. ASSUME NEW j, RequestCancel(j)
      PROVE  job' \in [Jobs -> JobState] /\ cancel' \in [Jobs -> BOOLEAN]
  BY <1>1, <1>3 DEF RequestCancel
<1>4. ASSUME NEW j \in Jobs, Claim(j) PROVE job' \in [Jobs -> JobState] /\ attempt' \in [Jobs -> 0..MaxAttempts]
  <2>1. attempt[j] + 1 \in 0..MaxAttempts
    BY <1>1, <1>4, BoundAssumption DEF Claim, TypeInv, JobsInStep
  <2> QED
    BY <1>1, <1>4, <2>1 DEF Claim
<1>5. ASSUME NEW j \in Jobs, Finalize(j) PROVE job' \in [Jobs -> JobState] /\ cancel' \in [Jobs -> BOOLEAN]
  <2>1. job'[j] \in JobState
    BY <1>1, <1>5 DEF Finalize, Returned
  <2> QED
    BY <1>1, <1>5, <2>1 DEF Finalize
<1>6. ASSUME NEW j \in Jobs, Handles(j) PROVE job' \in [Jobs -> JobState] /\ UNCHANGED <<attempt, cancel>>
  BY <1>1, <1>6 DEF Handles, Advance, Adds
<1>7. CASE PipelineStarts \/ UNCHANGED controlVars
  BY <1>1, <1>7 DEF PipelineStarts, controlVars
<1>8. ASSUME NEW j \in Jobs, Sweep(j) PROVE job' \in [Jobs -> JobState]
  BY <1>1, <1>8 DEF Sweep
<1> QED
  BY ControlMoves, <1>1, <1>2, <1>3, <1>4, <1>5, <1>6, <1>7, <1>8
     DEF CancelLost, CancelJob, CancelMark, CancelRead, CancelDirect, Claim, Finalize, Sweep

LEMMA ControlTypeStep ==
  ASSUME TypeInv, [Next]_vars
  PROVE  ControlTypeOK'
<1>0. PICK s \in Setups : /\ kind = s.kind /\ slots = s.slots
                          /\ faults \in 0..s.faults /\ cancels \in 0..s.cancels
  BY DEF TypeInv, ControlTypeOK
<1>1. s.faults \in Nat /\ s.cancels \in Nat
  BY SetupAssumption
<1>2. kind' = kind /\ slots' = slots
  BY ControlMoves
     DEF Check, Create, EnqueueRun, Bind, EnqueueFails, PosterLost,
         CancelLost, CancelJob, CancelMark, CancelRead, CancelDirect, Claim, Finalize, Sweep,
         Handles, Advance, PipelineStarts, controlVars, setup
<1>3. faults' \in 0..s.faults /\ cancels' \in 0..s.cancels
  <2>1. UNCHANGED counters \/ Fault \/ (cancels > 0 /\ cancels' = cancels - 1 /\ UNCHANGED faults)
        \/ (faults' \in {faults, faults - 1} /\ faults' \in Nat /\ UNCHANGED cancels)
    BY ControlMoves
       DEF Check, Create, EnqueueRun, Bind, EnqueueFails, PosterLost,
           CancelLost, CancelJob, CancelMark, CancelRead, CancelDirect, Claim, Finalize, Sweep,
           Handles, Advance, PipelineStarts, controlVars
  <2> QED
    BY <1>0, <1>1, <2>1 DEF counters, Fault
<1> QED
  BY <1>0, <1>2, <1>3, RunTypesStep, RequestTypesStep, JobTypesStep DEF ControlTypeOK, RunRow, JobState

LEMMA AtStep ==
  ASSUME TypeInv, [Next]_vars
  PROVE  AtTypes'
<1>1. at = [j \in Jobs |-> at[j]] /\ \A j \in Jobs : at[j] \in StepsOf(j)
  BY DEF TypeInv, AtTypes
<1>2. \A j \in Jobs : StepsOf(j)' = StepsOf(j)
  <2>1. kind' = kind
    BY ControlMoves
       DEF Check, Create, EnqueueRun, Bind, EnqueueFails, PosterLost,
           CancelLost, CancelJob, CancelMark, CancelRead, CancelDirect, Claim, Finalize, Sweep,
           Handles, Advance, PipelineStarts, controlVars, setup
  <2> QED
    BY <2>1 DEF StepsOf, RunSteps, Returned
<1>3. ASSUME NEW k \in Jobs, NEW s \in StepsOf(k), at' = [at EXCEPT ![k] = s] PROVE AtTypes'
  BY <1>1, <1>2, <1>3 DEF AtTypes
<1>4. ASSUME NEW k \in Jobs, Claim(k) PROVE AtTypes'
  <2> DEFINE s == IF cancel[k] THEN "cancelled" ELSE "load"
  <2>1. s \in StepsOf(k) /\ at' = [at EXCEPT ![k] = s]
    BY <1>4 DEF Claim, StepsOf, Returned
  <2> QED
    BY <1>3, <2>1
<1>5. ASSUME NEW k \in Jobs, Finalize(k) PROVE AtTypes'
  <2>1. "none" \in StepsOf(k) /\ at' = [at EXCEPT ![k] = "none"]
    BY <1>5 DEF Finalize, StepsOf
  <2> QED
    BY <1>3, <2>1
<1>6. ASSUME NEW k \in Jobs, Handles(k) PROVE AtTypes'
  BY <1>3, <1>6 DEF Handles, Advance
<1>7. CASE UNCHANGED at
  BY <1>1, <1>2, <1>7 DEF AtTypes
<1> QED
  BY ControlMoves, <1>4, <1>5, <1>6, <1>7
     DEF Check, Create, EnqueueRun, Bind, EnqueueFails, PosterLost,
         CancelLost, CancelJob, CancelMark, CancelRead, CancelDirect, Sweep, PipelineStarts,
         controlVars, jobVars

\* A job moves from none to waiting, or by the queue.
LEMMA JobMoves ==
  ASSUME TypeInv, [Next]_vars, NEW j \in Jobs
  PROVE  \/ job'[j] = job[j]
         \/ /\ job[j] = "none" /\ job'[j] = "waiting" /\ attempt'[j] = attempt[j] /\ at'[j] = at[j]
            /\ \/ j \notin Runs
               \/ \E p \in Posters : poster[p].pc = "enqueue" /\ poster[p].run = j /\ EnqueueRun(p)
         \/ /\ job[j] = "waiting" /\ job'[j] \in {"running", "cancelled"}
         \/ /\ job[j] = "running" /\ at'[j] = "none" /\ attempt'[j] = attempt[j]
            /\ job'[j] \in {"succeeded", "cancelled", "failed_terminal", AfterFailure(j)}
<1>1. job \in [Jobs -> JobState] /\ at = [k \in Jobs |-> at[k]]
  BY DEF TypeInv, ControlTypeOK, JobState, AtTypes
<1> USE JobSets
<1>2. ASSUME NEW p \in Posters, EnqueueRun(p), poster[p].run = j, job'[j] # job[j]
      PROVE  job[j] = "none" /\ job'[j] = "waiting" /\ attempt'[j] = attempt[j] /\ at'[j] = at[j]
             /\ poster[p].pc = "enqueue"
  BY <1>1, <1>2 DEF EnqueueRun, PosterStep, TypeInv, RunsApart
<1>3. ASSUME NEW k, RequestCancel(k), job'[j] # job[j]
      PROVE  job[j] = "waiting" /\ job'[j] = "cancelled"
  BY <1>1, <1>3 DEF RequestCancel
<1>4. ASSUME NEW k \in Jobs, Claim(k), job'[j] # job[j]
      PROVE  job[j] = "waiting" /\ job'[j] = "running"
  BY <1>1, <1>4 DEF Claim
<1>5. ASSUME NEW k \in Jobs, Finalize(k), job'[j] # job[j]
      PROVE  /\ job[j] = "running" /\ at'[j] = "none" /\ attempt'[j] = attempt[j]
             /\ job'[j] \in {"succeeded", "cancelled", "failed_terminal", AfterFailure(j)}
  <2>1. k = j /\ at[j] # "none"
    BY <1>1, <1>5 DEF Finalize, Returned
  <2>2. job[j] = "running"
    BY <2>1 DEF TypeInv, JobsInStep
  <2>3. job'[j] \in {"succeeded", "cancelled", "failed_terminal", AfterFailure(j)}
    BY <1>1, <1>5, <2>1 DEF Finalize, Returned
  <2> QED
    BY <1>1, <1>5, <2>1, <2>2, <2>3 DEF Finalize
<1>6. ASSUME NEW k \in Jobs, Sweep(k), job'[j] # job[j]
      PROVE  /\ job[j] = "running" /\ at'[j] = "none" /\ attempt'[j] = attempt[j]
             /\ job'[j] = AfterFailure(j)
  BY <1>1, <1>6 DEF Sweep
<1>7. ASSUME Adds, job'[j] # job[j]
      PROVE  job[j] = "none" /\ job'[j] = "waiting" /\ j \notin Runs
  BY <1>1, <1>7 DEF Adds
<1>8. ASSUME NEW k \in Jobs, Handles(k), job'[j] # job[j]
      PROVE  /\ job[j] = "none" /\ job'[j] = "waiting" /\ attempt'[j] = attempt[j] /\ at'[j] = at[j]
             /\ j \notin Runs
  <2>1. Adds
    BY <1>8 DEF Handles
  <2>2. job[j] = "none" /\ job'[j] = "waiting" /\ j \notin Runs
    BY <1>7, <1>8, <2>1
  <2>3. k # j
    BY <1>8, <2>2 DEF Handles, Advance, TypeInv, JobsInStep
  <2> QED
    BY <1>1, <1>8, <2>2, <2>3 DEF Handles, Advance
<1>9. ASSUME PipelineStarts, pipeline = "none", job'[j] # job[j]
      PROVE  /\ job[j] = "none" /\ job'[j] = "waiting" /\ attempt'[j] = attempt[j] /\ at'[j] = at[j]
             /\ j \notin Runs
  BY <1>1, <1>9 DEF PipelineStarts, TypeInv, RowsInStep
<1>10. CASE UNCHANGED job
  BY <1>10
<1>11. ASSUME NEW p \in Posters, EnqueueRun(p), poster[p].run # j PROVE job'[j] = job[j]
  BY <1>1, <1>11 DEF EnqueueRun
<1> QED
  BY ControlMoves, <1>2, <1>3, <1>4, <1>5, <1>6, <1>8, <1>9, <1>10, <1>11
     DEF Check, Create, Bind, EnqueueFails, PosterLost,
         CancelLost, CancelJob, CancelMark, CancelRead, CancelDirect,
         controlVars, jobVars

\* An execution is that of a running job; a claim starts one.
LEMMA TaskMoves ==
  ASSUME TypeInv, [Next]_vars, NEW j \in Jobs
  PROVE  \/ at'[j] = at[j] /\ attempt'[j] = attempt[j]
         \/ /\ at[j] # "none" /\ attempt'[j] = attempt[j] /\ (job'[j] = job[j] \/ at'[j] = "none")
         \/ /\ job[j] = "waiting" /\ job'[j] = "running" /\ attempt'[j] = attempt[j] + 1
            /\ at'[j] \in {"cancelled", "load"}
<1>1. /\ job \in [Jobs -> JobState] /\ at = [k \in Jobs |-> at[k]]
      /\ attempt \in [Jobs -> 0..MaxAttempts]
  BY DEF TypeInv, ControlTypeOK, JobState, AtTypes
<1>2. ASSUME NEW k \in Jobs, Claim(k), k = j
      PROVE  /\ job[j] = "waiting" /\ job'[j] = "running" /\ attempt'[j] = attempt[j] + 1
             /\ at'[j] \in {"cancelled", "load"}
  BY <1>1, <1>2 DEF Claim
<1>3. ASSUME NEW k \in Jobs, Claim(k) \/ Finalize(k) \/ Handles(k), k # j
      PROVE  at'[j] = at[j] /\ attempt'[j] = attempt[j]
  BY <1>1, <1>3 DEF Claim, Finalize, Handles, Advance
<1>4. ASSUME Finalize(j)
      PROVE  at[j] # "none" /\ attempt'[j] = attempt[j] /\ at'[j] = "none"
  BY <1>1, <1>4 DEF Finalize, Returned
<1>5. ASSUME Handles(j)
      PROVE  at[j] # "none" /\ attempt'[j] = attempt[j] /\ job'[j] = job[j]
  BY <1>1, <1>5 DEF Handles, Advance, Adds, TypeInv, JobsInStep
<1> QED
  BY ControlMoves, <1>2, <1>3, <1>4, <1>5
     DEF Check, Create, EnqueueRun, Bind, EnqueueFails, PosterLost,
         CancelLost, CancelJob, CancelMark, CancelRead, CancelDirect, Sweep, PipelineStarts,
         controlVars, jobVars

LEMMA JobsStep ==
  ASSUME TypeInv, [Next]_vars
  PROVE  JobsInStep'
<1> SUFFICES ASSUME NEW j \in Jobs
             PROVE  /\ job'[j] = "none" => attempt'[j] = 0
                    /\ job'[j] = "waiting" => attempt'[j] < MaxAttempts
                    /\ at'[j] # "none" => job'[j] = "running"
  BY DEF JobsInStep
<1>1. /\ job[j] = "none" => attempt[j] = 0
      /\ job[j] = "waiting" => attempt[j] < MaxAttempts
      /\ at[j] # "none" => job[j] = "running"
  BY DEF TypeInv, JobsInStep
<1>2. attempt[j] \in Nat /\ MaxAttempts \in Nat \ {0}
  BY BoundAssumption DEF TypeInv, ControlTypeOK
<1>3. AfterFailure(j) \in {"waiting", "failed_terminal"}
      /\ (AfterFailure(j) = "waiting" => attempt[j] < MaxAttempts)
  BY DEF AfterFailure
<1> QED
  BY <1>1, <1>2, <1>3, JobMoves, TaskMoves

LEMMA StateMoves ==
  ASSUME TypeInv, [Next]_vars
  PROVE  \/ \E p \in Posters : Create(p)
         \/ \A r \in Runs : runs'[r].state = "absent" <=> runs[r].state = "absent"
<1>1. runs \in [Runs -> RunRow] /\ NoRun \notin Runs
  BY JobSets DEF TypeInv, ControlTypeOK, RunRow
<1>2. ASSUME NEW q \in Runs, NEW s \in {"running"} \cup Closed, Mark(q, s), runs[q].state # "absent"
      PROVE  \A r \in Runs : runs'[r].state = "absent" <=> runs[r].state = "absent"
  BY <1>1, <1>2 DEF Mark, Closed, RunRow
<1>3. ASSUME NEW p \in Posters, EnqueueFails(p)
      PROVE  \A r \in Runs : runs'[r].state = "absent" <=> runs[r].state = "absent"
  <2>1. poster[p].run \in Runs /\ runs[poster[p].run].state # "absent"
    BY <1>3 DEF EnqueueFails, PosterStep, TypeInv, RunsApart, ControlTypeOK
  <2> QED
    BY <1>2, <1>3, <2>1 DEF EnqueueFails, Closed
<1>4. CASE CancelMark
  <2>1. canceller.run \in Runs /\ runs[canceller.run].state # "absent"
    BY <1>4 DEF CancelMark, TypeInv, RunsApart, ControlTypeOK
  <2> QED
    BY <1>2, <1>4, <2>1 DEF CancelMark, Closed
<1>5. ASSUME NEW p \in Posters, Bind(p)
      PROVE  \A r \in Runs : runs'[r].state = "absent" <=> runs[r].state = "absent"
  BY <1>1, <1>5 DEF Bind, RunRow
<1>6. ASSUME NEW j \in Jobs, Handles(j)
      PROVE  \A r \in Runs : runs'[r].state = "absent" <=> runs[r].state = "absent"
  <2>1. j \in Runs => runs[j].state # "absent"
    BY <1>6, JobSets DEF Handles, Advance, TypeInv, JobsInStep, RunsApart
  <2>2. CASE MarksRun(j)
    BY <1>2, <2>1, <2>2 DEF MarksRun
  <2>3. CASE MovesCursor(j)
    BY <1>1, <2>3 DEF MovesCursor, RunRow
  <2> QED
    BY <1>6, <2>2, <2>3 DEF Handles
<1> QED
  BY ControlMoves, <1>3, <1>4, <1>5, <1>6
     DEF Check, EnqueueRun, PosterLost,
         CancelLost, CancelJob, CancelRead, CancelDirect, Claim, Finalize, Sweep, PipelineStarts,
         controlVars

LEMMA PosterMoves ==
  ASSUME TypeInv, [Next]_vars
  PROVE  \/ \E p \in Posters : Create(p)
         \/ \A q \in Posters :
              /\ poster'[q].run = poster[q].run
              /\ poster'[q].pc = "enqueue" => poster[q].pc = "enqueue" /\ ~EnqueueRun(q)
              /\ poster'[q].pc = "bind" => poster[q].pc \in {"enqueue", "bind"}
<1> DEFINE Row == [pc : {"check", "create", "enqueue", "bind", "done"},
                   run : {NoRun} \cup Runs, mode : {"bootstrap", "incremental"}]
           Kept(q) == /\ poster'[q].run = poster[q].run
                      /\ poster'[q].pc = "enqueue" => poster[q].pc = "enqueue" /\ ~EnqueueRun(q)
                      /\ poster'[q].pc = "bind" => poster[q].pc \in {"enqueue", "bind"}
<1>1. poster \in [Posters -> Row]
  BY DEF TypeInv, ControlTypeOK
<1>2. ASSUME NEW q \in Posters, poster'[q] = poster[q] PROVE Kept(q)
  BY <1>1, <1>2 DEF EnqueueRun, PosterStep
<1>3. ASSUME NEW p \in Posters, NEW to \in {"done", "bind"}, poster' = [poster EXCEPT ![p].pc = to],
             to = "bind" => poster[p].pc = "enqueue"
      PROVE  \A q \in Posters : Kept(q)
  BY <1>1, <1>2, <1>3
<1>4. ASSUME NEW p \in Posters, NEW m, Check(p, m) PROVE \A q \in Posters : Kept(q)
  BY <1>1, <1>2, <1>4 DEF Check
<1>5. ASSUME NEW p \in Posters, EnqueueRun(p) \/ Bind(p) \/ EnqueueFails(p) \/ PosterLost(p)
      PROVE  \A q \in Posters : Kept(q)
  BY <1>3, <1>5 DEF EnqueueRun, Bind, EnqueueFails, PosterLost, PosterStep
<1>6. CASE UNCHANGED poster
  BY <1>2, <1>6
<1> QED
  BY ControlMoves, <1>4, <1>5, <1>6
     DEF CancelLost, CancelJob, CancelMark, CancelRead, CancelDirect, Claim, Finalize, Sweep,
         Handles, Advance, PipelineStarts, controlVars, requestVars

LEMMA ApartStep ==
  ASSUME TypeInv, [Next]_vars
  PROVE  RunsApart'
<1>1. /\ runs \in [Runs -> RunRow] /\ NoRun \notin Runs /\ Runs \subseteq Jobs
      /\ \A p \in Posters : poster[p].run \in {NoRun} \cup Runs
      /\ \A p \in Posters : poster'[p].run \in {NoRun} \cup Runs
      /\ canceller.run \in {NoRun} \cup Runs /\ canceller'.run \in {NoRun} \cup Runs
  BY JobSets, RequestTypesStep DEF TypeInv, ControlTypeOK, RunRow
<1>2. RunsApart
  BY DEF TypeInv
<1>3. ASSUME NEW p \in Posters, Create(p)
      PROVE  RunsApart'
  <2>1. PICK r \in Runs : /\ runs[r].state = "absent" /\ r = Cardinality(Created) + 1
                          /\ Cardinality(Created) \in Nat
                          /\ runs' = [runs EXCEPT ![r].state = IF kind = "backfill" THEN "running" ELSE "queued",
                                                  ![r].mode = poster[p].mode]
                          /\ poster' = [poster EXCEPT ![p].pc = "enqueue", ![p].run = r]
    BY <1>3, NewRunIsNew
  <2>2. UNCHANGED <<job, canceller>>
    BY <1>3 DEF Create, jobVars
  <2>3. \A q \in Runs : runs'[q].state = "absent" <=> runs[q].state = "absent" /\ q # r
    BY <1>1, <2>1 DEF RunRow
  <2>4. Created' = 1..Cardinality(Created')
    <3>1. Created' = Created \cup {r} /\ r \notin Created
      BY <2>1, <2>3 DEF Created
    <3>2. Created' = 1..Cardinality(Created) + 1
      BY <1>2, <2>1, <3>1 DEF RunsApart
    <3>3. IsFiniteSet(Created)
      <4>1. IsFiniteSet(Runs) /\ Created \in SUBSET Runs
        BY BoundAssumption, FS_Interval DEF Created, Runs
      <4> QED
        BY <4>1, FS_Subset
    <3>4. Cardinality(Created') = Cardinality(Created) + 1
      BY <3>1, <3>3, FS_AddElement
    <3> QED
      BY <3>2, <3>4
  <2>5. \A q \in Posters : poster[q].run # r
    BY <1>1, <1>2, <2>1 DEF RunsApart
  <2>6. \A q \in Posters : IF q = p THEN poster'[q].pc = "enqueue" /\ poster'[q].run = r
                           ELSE poster'[q] = poster[q]
    BY <2>1 DEF TypeInv, ControlTypeOK
  <2>7. \A q \in Runs : runs'[q].state = "absent" => job'[q] = "none"
    BY <1>2, <2>2, <2>3 DEF RunsApart
  <2>8. job[r] = "none"
    BY <1>2, <2>1 DEF RunsApart
  <2>9. ASSUME NEW q \in Posters
        PROVE  /\ poster'[q].pc \in {"enqueue", "bind"} => poster'[q].run # NoRun
               /\ poster'[q].run # NoRun => runs'[poster'[q].run].state # "absent"
               /\ poster'[q].pc = "enqueue" => job'[poster'[q].run] = "none"
    <3>1. CASE q = p
      <4>1. runs'[r].state # "absent" /\ r # NoRun
        BY <1>1, <2>3
      <4>2. poster'[q].pc = "enqueue" /\ poster'[q].run = r /\ job'[r] = "none"
        BY <2>2, <2>6, <2>8, <3>1
      <4> QED
        BY <4>1, <4>2
    <3>2. CASE q # p
      BY <1>1, <1>2, <2>2, <2>3, <2>5, <2>6, <3>2 DEF RunsApart
    <3> QED
      BY <3>1, <3>2
  <2>10. \A q, s \in Posters : poster'[q].run # NoRun /\ poster'[q].run = poster'[s].run => q = s
    BY <1>2, <2>5, <2>6 DEF RunsApart
  <2>11. canceller'.pc # "idle" => canceller'.run # NoRun /\ runs'[canceller'.run].state # "absent"
    BY <1>1, <1>2, <2>1, <2>2, <2>3 DEF RunsApart
  <2> QED
    BY <2>4, <2>7, <2>9, <2>10, <2>11 DEF RunsApart
<1>4. ASSUME \A r \in Runs : runs'[r].state = "absent" <=> runs[r].state = "absent",
             ~\E p \in Posters : Create(p)
      PROVE  RunsApart'
  <2>1. Created' = Created
    BY <1>4 DEF Created
  <2>2. \A r \in Runs : runs'[r].state = "absent" => job'[r] = "none"
    BY <1>1, <1>2, <1>4, JobMoves DEF RunsApart
  <2>3. \A q \in Posters : /\ poster'[q].run = poster[q].run
                           /\ poster'[q].pc = "enqueue" => poster[q].pc = "enqueue" /\ ~EnqueueRun(q)
                           /\ poster'[q].pc = "bind" => poster[q].pc \in {"enqueue", "bind"}
    BY <1>4, PosterMoves
  <2>4. \A q \in Posters : poster'[q].pc = "enqueue" => job'[poster'[q].run] = "none"
    <3> SUFFICES ASSUME NEW q \in Posters, poster'[q].pc = "enqueue"
                 PROVE  job'[poster[q].run] = "none"
      BY <2>3
    <3>1. poster[q].pc = "enqueue" /\ ~EnqueueRun(q) /\ poster[q].run \in Runs
      BY <1>1, <1>2, <2>3 DEF RunsApart
    <3>2. job[poster[q].run] = "none"
      BY <1>2, <3>1 DEF RunsApart
    <3>3. \A p \in Posters : poster[p].run = poster[q].run => p = q
      BY <1>1, <1>2, <3>1 DEF RunsApart
    <3> DEFINE r == poster[q].run
    <3>4. r \in Jobs /\ job[r] = "none" /\ ~\E p \in Posters : poster[p].run = r /\ EnqueueRun(p)
      BY <1>1, <3>1, <3>2, <3>3
    <3>5. r \in Runs
      BY <3>1
    <3> HIDE DEF r
    <3>6. job'[r] = "none"
      BY <3>4, <3>5, JobMoves
    <3> QED
      BY <3>6 DEF r
  <2>5. canceller'.pc # "idle" => canceller'.run # NoRun /\ runs'[canceller'.run].state # "absent"
    <3>1. CASE UNCHANGED canceller
      BY <1>1, <1>2, <1>4, <3>1 DEF RunsApart
    <3>2. CASE CancelJob
      <4>1. canceller \in [pc : {"idle", "job", "mark"}, run : {NoRun} \cup Runs]
        BY DEF TypeInv, ControlTypeOK
      <4>2. canceller.run \in Runs /\ runs[canceller.run].state # "absent"
        BY <1>1, <1>2, <3>2 DEF CancelJob, RunsApart
      <4>3. canceller'.pc = "idle" \/ canceller'.run = canceller.run
        BY <3>2, <4>1 DEF CancelJob
      <4> QED
        BY <1>1, <1>4, <4>2, <4>3
    <3>3. ASSUME NEW r \in Runs, CancelRead(r) PROVE canceller'.run = r /\ runs[r].state # "absent"
      BY <3>3 DEF CancelRead, Open
    <3>4. CASE CancelLost \/ CancelMark
      BY <3>4 DEF CancelLost, CancelMark
    <3> QED
      BY ControlMoves, <1>1, <1>4, <3>1, <3>2, <3>3, <3>4
         DEF Check, EnqueueRun, Bind, EnqueueFails, PosterLost, CancelDirect, Claim, Finalize, Sweep,
             Handles, Advance, PipelineStarts, controlVars, requestVars
  <2> QED
    BY <1>1, <1>2, <1>4, <2>1, <2>2, <2>3, <2>4, <2>5 DEF RunsApart
<1> QED
  BY <1>3, <1>4, StateMoves

-----------------------------------------------------------------------------
(* What a step does to scans and to documents. *)

LEMMA ScanJobKept ==
  ASSUME NEW j, ScanStep(j)
  PROVE  UNCHANGED job
BY DEF ScanStep, LoadScan, EnsureState, Unready, Prepare, Resolve, UpsertCommits, UnsetCanonical,
       InsertMatches, InsertRefused, SaveChunk, SumUp, WriteRollup, Publish, MarkState, ScanSucceeds, ScanCancelled,
       LoadRun, Succeed, StopForCancel

\* A job that is not of a run comes with a step of a writer of documents.
LEMMA DocMoves ==
  ASSUME TypeInv, [Next]_vars
  PROVE  \/ UNCHANGED docVars /\ \A j \in Jobs \ Runs : job[j] = "none" => job'[j] = "none"
         \/ \E j \in Jobs : (Finalize(j) \/ Sweep(j)) /\ DocsForget(j)
         \/ kind = "meili" /\ \E r \in Runs : ListChunk(r) \/ SubmitChunk(r) \/ SaveCursor(r)
         \/ kind = "backfill" /\ \E r \in Runs : ListBatch(r) \/ BackfillEnqueues(r) \/ BackfillProgress(r)
         \/ \E b \in Batches : ReadInputs(b) \/ UpsertVectors(b) \/ BuildEmbedded(b) \/ SubmitEmbedded(b)
         \/ PipelineStarts \/ ChangeRows \/ BuildChanged \/ SubmitChanged \/ MarkPipeline \/ HandOver
         \/ \E i \in {1, 2} : EmbedChanged(i)
<1> DEFINE Still == \A j \in Jobs \ Runs : job[j] = "none" => job'[j] = "none"
           P == \/ UNCHANGED docVars /\ Still
                \/ \E j \in Jobs : (Finalize(j) \/ Sweep(j)) /\ DocsForget(j)
                \/ kind = "meili" /\ \E r \in Runs : ListChunk(r) \/ SubmitChunk(r) \/ SaveCursor(r)
                \/ kind = "backfill" /\ \E r \in Runs : ListBatch(r) \/ BackfillEnqueues(r) \/ BackfillProgress(r)
                \/ \E b \in Batches : ReadInputs(b) \/ UpsertVectors(b) \/ BuildEmbedded(b) \/ SubmitEmbedded(b)
                \/ PipelineStarts \/ ChangeRows \/ BuildChanged \/ SubmitChanged \/ MarkPipeline \/ HandOver
                \/ \E i \in {1, 2} : EmbedChanged(i)
<1> SUFFICES P
  OBVIOUS
<1>1. /\ job \in [Jobs -> JobState] /\ \A p \in Posters : poster[p].run \in {NoRun} \cup Runs
  BY DEF TypeInv, ControlTypeOK, JobState
<1>2. UNCHANGED job => Still
  OBVIOUS
<1>3. ASSUME NEW p \in Posters, Start(p) \/ Request(p) PROVE UNCHANGED docVars /\ Still
  <2>1. UNCHANGED docVars
    BY <1>3 DEF Start, Request, dataVars
  <2>2. CASE EnqueueRun(p)
    BY <1>1, <2>1, <2>2, JobSets DEF EnqueueRun, NoRun
  <2>3. \A m : Check(p, m) => UNCHANGED job
    BY DEF Check, jobVars
  <2>4. Create(p) \/ Bind(p) => UNCHANGED job
    BY DEF Create, Bind, jobVars
  <2>5. EnqueueRun(p) \/ UNCHANGED job
    BY <1>3, <2>3, <2>4 DEF Start, Request
  <2> QED
    BY <1>2, <2>1, <2>2, <2>5
<1>4. CASE RequestBreaks
  BY <1>2, <1>4 DEF RequestBreaks, EnqueueFails, PosterLost, CancelLost, jobVars, dataVars
<1>5. CASE Cancelling
  <2>1. UNCHANGED docVars
    BY <1>5 DEF Cancelling, dataVars
  <2>2. ASSUME NEW k, RequestCancel(k) PROVE Still
    BY <1>1, <2>2 DEF RequestCancel
  <2> QED
    BY <1>2, <1>5, <2>1, <2>2 DEF Cancelling, CancelRead, CancelJob, CancelMark, CancelDirect, jobVars
<1>6. CASE Claims
  <2>1. ASSUME NEW j \in Jobs, Claim(j) PROVE Still
    BY <1>1, <2>1 DEF Claim
  <2> QED
    BY <1>6, <2>1 DEF Claims, dataVars
<1>7. ASSUME NEW j \in Jobs, Handle(j) PROVE P
  <2>1. CASE SkipRun(j) /\ UNCHANGED dataVars
    BY <1>2, <2>1 DEF SkipRun, dataVars
  <2>2. CASE ScanStep(j) /\ UNCHANGED docVars
    BY <1>2, <2>2, ScanJobKept
  <2>3. CASE j \in Runs /\ BootstrapStep(j)
    BY <1>2, <2>3 DEF BootstrapStep, LoadRun, Succeed, StopForCancel
  <2>4. CASE j \in Runs /\ BackfillStep(j)
    BY <1>2, <2>4 DEF BackfillStep, LoadRun, Succeed, StopForCancel
  <2>5. CASE j \in Batches /\ BatchStep(j)
    BY <1>2, <2>5 DEF BatchStep, StopForCancel
  <2> HIDE DEF P
  <2> QED
    BY <1>7, <2>1, <2>2, <2>3, <2>4, <2>5 DEF Handle
<1>8. ASSUME NEW j \in Jobs, Broken(j) PROVE UNCHANGED docVars /\ Still
  BY <1>2, <1>8
     DEF Broken, Refuse, ScanBreaks, DocsBreak, Breaks, BackfillFails, EmbeddingRefused, dataVars
<1>9. CASE Pipeline
  BY <1>2, <1>9 DEF Pipeline, PipelineStep, SkipStage, StopForCancel
<1>10. CASE Fetch /\ UNCHANGED docVars
  BY <1>2, <1>10 DEF Fetch, controlVars, jobVars
<1>11. CASE UNCHANGED vars
  BY <1>2, <1>11 DEF vars, controlVars, jobVars
<1>12. ASSUME NEW j \in Jobs, Ends(j) PROVE P
  BY <1>12 DEF Ends
<1> HIDE DEF P, Still
<1>13. UNCHANGED docVars /\ Still => P
  BY DEF P, Still
<1> QED
  BY <1>3, <1>4, <1>5, <1>6, <1>7, <1>8, <1>9, <1>10, <1>11, <1>12, <1>13 DEF Next

LEMMA TableMoves ==
  ASSUME TypeInv, [Next]_vars
  PROVE  \/ UNCHANGED scanVars
         \/ \E j \in Jobs : (Finalize(j) \/ Sweep(j)) /\ ScanForgets(j)
         \/ kind = "mainline" /\ Fetch
         \/ kind = "mainline" /\ \E r \in Runs :
              \/ EnsureState(r) \/ Unready(r) \/ Prepare(r) \/ Resolve(r) \/ UpsertCommits(r)
              \/ UnsetCanonical(r) \/ InsertMatches(r) \/ InsertRefused(r) \/ SaveChunk(r) \/ SumUp(r)
              \/ WriteRollup(r) \/ Publish(r) \/ MarkState(r) \/ ScanCancelled(r) \/ ScanBreaks(r)
<1> DEFINE P == \/ UNCHANGED scanVars
                \/ \E j \in Jobs : (Finalize(j) \/ Sweep(j)) /\ ScanForgets(j)
                \/ kind = "mainline" /\ Fetch
                \/ kind = "mainline" /\ \E r \in Runs :
                     \/ EnsureState(r) \/ Unready(r) \/ Prepare(r) \/ Resolve(r) \/ UpsertCommits(r)
                     \/ UnsetCanonical(r) \/ InsertMatches(r) \/ InsertRefused(r) \/ SaveChunk(r) \/ SumUp(r)
                     \/ WriteRollup(r) \/ Publish(r) \/ MarkState(r) \/ ScanCancelled(r) \/ ScanBreaks(r)
<1> SUFFICES P
  OBVIOUS
<1>1. ASSUME NEW j \in Jobs, Handle(j) PROVE P
  <2>1. CASE kind = "mainline" /\ j \in Runs /\ ScanStep(j)
    BY <2>1 DEF ScanStep, LoadScan, ScanSucceeds
  <2> QED
    BY <1>1, <2>1 DEF Handle, dataVars
<1>2. ASSUME NEW j \in Jobs, Broken(j) PROVE P
  BY <1>2 DEF Broken, dataVars
<1>3. ASSUME NEW j \in Jobs, Ends(j) PROVE P
  BY <1>3 DEF Ends
<1>4. ASSUME NEW p \in Posters, Start(p) \/ Request(p) PROVE P
  BY <1>4 DEF Start, Request, dataVars
<1>5. CASE RequestBreaks \/ Cancelling \/ Claims \/ Pipeline
  BY <1>5 DEF RequestBreaks, Cancelling, Claims, Pipeline, dataVars
<1>6. CASE UNCHANGED vars
  BY <1>6 DEF vars
<1>7. CASE kind = "mainline" /\ Fetch
  BY <1>7
<1> HIDE DEF P
<1> QED
  BY <1>1, <1>2, <1>3, <1>4, <1>5, <1>6, <1>7 DEF Next

\* No job of the pipeline or of a batch is without the row that it comes with.
LEMMA RowsStep ==
  ASSUME TypeInv, [Next]_vars
  PROVE  RowsInStep'
<1>1. /\ job \in [Jobs -> JobState] /\ DOMAIN batch = Batches
      /\ \A b \in Batches : batch[b].source = 0 => job[b] = "none"
      /\ pipeline = "none" => \A j \in {Threading, Lexical, Embedding} : job[j] = "none"
      /\ \A j \in Jobs : at[j] # "none" => job[j] = "running"
  BY DEF TypeInv, ControlTypeOK, JobState, DocsTypeOK, RowsInStep, JobsInStep
<1> USE JobSets
<1> DEFINE Still == \A j \in Jobs \ Runs : job[j] = "none" => job'[j] = "none"
<1>2. ASSUME batch' = batch, pipeline' = pipeline, Still PROVE RowsInStep'
  BY <1>1, <1>2 DEF RowsInStep
<1>3. ASSUME NEW b \in Batches, NEW s \in Jobs, NEW ids, batch' = [batch EXCEPT ![b] = [source |-> s, ids |-> ids]],
             job' = [job EXCEPT ![b] = "waiting"], pipeline' = pipeline
      PROVE  RowsInStep'
  <2>1. \A c \in Batches : batch'[c].source = 0 => c # b /\ batch[c].source = 0
    BY <1>1, <1>3
  <2>2. \A j \in Jobs \ {b} : job'[j] = job[j]
    BY <1>1, <1>3
  <2> QED
    BY <1>1, <1>3, <2>1, <2>2 DEF RowsInStep
<1>4. ASSUME NEW s \in Jobs, NEW ids, EnqueueBatch(s, ids), pipeline' = pipeline PROVE RowsInStep'
  <2>1. CASE UNCHANGED <<batch, job>>
    BY <1>2, <1>4, <2>1
  <2>2. ASSUME NEW b \in Batches, batch' = [batch EXCEPT ![b] = [source |-> s, ids |-> ids]],
               job' = [job EXCEPT ![b] = "waiting"]
        PROVE  RowsInStep'
    BY <1>3, <1>4, <2>2
  <2>3. CASE ~UNCHANGED <<batch, job>>
    <3>1. PICK b \in Batches : /\ batch' = [batch EXCEPT ![b] = [source |-> s, ids |-> ids]]
                               /\ job' = [job EXCEPT ![b] = "waiting"]
      BY <1>4, <2>3, EnqueueBatchIs
    <3> QED
      BY <2>2, <3>1
  <2> QED
    BY <2>1, <2>3
<1>5. ASSUME NEW j \in {Threading, Lexical, Embedding}, NEW st \in {"waiting", job[j]}, pipeline' # "none",
             job' = [job EXCEPT ![j] = st], batch' = batch
      PROVE  RowsInStep'
  BY <1>1, <1>5 DEF RowsInStep
<1>6. ASSUME NEW j \in Jobs, Finalize(j) \/ Sweep(j), DocsForget(j) PROVE RowsInStep'
  <2>1. Still
    BY <1>1, <1>6 DEF Finalize, Sweep, Returned
  <2> QED
    BY <1>2, <1>6, <2>1 DEF DocsForget, rowVars
<1>7. ASSUME NEW r \in Runs, ListChunk(r) \/ SubmitChunk(r) \/ SaveCursor(r) \/ ListBatch(r) \/ BackfillProgress(r)
      PROVE  RowsInStep'
  BY <1>2, <1>7 DEF ListChunk, SubmitChunk, Submits, SaveCursor, ListBatch, BackfillProgress, rowVars
<1>8. ASSUME NEW r \in Runs, BackfillEnqueues(r) PROVE RowsInStep'
  BY <1>4, <1>8 DEF BackfillEnqueues
<1>9. ASSUME NEW b \in Batches, ReadInputs(b) \/ UpsertVectors(b) \/ BuildEmbedded(b) \/ SubmitEmbedded(b)
      PROVE  RowsInStep'
  BY <1>2, <1>9 DEF ReadInputs, UpsertVectors, BuildEmbedded, SubmitEmbedded, Submits, rowVars
<1>10. CASE PipelineStarts
  BY <1>5, <1>10 DEF PipelineStarts
<1>11. CASE ChangeRows
  BY <1>5, <1>11 DEF ChangeRows, EnqueueStage
<1>12. CASE BuildChanged \/ SubmitChanged
  BY <1>2, <1>12 DEF BuildChanged, SubmitChanged, Submits, rowVars
<1>13. CASE MarkPipeline
  BY <1>1, <1>13 DEF MarkPipeline, RowsInStep
<1>14. CASE HandOver
  <2>1. job[Lexical] # "none"
    BY <1>1, <1>14 DEF HandOver, HandlerStep
  <2> QED
    BY <1>1, <1>5, <1>14, <2>1 DEF HandOver, EnqueueStage, docVars, rowVars
<1>15. ASSUME NEW i \in {1, 2}, EmbedChanged(i) PROVE RowsInStep'
  BY <1>2, <1>4, <1>15 DEF EmbedChanged
<1>16. CASE UNCHANGED docVars /\ Still
  BY <1>2, <1>16 DEF docVars, rowVars
<1> QED
  BY DocMoves, <1>6, <1>7, <1>8, <1>9, <1>10, <1>11, <1>12, <1>13, <1>14, <1>15, <1>16

-----------------------------------------------------------------------------
(* The types of a scan. *)

LEMMA ChosenIn ==
  ASSUME NEW s \in Series
  PROVE  /\ Chosen(s) \in DOMAIN Versions[s] /\ Chosen(s) \in Nat
         /\ IsFiniteSet(Versions[s][Chosen(s)]) /\ Versions[s][Chosen(s)] \subseteq Items
<1> DEFINE V == DOMAIN Versions[s]
           size(v) == <<Cardinality(Merged(Versions[s][v])), Cardinality(Versions[s][v])>>
           below(v, w) == \/ size(v)[1] < size(w)[1]
                          \/ size(v)[1] = size(w)[1] /\ size(v)[2] < size(w)[2]
                          \/ size(v) = size(w) /\ v =< w
           merged == {v \in V : MergeState(Versions[s][v]) = "merged"}
           partial == {v \in V : MergeState(Versions[s][v]) = "partial"}
<1>1. /\ Versions[s] \in Seq(SUBSET Items) \ {<<>>} /\ IsFiniteSet(Items)
      /\ V = 1..Len(Versions[s]) /\ Len(Versions[s]) \in Nat \ {0}
  BY SeriesAssumption
<1>2. V # {} /\ V \in SUBSET Nat /\ IsFiniteSet(V)
  <2> DEFINE n == Len(Versions[s])
  <2>1. V = 1..n /\ n \in Nat \ {0}
    BY <1>1
  <2> HIDE DEF V, n
  <2>2. IsFiniteSet(1..n)
    BY <2>1, FS_Interval
  <2> QED
    BY <2>1, <2>2
<1>3. ASSUME NEW v \in V
      PROVE  Versions[s][v] \subseteq Items /\ IsFiniteSet(Versions[s][v])
             /\ Cardinality(Versions[s][v]) \in Nat /\ Cardinality(Merged(Versions[s][v])) \in Nat
  <2>1. Versions[s][v] \in SUBSET Items
    BY <1>1
  <2>2. IsFiniteSet(Versions[s][v]) /\ Merged(Versions[s][v]) \in SUBSET Versions[s][v]
    BY <1>1, <2>1, FS_Subset DEF Merged
  <2>3. IsFiniteSet(Merged(Versions[s][v]))
    BY <2>2, FS_Subset
  <2> QED
    BY <2>1, <2>2, <2>3, FS_CardinalityType
<1>4. merged # {} => Max(merged) \in V
  <2>1. merged \in SUBSET V /\ merged \in SUBSET Nat
    BY <1>2
  <2>2. IsFiniteSet(merged)
    BY <1>2, <2>1, FS_Subset
  <2> HIDE DEF merged
  <2> QED
    BY <2>1, <2>2, MaxIn
<1>5. partial # {} => \E w \in partial : \A v \in partial : below(v, w)
  <2> SUFFICES ASSUME partial # {} PROVE \E w \in partial : \A v \in partial : below(v, w)
    OBVIOUS
  <2> DEFINE R == {p \in partial \X partial : below(p[2], p[1]) /\ p[1] # p[2]}
  <2>1. partial \in SUBSET V
    OBVIOUS
  <2>2. IsFiniteSet(partial) /\ partial \subseteq Nat
    BY <1>2, <2>1, FS_Subset
  <2>3. \A v \in partial : size(v) \in Nat \X Nat
    BY <1>3
  <2>4. StrictOrder(R, partial)
    <3> HIDE DEF partial, size
    <3> QED
      BY <2>2, <2>3 DEF StrictOrder
  <2>5. \E w \in partial : \A v \in partial : v # w => <<w, v>> \in R
    <3> HIDE DEF partial, R
    <3> QED
      BY <2>2, <2>4, LeastIn
  <2>6. \A v \in partial : below(v, v)
    <3> HIDE DEF partial, size
    <3> QED
      BY <2>2, <2>3
  <2> QED
    BY <2>5, <2>6
<1>6. Max(V) \in V
  <2> HIDE DEF V
  <2> QED
    BY <1>2, MaxIn
<1>7. Chosen(s) = IF merged # {} THEN Max(merged)
                  ELSE IF partial # {} THEN CHOOSE w \in partial : \A v \in partial : below(v, w)
                  ELSE Max(V)
  BY DEF Chosen
<1>8. partial # {} => (CHOOSE w \in partial : \A v \in partial : below(v, w)) \in V
  <2>1. partial \subseteq V
    OBVIOUS
  <2> HIDE DEF partial, below, V
  <2> QED
    BY <1>5, <2>1
<1>9. Chosen(s) \in V
  <2> HIDE DEF partial, merged, below, V
  <2> QED
    BY <1>4, <1>6, <1>7, <1>8
<1> QED
  BY <1>2, <1>3, <1>9

LEMMA SummaryType ==
  ASSUME TypeInv, NEW s \in Series
  PROVE  Summary(s) \in SummaryRow
<1> DEFINE items == Versions[s][Chosen(s)]
           tags == {commitTag[matches[p]] : p \in Merged(items)}
<1>1. IsFiniteSet(items) /\ items \subseteq Items /\ Chosen(s) \in Nat
  BY ChosenIn
<1> HIDE DEF items
<1>2. IsFiniteSet(Merged(items)) /\ Merged(items) \subseteq items
  <2>1. Merged(items) \in SUBSET items
    BY DEF Merged
  <2> QED
    BY <1>1, <2>1, FS_Subset
<1>3. Cardinality(items) \in Nat /\ Cardinality(Merged(items)) \in Nat
  BY <1>1, <1>2, FS_CardinalityType
<1>4. MergedIn(items) \in Nat
  <2> DEFINE f == [p \in Merged(items) |-> commitTag[matches[p]]]
  <2>1. f \in [Merged(items) -> Nat]
    BY <1>1, <1>2 DEF Merged, TypeInv, ScanTypeOK
  <2>2. tags = {f[p] : p \in Merged(items)} /\ tags \subseteq Nat
    BY <2>1
  <2> HIDE DEF f
  <2>3. IsFiniteSet({f[p] : p \in Merged(items)})
    BY <1>2, <2>1, ImageFinite
  <2> HIDE DEF tags
  <2>4. IsFiniteSet(tags) /\ IsFiniteSet({NoTag})
    BY <2>2, <2>3, FS_Singleton
  <2>5. IsFiniteSet({NoTag} \cup tags)
    BY <2>4, FS_Union
  <2>6. IsFiniteSet({NoTag} \cup tags) /\ {NoTag} \cup tags \in SUBSET Nat
    BY <2>2, <2>5 DEF NoTag
  <2>7. Max({NoTag} \cup tags) \in Nat
    BY <2>6, MaxIn
  <2> QED
    BY <2>7 DEF MergedIn, tags
<1>5. MergeState(items) \in {"unmerged", "partial", "merged"}
  BY DEF MergeState
<1> QED
  BY <1>1, <1>3, <1>4, <1>5 DEF Summary, SummaryRow, items, NoTag

LEMMA StepIs ==
  ASSUME Repository(history), NEW n \in 1..Len(history.steps)
  PROVE  /\ history.steps[n].head \in Commits
         /\ history.steps[n].tags \in SUBSET (Nat \X Commits)
<1> DEFINE commits == DOMAIN history.commits
           Step == [head : commits, tags : {T \in SUBSET (Nat \X commits) : IsFiniteSet(T)}]
<1>1. history.steps \in Seq(Step)
  BY DEF Repository
<1>2. history.steps[n] \in Step
  <2> HIDE DEF Step
  <2> QED
    BY <1>1
<1> QED
  BY <1>2 DEF Commits

LEMMA TagOfType ==
  ASSUME Repository(history), NEW n \in 1..Len(history.steps), NEW c
  PROVE  TagOf(c, n) \in Nat
<1> DEFINE tags == history.steps[n].tags
           holding == {t \in tags : c \in Reach({t[2]}, NoCommit)}
           keys == {t[1] : t \in holding}
<1>1. tags \in SUBSET (Nat \X Commits)
  BY StepIs
<1>2. keys \in SUBSET Nat
  BY <1>1
<1>3. holding # {} => Min(keys) \in Nat
  <2>1. holding # {} => keys # {}
    OBVIOUS
  <2> HIDE DEF keys
  <2> QED
    BY <1>2, <2>1, MinIn
<1> QED
  BY <1>3 DEF TagOf, NoTag

LEMMA SumsUp ==
  ASSUME TypeInv, NEW r \in Runs, kind = "mainline", at[r] \in {"sum", "rollup", "publish"}
  PROVE  scan[r].left # {} /\ scan[r].left \subseteq Series /\ Min(scan[r].left) \in scan[r].left
<1>1. scan[r].left # {} /\ scan[r].left \in SUBSET Series
  BY DEF TypeInv, ScanTypeOK, ScanRow, ScanInStep
<1>2. scan[r].left \in SUBSET Nat
  BY <1>1, SeriesAssumption
<1> QED
  BY <1>1, <1>2, MinIn

\* The fields a step sets.
LEMMA RowFields ==
  ASSUME NEW x \in ScanRow
  PROVE  /\ \A d \in BOOLEAN, c \in {NoCommit} \cup Commits : [x EXCEPT !.ready = d, !.last = c] \in ScanRow
         /\ \A a \in 0..Len(history.steps), b \in Seq(Commits), f \in SUBSET Series, g \in SUBSET Series,
               c \in {NoCommit} \cup Commits :
              [x EXCEPT !.step = a, !.todo = b, !.affected = f, !.left = g, !.last = c] \in ScanRow
         /\ \A e \in SUBSET (Items \X Commits) : [x EXCEPT !.found = e] \in ScanRow
         /\ \A f \in SUBSET Series : [x EXCEPT !.found = {}, !.affected = f] \in ScanRow
         /\ \A b \in Seq(Commits), g \in SUBSET Series, c \in {NoCommit} \cup Commits :
              [x EXCEPT !.todo = b, !.left = g, !.last = c] \in ScanRow
         /\ \A g \in SUBSET Series : [x EXCEPT !.left = g] \in ScanRow
         /\ \A h \in SummaryRow : [x EXCEPT !.sum = h] \in ScanRow
<1> DEFINE A == 0..Len(history.steps)
           B == Seq(Commits)
           C == {NoCommit} \cup Commits
           E == SUBSET (Items \X Commits)
           F == SUBSET Series
           H == SummaryRow
           Row == [step : A, todo : B, last : C, ready : BOOLEAN, found : E, affected : F, left : F, sum : H]
<1>1. ScanRow = Row /\ {} \in E /\ x \in Row
  BY DEF ScanRow
<1> HIDE DEF A, B, C, E, F, H
<1>2. ASSUME NEW y \in Row
      PROVE  /\ \A d \in BOOLEAN, c \in C : [y EXCEPT !.ready = d, !.last = c] \in Row
             /\ \A a \in A, b \in B, f \in F : [y EXCEPT !.step = a, !.todo = b, !.affected = f] \in Row
  BY <1>2
<1>3. ASSUME NEW y \in Row
      PROVE  \A g \in F, c \in C : [y EXCEPT !.left = g, !.last = c] \in Row
  BY <1>3
<1>4. ASSUME NEW a \in A, NEW b \in B, NEW f \in F, NEW g \in F, NEW c \in C
      PROVE  [x EXCEPT !.step = a, !.todo = b, !.affected = f, !.left = g, !.last = c] \in Row
  <2> DEFINE y == [x EXCEPT !.step = a, !.todo = b, !.affected = f]
  <2>1. y \in Row
    BY <1>1, <1>2
  <2>2. [x EXCEPT !.step = a, !.todo = b, !.affected = f, !.left = g, !.last = c]
          = [y EXCEPT !.left = g, !.last = c]
    BY Zenon
  <2> HIDE DEF y
  <2> QED
    BY <1>3, <2>1, <2>2, ZenonT(40)
<1>5. \A e \in E : [x EXCEPT !.found = e] \in Row
  BY <1>1
<1>6. \A f \in F : [x EXCEPT !.found = {}, !.affected = f] \in Row
  BY <1>1
<1>7. \A b \in B, g \in F, c \in C : [x EXCEPT !.todo = b, !.left = g, !.last = c] \in Row
  BY <1>1
<1>8. (\A g \in F : [x EXCEPT !.left = g] \in Row) /\ (\A h \in H : [x EXCEPT !.sum = h] \in Row)
  BY <1>1
<1>9. \A d \in BOOLEAN, c \in C : [x EXCEPT !.ready = d, !.last = c] \in Row
  BY <1>1, <1>2
<1> HIDE DEF Row
<1> QED
  BY <1>1, <1>4, <1>5, <1>6, <1>7, <1>8, <1>9 DEF A, B, C, E, F, H

LEMMA ScanTypeStep ==
  ASSUME TypeInv, [Next]_vars
  PROVE  ScanTypeOK'
<1>1. /\ step \in 1..Len(history.steps)
      /\ matches \in [Items -> {NoCommit} \cup Commits]
      /\ former \subseteq Items \X Commits
      /\ commitTag \in [Commits -> Nat]
      /\ rollup \in [Series -> SummaryRow] /\ published \in [Series -> SummaryRow]
      /\ state \in [head : {NoCommit} \cup Commits, last : {NoCommit} \cup Commits,
                    ready : BOOLEAN, bootstrapped : BOOLEAN]
      /\ scan \in [Runs -> ScanRow]
      /\ lost \subseteq Series
  BY DEF TypeInv, ScanTypeOK
<1>2. Len(history.steps) \in Nat /\ Repository(history)
  BY DEF TypeInv, ScanInStep, Repository
<1>3. ASSUME UNCHANGED <<step, history, matches, former, commitTag, rollup, published, state, lost>>,
             scan' \in [Runs -> ScanRow]
      PROVE  ScanTypeOK'
  BY <1>1, <1>3 DEF ScanTypeOK, ScanRow, Commits
<1>4. CASE UNCHANGED scanVars
  BY <1>1, <1>3, <1>4 DEF scanVars, repoVars, tableVars
<1>5. ASSUME NEW j \in Jobs, ScanForgets(j) PROVE ScanTypeOK'
  <2>1. NoScan \in ScanRow
    BY <1>2 DEF NoScan, ScanRow, NoCommit, NoSummary, SummaryRow, NoTag
  <2>2. scan' \in [Runs -> ScanRow]
    BY <1>1, <1>5, <2>1 DEF ScanForgets
  <2> QED
    BY <1>3, <1>5, <2>2 DEF ScanForgets, repoVars, tableVars
<1>6. CASE Fetch
  <2>1. step' \in 1..Len(history.steps) /\ UNCHANGED <<history, matches, former, commitTag, rollup, published, state, scan, lost>>
    BY <1>1, <1>2, <1>6 DEF Fetch, tableVars
  <2> QED
    BY <1>1, <2>1 DEF ScanTypeOK, ScanRow, Commits
<1>7. ASSUME NEW r \in Runs, EnsureState(r) PROVE ScanTypeOK'
  <2>1. scan' = [scan EXCEPT ![r].ready = state.ready, ![r].last = state.last]
    BY <1>7 DEF EnsureState
  <2> DEFINE y == [scan[r] EXCEPT !.ready = state.ready, !.last = state.last]
  <2>3. y \in ScanRow /\ scan' = [scan EXCEPT ![r] = y]
    BY <1>1, <2>1, RowFields
  <2> HIDE DEF y
  <2>2. scan' \in [Runs -> ScanRow]
    BY <1>1, <2>3
  <2> QED
    BY <1>3, <1>7, <2>2 DEF EnsureState, repoVars, tableVars
<1>8. ASSUME NEW r \in Runs, Unready(r) PROVE ScanTypeOK'
  BY <1>1, <1>8 DEF Unready, repoVars, ScanTypeOK, ScanRow, Commits
<1>9. ASSUME NEW r \in Runs, kind = "mainline", Prepare(r) PROVE ScanTypeOK'
  <2> DEFINE todo == Walk(history.steps[step].head, Since(r))
             left == IF todo = <<>> THEN ToRollUp(r, {}) ELSE {}
             last == IF runs[r].cursor[1] # NoCommit THEN runs[r].cursor[1] ELSE scan[r].last
  <2>1. todo \in Seq(Commits)
    BY <1>2, WalkType
  <2>2. left \subseteq Series
    BY DEF ToRollUp
  <2>3. last \in {NoCommit} \cup Commits
    BY <1>1, <1>9 DEF ScanRow, TypeInv, ScanInStep
  <2>4. scan' = [scan EXCEPT ![r].step = step, ![r].todo = todo, ![r].affected = {}, ![r].left = left,
                             ![r].last = last]
    BY <1>1, <1>9 DEF Prepare
  <2> HIDE DEF todo, left, last
  <2> DEFINE y == [scan[r] EXCEPT !.step = step, !.todo = todo, !.affected = {}, !.left = left, !.last = last]
  <2>6. step \in 0..Len(history.steps)
    BY <1>1, <1>2
  <2>7. y \in ScanRow /\ scan' = [scan EXCEPT ![r] = y]
    BY <1>1, <2>1, <2>2, <2>3, <2>4, <2>6, RowFields
  <2> HIDE DEF y
  <2>5. scan' \in [Runs -> ScanRow]
    BY <1>1, <2>7
  <2> QED
    BY <1>3, <1>9, <2>5 DEF Prepare, repoVars, tableVars
<1>10. ASSUME NEW r \in Runs, kind = "mainline", Resolve(r) PROVE ScanTypeOK'
  <2> DEFINE found == NewMatches(Chunk(r))
  <2>1. scan[r].todo # <<>>
    BY <1>10 DEF Resolve, HandlerStep, TypeInv, ScanInStep
  <2>2. found \subseteq Items \X Commits
    BY <2>1, ChunkFacts DEF NewMatches
  <2>3. scan' = [scan EXCEPT ![r].found = found]
    BY <1>10 DEF Resolve
  <2> HIDE DEF found
  <2> DEFINE y == [scan[r] EXCEPT !.found = found]
  <2>5. y \in ScanRow /\ scan' = [scan EXCEPT ![r] = y]
    BY <1>1, <2>2, <2>3, RowFields
  <2> HIDE DEF y
  <2>4. scan' \in [Runs -> ScanRow]
    BY <1>1, <2>5
  <2> QED
    BY <1>3, <1>10, <2>4 DEF Resolve, repoVars, tableVars
<1>11. ASSUME NEW r \in Runs, kind = "mainline", UpsertCommits(r) PROVE ScanTypeOK'
  <2>1. scan[r].step \in 1..Len(history.steps)
    BY <1>1, <1>2, <1>11 DEF UpsertCommits, HandlerStep, TypeInv, ScanInStep, ScanRow
  <2>2. \A c \in Commits : TagOf(c, scan[r].step) \in Nat
    BY <1>2, <2>1, TagOfType
  <2>3. commitTag' \in [Commits -> Nat]
    BY <1>1, <1>11, <2>2 DEF UpsertCommits
  <2> QED
    BY <1>1, <1>11, <2>3 DEF UpsertCommits, repoVars, ScanTypeOK, ScanRow, Commits
<1>12. ASSUME NEW r \in Runs, InsertMatches(r) PROVE ScanTypeOK'
  <2> DEFINE found == scan[r].found
             affected == scan[r].affected \cup {s \in Series : \E pc \in found : Affects(pc[1], s)}
  <2>1. matches' = [p \in Items |-> IF \E c \in Commits : <<p, c>> \in found
                                    THEN CHOOSE c \in Commits : <<p, c>> \in found ELSE matches[p]]
    BY <1>12 DEF InsertMatches
  <2>2. matches' \in [Items -> {NoCommit} \cup Commits]
    BY <1>1, <2>1
  <2>7. former' \subseteq Items \X Commits
    BY <1>1, <1>12 DEF InsertMatches
  <2>3. affected \subseteq Series
    BY <1>1 DEF ScanRow
  <2>4. scan' = [scan EXCEPT ![r].found = {}, ![r].affected = affected]
    BY <1>1, <1>12 DEF InsertMatches
  <2> HIDE DEF affected
  <2> DEFINE y == [scan[r] EXCEPT !.found = {}, !.affected = affected]
  <2>6. y \in ScanRow /\ scan' = [scan EXCEPT ![r] = y]
    BY <1>1, <2>3, <2>4, RowFields
  <2> HIDE DEF y
  <2>5. scan' \in [Runs -> ScanRow]
    BY <1>1, <2>6
  <2> QED
    BY <1>1, <1>12, <2>2, <2>5, <2>7 DEF InsertMatches, repoVars, ScanTypeOK, ScanRow, Commits
<1>13. ASSUME NEW r \in Runs, kind = "mainline", SaveChunk(r) PROVE ScanTypeOK'
  <2> DEFINE chunk == Chunk(r)
             todo == SubSeq(scan[r].todo, Len(chunk) + 1, Len(scan[r].todo))
             left == IF todo = <<>> THEN ToRollUp(r, scan[r].affected) ELSE {}
             last == Last(chunk)
  <2>1. scan[r].todo # <<>>
    BY <1>13 DEF SaveChunk, HandlerStep, TypeInv, ScanInStep
  <2>2. todo \in Seq(Commits) /\ last \in Commits
    BY <2>1, ChunkFacts
  <2>3. left \subseteq Series
    BY <1>1 DEF ToRollUp, ScanRow
  <2>4. scan' = [scan EXCEPT ![r].todo = todo, ![r].left = left, ![r].last = last]
    BY <1>13 DEF SaveChunk
  <2> HIDE DEF chunk, todo, left, last
  <2> DEFINE y == [scan[r] EXCEPT !.todo = todo, !.left = left, !.last = last]
  <2>6. y \in ScanRow /\ scan' = [scan EXCEPT ![r] = y]
    BY <1>1, <2>2, <2>3, <2>4, RowFields
  <2> HIDE DEF y
  <2>5. scan' \in [Runs -> ScanRow]
    BY <1>1, <2>6
  <2> QED
    BY <1>3, <1>13, <2>5 DEF SaveChunk, repoVars, tableVars
<1>14. ASSUME NEW r \in Runs, kind = "mainline", SumUp(r) PROVE ScanTypeOK'
  <2> DEFINE sum == Summary(Min(scan[r].left))
  <2>1. sum \in SummaryRow
    BY <1>14, SumsUp, SummaryType DEF SumUp, HandlerStep
  <2>2. scan' = [scan EXCEPT ![r].sum = sum]
    BY <1>14 DEF SumUp
  <2> HIDE DEF sum
  <2> DEFINE y == [scan[r] EXCEPT !.sum = sum]
  <2>4. y \in ScanRow /\ scan' = [scan EXCEPT ![r] = y]
    BY <1>1, <2>1, <2>2, RowFields
  <2> HIDE DEF y
  <2>3. scan' \in [Runs -> ScanRow]
    BY <1>1, <2>4
  <2> QED
    BY <1>3, <1>14, <2>3 DEF SumUp, repoVars, tableVars
<1>15. ASSUME NEW r \in Runs, WriteRollup(r) PROVE ScanTypeOK'
  <2>1. rollup' = [rollup EXCEPT ![Min(scan[r].left)] = scan[r].sum]
        /\ scan' = [scan EXCEPT ![r].sum = NoSummary]
    BY <1>15 DEF WriteRollup
  <2>2. rollup' \in [Series -> SummaryRow]
    BY <1>1, <2>1 DEF ScanRow
  <2>3. NoSummary \in SummaryRow
    BY DEF NoSummary, SummaryRow, NoTag
  <2> DEFINE y == [scan[r] EXCEPT !.sum = NoSummary]
  <2>5. y \in ScanRow /\ scan' = [scan EXCEPT ![r] = y]
    BY <1>1, <2>1, <2>3, RowFields
  <2> HIDE DEF y
  <2>4. scan' \in [Runs -> ScanRow]
    BY <1>1, <2>5
  <2> QED
    BY <1>1, <1>15, <2>2, <2>4 DEF WriteRollup, repoVars, ScanTypeOK, ScanRow, Commits
<1>16. ASSUME NEW r \in Runs, kind = "mainline", Publish(r) PROVE ScanTypeOK'
  <2> DEFINE s == Min(scan[r].left)
             left == scan[r].left \ {s}
  <2>1. s \in Series /\ left \subseteq Series
    BY <1>16, SumsUp DEF Publish, HandlerStep
  <2>2. published' = [published EXCEPT ![s] = rollup[s]] /\ scan' = [scan EXCEPT ![r].left = left]
        /\ lost' \in {lost, lost \cup left}
    BY <1>16 DEF Publish
  <2> HIDE DEF s, left
  <2> DEFINE y == [scan[r] EXCEPT !.left = left]
  <2>5. y \in ScanRow /\ scan' = [scan EXCEPT ![r] = y]
    BY <1>1, <2>1, <2>2, RowFields
  <2> HIDE DEF y
  <2>3. scan' \in [Runs -> ScanRow]
    BY <1>1, <2>5
  <2>4. published' \in [Series -> SummaryRow] /\ lost' \subseteq Series
    BY <1>1, <2>1, <2>2
  <2> QED
    BY <1>1, <1>16, <2>3, <2>4 DEF Publish, repoVars, ScanTypeOK, ScanRow, Commits
<1>17. ASSUME NEW r \in Runs, kind = "mainline", MarkState(r) PROVE ScanTypeOK'
  <2>1. scan[r].step \in 1..Len(history.steps)
    BY <1>1, <1>2, <1>17 DEF MarkState, HandlerStep, TypeInv, ScanInStep, ScanRow
  <2>2. history.steps[scan[r].step].head \in Commits
    BY <1>2, <2>1, StepIs
  <2>3. state' \in [head : {NoCommit} \cup Commits, last : {NoCommit} \cup Commits,
                    ready : BOOLEAN, bootstrapped : BOOLEAN]
    BY <1>1, <1>17, <2>2 DEF MarkState, ScanRow
  <2> QED
    BY <1>1, <1>17, <2>3 DEF MarkState, repoVars, ScanTypeOK, ScanRow, Commits
<1>18. ASSUME NEW r \in Runs, ScanCancelled(r) \/ ScanBreaks(r) \/ InsertRefused(r) PROVE ScanTypeOK'
  <2>1. Forgotten(r) \subseteq Series
    BY <1>1 DEF Forgotten, ScanRow
  <2>2. lost' \subseteq Series /\ UNCHANGED <<repoVars, tableVars, scan>>
    BY <1>1, <1>18, <2>1 DEF ScanCancelled, ScanBreaks, InsertRefused
  <2> QED
    BY <1>1, <2>2 DEF repoVars, tableVars, ScanTypeOK, ScanRow, Commits
<1>19. ASSUME NEW r \in Runs, UnsetCanonical(r) PROVE ScanTypeOK'
  <2> DEFINE found == {pc[1] : pc \in scan[r].found}
  <2>1. /\ matches' = [p \in Items |-> IF p \in found THEN NoCommit ELSE matches[p]]
        /\ former' = former \cup {<<p, matches[p]>> : p \in {q \in found : matches[q] # NoCommit}}
    BY <1>19 DEF UnsetCanonical
  <2>2. found \subseteq Items
    BY <1>1 DEF ScanRow
  <2> HIDE DEF found
  <2>3. matches' \in [Items -> {NoCommit} \cup Commits]
    BY <1>1, <2>1
  <2>4. former' \subseteq Items \X Commits
    BY <1>1, <2>1, <2>2
  <2> QED
    BY <1>1, <1>19, <2>3, <2>4 DEF UnsetCanonical, repoVars, ScanTypeOK, ScanRow, Commits
<1> QED
  BY TableMoves, <1>4, <1>5, <1>6, <1>7, <1>8, <1>9, <1>10, <1>11, <1>12, <1>13, <1>14, <1>15, <1>16,
     <1>17, <1>18, <1>19

\* A cursor moves with the step that saves it.
LEMMA CursorMoves ==
  ASSUME TypeInv, [Next]_vars, NEW r \in Runs, runs'[r].cursor # runs[r].cursor
  PROVE  \/ kind = "mainline" /\ SaveChunk(r)
         \/ kind = "meili" /\ SaveCursor(r)
         \/ kind = "backfill" /\ BackfillProgress(r)
<1>1. runs \in [Runs -> RunRow] /\ \A p \in Posters : poster[p].run \in {NoRun} \cup Runs
      /\ canceller.run \in {NoRun} \cup Runs
  BY DEF TypeInv, ControlTypeOK, RunRow
<1> DEFINE P == \/ kind = "mainline" /\ SaveChunk(r)
                \/ kind = "meili" /\ SaveCursor(r)
                \/ kind = "backfill" /\ BackfillProgress(r)
<1> SUFFICES P
  OBVIOUS
<1>2. ASSUME NEW q, NEW s, Mark(q, s) PROVE P
  BY <1>1, <1>2 DEF Mark, RunRow
<1>3. ASSUME UNCHANGED runs PROVE P
  BY <1>3
<1>4. ASSUME NEW p \in Posters, Create(p) PROVE P
  <2> DEFINE s == IF kind = "backfill" THEN "running" ELSE "queued"
             m == poster[p].mode
  <2>1. PICK q \in Runs : runs' = [runs EXCEPT ![q].state = s, ![q].mode = m]
    BY <1>4, NewRunIsNew
  <2> HIDE DEF s, m
  <2>2. runs'[r].cursor = runs[r].cursor
    BY <1>1, <2>1 DEF RunRow
  <2> QED
    BY <2>2
<1>5. ASSUME NEW p \in Posters, Bind(p) PROVE P
  BY <1>1, <1>5 DEF Bind, RunRow
<1>6. ASSUME NEW q \in Runs, q # r, NEW i, NEW n, runs' = [runs EXCEPT ![q].cursor[i] = n] PROVE P
  BY <1>1, <1>6
<1> HIDE DEF P
<1>7. ASSUME NEW p \in Posters, Start(p) \/ Request(p) PROVE P
  <2>1. \A m : Check(p, m) => UNCHANGED runs
    BY DEF Check
  <2>2. EnqueueRun(p) => UNCHANGED runs
    BY DEF EnqueueRun
  <2> QED
    BY <1>3, <1>4, <1>5, <1>7, <2>1, <2>2 DEF Start, Request
<1>8. CASE RequestBreaks
  BY <1>2, <1>3, <1>8 DEF RequestBreaks, EnqueueFails, PosterLost, CancelLost
<1>9. CASE Cancelling
  BY <1>2, <1>3, <1>9 DEF Cancelling, CancelRead, CancelJob, CancelMark, CancelDirect
<1>10. CASE Claims
  BY <1>3, <1>10 DEF Claims, Claim
<1>11. ASSUME NEW j \in Jobs, Ends(j) PROVE P
  BY <1>3, <1>11 DEF Ends, Finalize, Sweep
<1>12. ASSUME NEW j \in Jobs, Broken(j) PROVE P
  BY <1>2, <1>3, <1>12
     DEF Broken, Refuse, ScanBreaks, DocsBreak, Breaks, BackfillFails, EmbeddingRefused
<1>13. CASE Pipeline
  BY <1>2, <1>3, <1>13, JobSets
     DEF Pipeline, PipelineStep, PipelineStarts, ChangeRows, BuildChanged, SubmitChanged, Submits,
         MarkPipeline, HandOver, SkipStage, EmbedChanged, StopForCancel
<1>14. CASE Fetch
  BY <1>3, <1>14 DEF Fetch, controlVars
<1>15. CASE UNCHANGED vars
  BY <1>3, <1>15 DEF vars, controlVars
<1>16. ASSUME NEW j \in Jobs, Handle(j) PROVE P
  <2>1. CASE SkipRun(j)
    BY <1>3, <2>1 DEF SkipRun
  <2>2. CASE kind = "mainline" /\ j \in Runs /\ ScanStep(j)
    <3>1. CASE SaveChunk(j)
      <4>1. runs' = [runs EXCEPT ![j].cursor[1] = Last(Chunk(j))]
        BY <3>1 DEF SaveChunk
      <4> QED
        BY <1>6, <2>2, <3>1, <4>1 DEF P
    <3> QED
      BY <1>2, <1>3, <2>2, <3>1
         DEF ScanStep, LoadScan, EnsureState, Unready, Prepare, Resolve, UpsertCommits, UnsetCanonical,
             InsertMatches, InsertRefused, SumUp, WriteRollup, Publish, MarkState, ScanSucceeds, ScanCancelled,
             LoadRun, Succeed, StopForCancel
  <2>3. CASE j \in Runs /\ BootstrapStep(j)
    <3>1. CASE SaveCursor(j)
      <4>1. runs' = [runs EXCEPT ![j].cursor[ScopeOf(work[j].ids)] = Max(work[j].ids)]
        BY <3>1 DEF SaveCursor
      <4> QED
        BY <1>6, <2>3, <3>1, <4>1 DEF P, BootstrapStep
    <3> QED
      BY <1>2, <1>3, <2>3, <3>1
         DEF BootstrapStep, ListChunk, SubmitChunk, Submits, LoadRun, Succeed, StopForCancel
  <2>4. CASE j \in Runs /\ BackfillStep(j)
    <3>1. CASE BackfillProgress(j)
      <4>1. runs' = [runs EXCEPT ![j].cursor[1] = Max(work[j].ids)]
        BY <3>1 DEF BackfillProgress
      <4> QED
        BY <1>6, <2>4, <3>1, <4>1 DEF P, BackfillStep
    <3> QED
      BY <1>2, <1>3, <2>4, <3>1
         DEF BackfillStep, ListBatch, BackfillEnqueues, LoadRun, Succeed, StopForCancel
  <2>5. CASE j \in Batches /\ BatchStep(j)
    BY <1>2, <1>3, <2>5, JobSets
       DEF BatchStep, ReadInputs, UpsertVectors, BuildEmbedded, SubmitEmbedded, Submits, StopForCancel
  <2> QED
    BY <1>16, <2>1, <2>2, <2>3, <2>4, <2>5 DEF Handle
<1> QED
  BY <1>7, <1>8, <1>9, <1>10, <1>11, <1>12, <1>13, <1>14, <1>15, <1>16 DEF Next

\* A scan in execution takes its own steps, or its execution begins or ends.
LEMMA ScanAtMoves ==
  ASSUME TypeInv, [Next]_vars, kind = "mainline", NEW r \in Runs
  PROVE  \/ scan'[r] = scan[r] /\ at'[r] \in {at[r], "none", "load", "state"} \cup Returned
         \/ scan'[r] = NoScan /\ at'[r] = "none"
         \/ EnsureState(r) \/ Unready(r) \/ Prepare(r) \/ Resolve(r) \/ UpsertCommits(r)
         \/ UnsetCanonical(r) \/ InsertMatches(r) \/ SaveChunk(r) \/ SumUp(r) \/ WriteRollup(r) \/ Publish(r)
         \/ MarkState(r)
<1> DEFINE P == \/ scan'[r] = scan[r] /\ at'[r] \in {at[r], "none", "load", "state"} \cup Returned
                \/ scan'[r] = NoScan /\ at'[r] = "none"
                \/ EnsureState(r) \/ Unready(r) \/ Prepare(r) \/ Resolve(r) \/ UpsertCommits(r)
                \/ UnsetCanonical(r) \/ InsertMatches(r) \/ SaveChunk(r) \/ SumUp(r) \/ WriteRollup(r) \/ Publish(r)
                \/ MarkState(r)
<1> SUFFICES P
  OBVIOUS
<1>1. at = [j \in Jobs |-> at[j]] /\ scan \in [Runs -> ScanRow] /\ r \in Jobs
  BY JobSets DEF TypeInv, AtTypes, ScanTypeOK
<1>2. ASSUME UNCHANGED at, scan' = scan PROVE P
  BY <1>2
<1>3. ASSUME NEW j, j # r, NEW s, at' = [at EXCEPT ![j] = s], scan'[r] = scan[r] PROVE P
  BY <1>1, <1>3
<1>4. ASSUME NEW s \in {"none", "load", "state"} \cup Returned, at' = [at EXCEPT ![r] = s], scan' = scan PROVE P
  BY <1>1, <1>4
<1>5. ASSUME NEW p \in Posters, Start(p) \/ Request(p) PROVE P
  <2>1. UNCHANGED scan
    BY <1>5 DEF Start, Request, dataVars, scanVars
  <2>2. \A m : Check(p, m) => UNCHANGED at
    BY DEF Check, jobVars
  <2>3. Create(p) \/ EnqueueRun(p) \/ Bind(p) => UNCHANGED at
    BY DEF Create, EnqueueRun, Bind, jobVars
  <2> HIDE DEF P
  <2> QED
    BY <1>2, <1>5, <2>1, <2>2, <2>3 DEF Start, Request
<1>6. CASE RequestBreaks \/ Cancelling
  <2>1. UNCHANGED at
    BY <1>6 DEF RequestBreaks, Cancelling, EnqueueFails, PosterLost, CancelLost, CancelRead, CancelJob,
                CancelMark, CancelDirect, jobVars
  <2>2. UNCHANGED scan
    BY <1>6 DEF RequestBreaks, Cancelling, dataVars, scanVars
  <2> QED
    BY <1>2, <2>1, <2>2
<1>7. CASE Claims
  <2>1. PICK j \in Jobs : Claim(j) /\ UNCHANGED dataVars
    BY <1>7 DEF Claims
  <2> DEFINE s == IF cancel[j] THEN "cancelled" ELSE "load"
  <2>2. at' = [at EXCEPT ![j] = s] /\ scan' = scan /\ s \in {"load", "cancelled"}
    BY <2>1 DEF Claim, dataVars, scanVars
  <2> HIDE DEF s, P
  <2> QED
    BY <1>3, <1>4, <2>2 DEF Returned
<1>8. ASSUME NEW j \in Jobs, Ends(j) PROVE P
  <2>1. CASE j = r
    <3>1. scan'[r] = NoScan
      BY <1>1, <1>8, <2>1 DEF Ends, ScanForgets
    <3>2. at'[r] = "none"
      BY <1>1, <1>8, <2>1 DEF Ends, Finalize, Sweep
    <3> QED
      BY <3>1, <3>2
  <2>2. CASE j # r
    <3>1. scan'[r] = scan[r]
      BY <1>1, <1>8, <2>2 DEF Ends, ScanForgets
    <3>2. at'[r] = at[r]
      BY <1>1, <1>8, <2>2 DEF Ends, Finalize, Sweep
    <3> QED
      BY <3>1, <3>2
  <2> QED
    BY <2>1, <2>2
<1>9. ASSUME NEW j \in Jobs, Broken(j) PROVE P
  <2>1. scan' = scan
    BY <1>9 DEF Broken, ScanBreaks, dataVars, scanVars
  <2> DEFINE s == IF at[j] \in Returned THEN "none" ELSE "retryable"
  <2>2. at' = [at EXCEPT ![j] = s] \/ at' = [at EXCEPT ![j] = "terminal"]
    BY <1>9 DEF Broken, Refuse, ScanBreaks, Breaks
  <2>3. s \in {"none", "retryable"}
    OBVIOUS
  <2> HIDE DEF s, P
  <2> QED
    BY <1>3, <1>4, <2>1, <2>2, <2>3 DEF Returned
<1>10. CASE Fetch
  BY <1>2, <1>10 DEF Fetch, controlVars, jobVars
<1>11. CASE UNCHANGED vars
  BY <1>2, <1>11 DEF vars, controlVars, jobVars, scanVars
<1>12. ASSUME NEW j \in Jobs, Handle(j) PROVE P
  <2>1. CASE SkipRun(j) /\ UNCHANGED dataVars
    <3>1. at' = [at EXCEPT ![j] = "success"] /\ scan' = scan
      BY <2>1 DEF SkipRun, HandlerStep, dataVars, scanVars
    <3> HIDE DEF P
    <3> QED
      BY <1>3, <1>4, <3>1 DEF Returned
  <2>2. CASE j \in Batches /\ BatchStep(j) /\ UNCHANGED scanVars
    <3>1. j # r /\ \E s : at' = [at EXCEPT ![j] = s]
      BY <2>2, JobSets DEF BatchStep, ReadInputs, UpsertVectors, BuildEmbedded, SubmitEmbedded, Submits,
                           StopForCancel, HandlerStep
    <3>2. scan' = scan
      BY <2>2 DEF scanVars
    <3> HIDE DEF P
    <3> QED
      BY <1>3, <3>1, <3>2
  <2>3. CASE j \in Runs /\ ScanStep(j)
    <3>1. CASE j = r
      <4>1. CASE LoadScan(r)
        <5>1. at' = [at EXCEPT ![r] = "state"] /\ scan' = scan
          BY <4>1 DEF LoadScan, LoadRun, HandlerStep, scanVars
        <5> HIDE DEF P
        <5> QED
          BY <1>4, <5>1
      <4>2. CASE ScanSucceeds(r)
        <5>1. at' = [at EXCEPT ![r] = "success"] /\ scan' = scan
          BY <4>2 DEF ScanSucceeds, Succeed, HandlerStep, scanVars
        <5> HIDE DEF P
        <5> QED
          BY <1>4, <5>1 DEF Returned
      <4>3. CASE ScanCancelled(r)
        <5>1. at' = [at EXCEPT ![r] = "cancelled"] /\ scan' = scan
          BY <4>3 DEF ScanCancelled, StopForCancel, HandlerStep
        <5> HIDE DEF P
        <5> QED
          BY <1>4, <5>1 DEF Returned
      <4>4. CASE InsertRefused(r)
        <5>1. at' = [at EXCEPT ![r] = "retryable"] /\ scan' = scan
          BY <4>4 DEF InsertRefused, HandlerStep
        <5> HIDE DEF P
        <5> QED
          BY <1>4, <5>1 DEF Returned
      <4> QED
        BY <2>3, <3>1, <4>1, <4>2, <4>3, <4>4 DEF ScanStep
    <3>2. CASE j # r
      <4>1. scan'[r] = scan[r]
        BY <1>1, <2>3, <3>2
           DEF ScanStep, LoadScan, EnsureState, Unready, Prepare, Resolve, UpsertCommits, UnsetCanonical,
               InsertMatches, InsertRefused, SaveChunk, SumUp, WriteRollup, Publish, MarkState,
               ScanSucceeds, ScanCancelled, scanVars
      <4>2. \E s : at' = [at EXCEPT ![j] = s]
        BY <2>3
           DEF ScanStep, LoadScan, EnsureState, Unready, Prepare, Resolve, UpsertCommits, UnsetCanonical,
               InsertMatches, InsertRefused, SaveChunk, SumUp, WriteRollup, Publish, MarkState, ScanSucceeds, ScanCancelled,
               LoadRun, Succeed, StopForCancel, HandlerStep
      <4> HIDE DEF P
      <4> QED
        BY <1>3, <3>2, <4>1, <4>2
    <3> QED
      BY <3>1, <3>2
  <2> HIDE DEF P
  <2> QED
    BY <1>12, <2>1, <2>2, <2>3 DEF Handle, BootstrapStep, BackfillStep
<1> HIDE DEF P
<1> QED
  BY <1>5, <1>6, <1>7, <1>8, <1>9, <1>10, <1>11, <1>12 DEF Next, Pipeline

LEMMA ScanStepsOn ==
  ASSUME TypeInv, [Next]_vars
  PROVE  ScanInStep'
<1>1. history' = history
  BY TableMoves
     DEF scanVars, repoVars, ScanForgets, Fetch, EnsureState, Unready, Prepare, Resolve, UpsertCommits,
         UnsetCanonical, InsertMatches, InsertRefused, SaveChunk, SumUp, WriteRollup, Publish, MarkState,
         ScanCancelled, ScanBreaks
<1>2. Repository(history)'
  BY <1>1 DEF TypeInv, ScanInStep, Repository
<1>3. kind' = kind
  BY ControlMoves
     DEF Check, Create, EnqueueRun, Bind, EnqueueFails, PosterLost,
         CancelLost, CancelJob, CancelMark, CancelRead, CancelDirect, Claim, Finalize, Sweep,
         Handles, Advance, PipelineStarts, controlVars, setup
<1>4. Commits' = Commits
  BY <1>1 DEF Commits
<1> DEFINE Early == {"chunk", "commits", "matches", "insert", "save"}
           Late == {"sum", "rollup", "publish"}
<1> SUFFICES ASSUME kind = "mainline", NEW r \in Runs
             PROVE  /\ runs'[r].cursor[1] \in {NoCommit} \cup Commits
                    /\ at'[r] \in Early => scan'[r].todo # <<>>
                    /\ at'[r] \in Late => scan'[r].left # {}
                    /\ at'[r] \in Early \cup Late \cup {"state_done"} => scan'[r].step # 0
  BY <1>2, <1>3, <1>4 DEF ScanInStep
<1>5. /\ at = [j \in Jobs |-> at[j]] /\ scan \in [Runs -> ScanRow] /\ r \in Jobs
      /\ runs \in [Runs -> RunRow] /\ step # 0
      /\ runs[r].cursor[1] \in {NoCommit} \cup Commits
      /\ at[r] \in Early => scan[r].todo # <<>>
      /\ at[r] \in Late => scan[r].left # {}
      /\ at[r] \in Early \cup Late \cup {"state_done"} => scan[r].step # 0
  <2>1. at = [j \in Jobs |-> at[j]] /\ scan \in [Runs -> ScanRow] /\ r \in Jobs /\ runs \in [Runs -> RunRow]
    BY JobSets DEF TypeInv, AtTypes, ScanTypeOK, ControlTypeOK, RunRow
  <2>2. step # 0
    BY DEF TypeInv, ScanTypeOK
  <2> QED
    BY <2>1, <2>2 DEF TypeInv, ScanInStep
<1>6. runs'[r].cursor[1] \in {NoCommit} \cup Commits
  <2>1. CASE runs'[r].cursor = runs[r].cursor
    BY <1>5, <2>1
  <2>2. CASE SaveChunk(r)
    <3> DEFINE last == Last(Chunk(r))
    <3>1. scan[r].todo # <<>>
      BY <1>5, <2>2 DEF SaveChunk, HandlerStep
    <3>2. last \in Commits /\ runs' = [runs EXCEPT ![r].cursor[1] = last]
      BY <2>2, <3>1, ChunkFacts DEF SaveChunk
    <3> HIDE DEF last
    <3> QED
      BY <1>5, <3>2 DEF RunRow
  <2> QED
    BY <2>1, <2>2, CursorMoves
<1>7. CASE scan'[r] = scan[r] /\ at'[r] \in {at[r], "none", "load", "state"} \cup Returned
  BY <1>5, <1>6, <1>7 DEF Returned
<1>8. CASE scan'[r] = NoScan /\ at'[r] = "none"
  BY <1>6, <1>8
<1>9. CASE EnsureState(r) \/ Unready(r)
  <2>1. at'[r] \in {"unready", "prepare"}
    BY <1>5, <1>9 DEF EnsureState, Unready, HandlerStep
  <2> QED
    BY <1>6, <2>1
<1>10. CASE Prepare(r)
  <2> DEFINE todo == Walk(history.steps[step].head, Since(r))
             left == IF todo = <<>> THEN ToRollUp(r, {}) ELSE {}
             last == IF runs[r].cursor[1] # NoCommit THEN runs[r].cursor[1] ELSE scan[r].last
  <2>1. scan' = [scan EXCEPT ![r].step = step, ![r].todo = todo, ![r].affected = {}, ![r].left = left,
                             ![r].last = last]
    BY <1>5, <1>10 DEF Prepare
  <2>2. at'[r] = AfterChunks(todo, left)
    BY <1>5, <1>10 DEF Prepare, HandlerStep
  <2> HIDE DEF todo, left, last
  <2>3. scan'[r].todo = todo /\ scan'[r].left = left /\ scan'[r].step = step
    BY <1>5, <2>1 DEF ScanRow
  <2> QED
    BY <1>5, <1>6, <2>2, <2>3 DEF AfterChunks
<1>11. CASE Resolve(r)
  <2> DEFINE found == NewMatches(Chunk(r))
  <2>1. scan' = [scan EXCEPT ![r].found = found]
    BY <1>11 DEF Resolve
  <2>2. at[r] = "chunk" /\ at'[r] \in {"save", "commits"}
    BY <1>5, <1>11 DEF Resolve, HandlerStep
  <2> HIDE DEF found
  <2>3. scan'[r].todo = scan[r].todo /\ scan'[r].left = scan[r].left /\ scan'[r].step = scan[r].step
    BY <1>5, <2>1 DEF ScanRow
  <2> QED
    BY <1>5, <1>6, <2>2, <2>3
<1>12. CASE UpsertCommits(r) \/ UnsetCanonical(r)
  BY <1>5, <1>6, <1>12 DEF UpsertCommits, UnsetCanonical, HandlerStep
<1>13. CASE InsertMatches(r)
  <2> DEFINE affected == scan[r].affected \cup {s \in Series : \E pc \in scan[r].found : Affects(pc[1], s)}
  <2>1. scan' = [scan EXCEPT ![r].found = {}, ![r].affected = affected]
    BY <1>5, <1>13 DEF InsertMatches
  <2>2. at[r] = "insert" /\ at'[r] = "save"
    BY <1>5, <1>13 DEF InsertMatches, HandlerStep
  <2> HIDE DEF affected
  <2>3. scan'[r].todo = scan[r].todo /\ scan'[r].left = scan[r].left /\ scan'[r].step = scan[r].step
    BY <1>5, <2>1 DEF ScanRow
  <2> QED
    BY <1>5, <1>6, <2>2, <2>3
<1>14. CASE SaveChunk(r)
  <2> DEFINE chunk == Chunk(r)
             todo == SubSeq(scan[r].todo, Len(chunk) + 1, Len(scan[r].todo))
             left == IF todo = <<>> THEN ToRollUp(r, scan[r].affected) ELSE {}
             last == Last(chunk)
  <2>1. scan' = [scan EXCEPT ![r].todo = todo, ![r].left = left, ![r].last = last]
    BY <1>14 DEF SaveChunk
  <2>2. at[r] = "save" /\ at'[r] = AfterChunks(todo, left)
    BY <1>5, <1>14 DEF SaveChunk, HandlerStep
  <2> HIDE DEF todo, left, last
  <2>3. scan'[r].todo = todo /\ scan'[r].left = left /\ scan'[r].step = scan[r].step
    BY <1>5, <2>1 DEF ScanRow
  <2> QED
    BY <1>5, <1>6, <2>2, <2>3 DEF AfterChunks
<1>15. CASE SumUp(r)
  <2> DEFINE sum == Summary(Min(scan[r].left))
  <2>1. scan' = [scan EXCEPT ![r].sum = sum]
    BY <1>15 DEF SumUp
  <2>2. at[r] = "sum" /\ at'[r] = "rollup"
    BY <1>5, <1>15 DEF SumUp, HandlerStep
  <2> HIDE DEF sum
  <2>3. scan'[r].todo = scan[r].todo /\ scan'[r].left = scan[r].left /\ scan'[r].step = scan[r].step
    BY <1>5, <2>1 DEF ScanRow
  <2> QED
    BY <1>5, <1>6, <2>2, <2>3
<1>16. CASE WriteRollup(r)
  <2>1. scan' = [scan EXCEPT ![r].sum = NoSummary]
    BY <1>16 DEF WriteRollup
  <2>2. at[r] = "rollup" /\ at'[r] = "publish"
    BY <1>5, <1>16 DEF WriteRollup, HandlerStep
  <2>3. scan'[r].todo = scan[r].todo /\ scan'[r].left = scan[r].left /\ scan'[r].step = scan[r].step
    BY <1>5, <2>1 DEF ScanRow
  <2> QED
    BY <1>5, <1>6, <2>2, <2>3
<1>17. CASE Publish(r)
  <2> DEFINE left == scan[r].left \ {Min(scan[r].left)}
  <2>1. scan' = [scan EXCEPT ![r].left = left]
    BY <1>17 DEF Publish
  <2>2. at[r] = "publish" /\ at'[r] = IF cancel[r] THEN "retryable" ELSE IF left # {} THEN "sum" ELSE "state_done"
    BY <1>5, <1>17 DEF Publish, HandlerStep
  <2> HIDE DEF left
  <2>3. scan'[r].todo = scan[r].todo /\ scan'[r].left = left /\ scan'[r].step = scan[r].step
    BY <1>5, <2>1 DEF ScanRow
  <2> QED
    BY <1>5, <1>6, <2>2, <2>3
<1>18. CASE MarkState(r)
  BY <1>5, <1>6, <1>18 DEF MarkState, HandlerStep
<1> QED
  BY <1>6, <1>7, <1>8, <1>9, <1>10, <1>11, <1>12, <1>13, <1>14, <1>15, <1>16, <1>17, <1>18, ScanAtMoves

-----------------------------------------------------------------------------
(* The types of the writers of documents. *)

\* A writer in execution takes its own steps, or its execution begins or ends.
LEMMA WorkMoves ==
  ASSUME TypeInv, [Next]_vars, NEW j \in Jobs
  PROVE  \/ work'[j] = work[j] /\ at'[j] \in {at[j], "none", "load"} \cup Returned
         \/ work'[j] = work[j] /\ kind = "mainline" /\ j \in Runs
         \/ work'[j] = NoWork /\ at'[j] = "none"
         \/ /\ kind = "meili" /\ j \in Runs
            /\ (LoadRun(j, "threads") /\ work' = work) \/ ListChunk(j) \/ SubmitChunk(j) \/ SaveCursor(j)
         \/ /\ kind = "backfill" /\ j \in Runs
            /\ (LoadRun(j, "list") /\ work' = work) \/ ListBatch(j) \/ BackfillEnqueues(j) \/ BackfillProgress(j)
         \/ j = Lexical /\ (BuildChanged \/ SubmitChanged \/ MarkPipeline)
         \/ j = Embedding /\ \E i \in {1, 2} : EmbedChanged(i)
         \/ j \in Batches /\ (ReadInputs(j) \/ UpsertVectors(j) \/ BuildEmbedded(j) \/ SubmitEmbedded(j))
<1> DEFINE P == \/ work'[j] = work[j] /\ at'[j] \in {at[j], "none", "load"} \cup Returned
                \/ work'[j] = work[j] /\ kind = "mainline" /\ j \in Runs
                \/ work'[j] = NoWork /\ at'[j] = "none"
                \/ /\ kind = "meili" /\ j \in Runs
                   /\ (LoadRun(j, "threads") /\ work' = work) \/ ListChunk(j) \/ SubmitChunk(j) \/ SaveCursor(j)
                \/ /\ kind = "backfill" /\ j \in Runs
                   /\ (LoadRun(j, "list") /\ work' = work) \/ ListBatch(j) \/ BackfillEnqueues(j) \/ BackfillProgress(j)
                \/ j = Lexical /\ (BuildChanged \/ SubmitChanged \/ MarkPipeline)
                \/ j = Embedding /\ \E i \in {1, 2} : EmbedChanged(i)
                \/ j \in Batches /\ (ReadInputs(j) \/ UpsertVectors(j) \/ BuildEmbedded(j) \/ SubmitEmbedded(j))
<1> SUFFICES P
  OBVIOUS
<1>1. at = [k \in Jobs |-> at[k]] /\ work = [k \in Jobs |-> work[k]]
  BY DEF TypeInv, AtTypes, DocsInStep
<1>2. ASSUME UNCHANGED at, work' = work PROVE P
  BY <1>2
<1>3. ASSUME NEW k, k # j, NEW s, at' = [at EXCEPT ![k] = s], work'[j] = work[j] PROVE P
  BY <1>1, <1>3
<1>4. ASSUME NEW s \in {"none", "load"} \cup Returned, at' = [at EXCEPT ![j] = s], work'[j] = work[j] PROVE P
  BY <1>1, <1>4
<1>5. ASSUME NEW p \in Posters, Start(p) \/ Request(p) PROVE P
  <2>1. UNCHANGED work
    BY <1>5 DEF Start, Request, dataVars, docVars
  <2>2. \A m : Check(p, m) => UNCHANGED at
    BY DEF Check, jobVars
  <2>3. Create(p) \/ EnqueueRun(p) \/ Bind(p) => UNCHANGED at
    BY DEF Create, EnqueueRun, Bind, jobVars
  <2> HIDE DEF P
  <2> QED
    BY <1>2, <1>5, <2>1, <2>2, <2>3 DEF Start, Request
<1>6. CASE RequestBreaks \/ Cancelling
  <2>1. UNCHANGED at
    BY <1>6 DEF RequestBreaks, Cancelling, EnqueueFails, PosterLost, CancelLost, CancelRead, CancelJob,
                CancelMark, CancelDirect, jobVars
  <2>2. UNCHANGED work
    BY <1>6 DEF RequestBreaks, Cancelling, dataVars, docVars
  <2> QED
    BY <1>2, <2>1, <2>2
<1>7. CASE Claims
  <2>1. PICK k \in Jobs : Claim(k) /\ UNCHANGED dataVars
    BY <1>7 DEF Claims
  <2> DEFINE s == IF cancel[k] THEN "cancelled" ELSE "load"
  <2>2. at' = [at EXCEPT ![k] = s] /\ work' = work /\ s \in {"load", "cancelled"}
    BY <2>1 DEF Claim, dataVars, docVars
  <2> HIDE DEF s, P
  <2> QED
    BY <1>3, <1>4, <2>2 DEF Returned
<1>8. ASSUME NEW k \in Jobs, Ends(k) PROVE P
  <2>1. work' = [work EXCEPT ![k] = NoWork]
    BY <1>8 DEF Ends, DocsForget
  <2>2. at'[k] = "none" /\ (k # j => at'[j] = at[j])
    BY <1>1, <1>8 DEF Ends, Finalize, Sweep
  <2>3. work'[k] = NoWork /\ (k # j => work'[j] = work[j])
    BY <1>1, <2>1
  <2> QED
    BY <2>2, <2>3
<1>9. ASSUME NEW k \in Jobs, Broken(k) PROVE P
  <2>1. work' = work
    BY <1>9 DEF Broken, DocsBreak, dataVars, docVars
  <2> DEFINE s == IF at[k] \in Returned THEN "none" ELSE "retryable"
  <2>2. \/ at' = [at EXCEPT ![k] = s] \/ at' = [at EXCEPT ![k] = "terminal"]
        \/ at' = [at EXCEPT ![k] = "retryable"]
    BY <1>9 DEF Broken, Refuse, ScanBreaks, DocsBreak, Breaks, BackfillFails, EmbeddingRefused
  <2>3. s \in {"none", "retryable"}
    OBVIOUS
  <2> HIDE DEF s, P
  <2> QED
    BY <1>3, <1>4, <2>1, <2>2, <2>3 DEF Returned
<1>10. CASE Fetch /\ UNCHANGED docVars
  BY <1>2, <1>10 DEF Fetch, controlVars, jobVars, docVars
<1>11. CASE UNCHANGED vars
  BY <1>2, <1>11 DEF vars, controlVars, jobVars, docVars
<1>12. ASSUME NEW k, NEW from, StopForCancel(k, from), work' = work PROVE P
  <2>1. at' = [at EXCEPT ![k] = "cancelled"]
    BY <1>12 DEF StopForCancel, HandlerStep
  <2> HIDE DEF P
  <2> QED
    BY <1>3, <1>4, <1>12, <2>1 DEF Returned
<1>13. ASSUME NEW k, NEW from, Succeed(k, from), work' = work PROVE P
  <2>1. at' = [at EXCEPT ![k] = "success"]
    BY <1>13 DEF Succeed, HandlerStep
  <2> HIDE DEF P
  <2> QED
    BY <1>3, <1>4, <1>13, <2>1 DEF Returned
<1>14. ASSUME NEW k \in Jobs, Handle(k) PROVE P
  <2>1. CASE SkipRun(k) /\ UNCHANGED dataVars
    <3>1. at' = [at EXCEPT ![k] = "success"] /\ work' = work
      BY <2>1 DEF SkipRun, HandlerStep, dataVars, docVars
    <3> HIDE DEF P
    <3> QED
      BY <1>3, <1>4, <3>1 DEF Returned
  <2>2. CASE kind = "mainline" /\ k \in Runs /\ ScanStep(k) /\ UNCHANGED docVars
    <3>1. \E s : at' = [at EXCEPT ![k] = s]
      BY <2>2
         DEF ScanStep, LoadScan, EnsureState, Unready, Prepare, Resolve, UpsertCommits, UnsetCanonical,
             InsertMatches, InsertRefused, SaveChunk, SumUp, WriteRollup, Publish, MarkState, ScanSucceeds, ScanCancelled,
             LoadRun, Succeed, StopForCancel, HandlerStep
    <3>2. work' = work
      BY <2>2 DEF docVars
    <3>3. CASE k # j
      <4> HIDE DEF P
      <4> QED
        BY <1>3, <3>1, <3>2, <3>3
    <3> QED
      BY <2>2, <3>2, <3>3
  <2>3. CASE k \in Runs /\ BootstrapStep(k)
    <3>1. CASE k = j
      <4>1. CASE Succeed(j, "mark") /\ UNCHANGED docVars
        BY <1>13, <4>1 DEF docVars
      <4>2. ASSUME NEW from, StopForCancel(j, from), UNCHANGED docVars PROVE P
        BY <1>12, <4>2 DEF docVars
      <4>3. CASE LoadRun(j, "threads") /\ UNCHANGED docVars
        BY <2>3, <3>1, <4>3 DEF docVars, BootstrapStep
      <4>4. CASE ListChunk(j) \/ SubmitChunk(j) \/ SaveCursor(j)
        BY <2>3, <3>1, <4>4 DEF BootstrapStep
      <4> HIDE DEF P
      <4> QED
        BY <2>3, <3>1, <4>1, <4>2, <4>3, <4>4 DEF BootstrapStep
    <3>2. CASE k # j
      <4>1. \E s : at' = [at EXCEPT ![k] = s]
        BY <2>3 DEF BootstrapStep, LoadRun, ListChunk, SubmitChunk, Submits, SaveCursor, Succeed,
                    StopForCancel, HandlerStep
      <4>2. work'[j] = work[j]
        BY <1>1, <2>3, <3>2
           DEF BootstrapStep, ListChunk, SubmitChunk, Submits, SaveCursor, Work, docVars
      <4> HIDE DEF P
      <4> QED
        BY <1>3, <3>2, <4>1, <4>2
    <3> QED
      BY <3>1, <3>2
  <2>4. CASE k \in Runs /\ BackfillStep(k)
    <3>1. CASE k = j
      <4>1. CASE Succeed(j, "mark") /\ UNCHANGED docVars
        BY <1>13, <4>1 DEF docVars
      <4>2. CASE StopForCancel(j, "list") /\ UNCHANGED docVars
        BY <1>12, <4>2 DEF docVars
      <4>3. CASE LoadRun(j, "list") /\ UNCHANGED docVars
        BY <2>4, <3>1, <4>3 DEF docVars, BackfillStep
      <4>4. CASE ListBatch(j) \/ BackfillEnqueues(j) \/ BackfillProgress(j)
        BY <2>4, <3>1, <4>4 DEF BackfillStep
      <4> HIDE DEF P
      <4> QED
        BY <2>4, <3>1, <4>1, <4>2, <4>3, <4>4 DEF BackfillStep
    <3>2. CASE k # j
      <4>1. \E s : at' = [at EXCEPT ![k] = s]
        BY <2>4 DEF BackfillStep, LoadRun, ListBatch, BackfillEnqueues, BackfillProgress, Succeed,
                    StopForCancel, HandlerStep
      <4>2. work'[j] = work[j]
        BY <1>1, <2>4, <3>2
           DEF BackfillStep, ListBatch, BackfillEnqueues, BackfillProgress, Work, docVars
      <4> HIDE DEF P
      <4> QED
        BY <1>3, <3>2, <4>1, <4>2
    <3> QED
      BY <3>1, <3>2
  <2>5. CASE k \in Batches /\ BatchStep(k)
    <3>1. CASE k = j
      <4>1. CASE StopForCancel(j, "load") /\ UNCHANGED docVars
        BY <1>12, <4>1 DEF docVars
      <4>2. CASE ReadInputs(j) \/ UpsertVectors(j) \/ BuildEmbedded(j) \/ SubmitEmbedded(j)
        BY <2>5, <3>1, <4>2
      <4> HIDE DEF P
      <4> QED
        BY <2>5, <3>1, <4>1, <4>2 DEF BatchStep
    <3>2. CASE k # j
      <4>1. \E s : at' = [at EXCEPT ![k] = s]
        BY <2>5 DEF BatchStep, ReadInputs, UpsertVectors, BuildEmbedded, SubmitEmbedded, Submits,
                    StopForCancel, HandlerStep
      <4>2. work'[j] = work[j]
        BY <1>1, <2>5, <3>2
           DEF BatchStep, ReadInputs, UpsertVectors, BuildEmbedded, SubmitEmbedded, Submits, Work, docVars
      <4> HIDE DEF P
      <4> QED
        BY <1>3, <3>2, <4>1, <4>2
    <3> QED
      BY <3>1, <3>2
  <2> HIDE DEF P
  <2> QED
    BY <1>14, <2>1, <2>2, <2>3, <2>4, <2>5 DEF Handle
<1>15. CASE Pipeline
  <2>1. CASE PipelineStarts
    BY <1>2, <2>1 DEF PipelineStarts
  <2>2. CASE ChangeRows \/ HandOver \/ \E k \in {Threading, Lexical} : SkipStage(k)
    <3>1. (\E k : at' = [at EXCEPT ![k] = "success"]) /\ work' = work
      BY <2>2 DEF ChangeRows, HandOver, SkipStage, HandlerStep, docVars
    <3> HIDE DEF P
    <3> QED
      BY <1>3, <1>4, <3>1 DEF Returned
  <2>3. CASE BuildChanged \/ SubmitChanged \/ MarkPipeline
    <3>1. CASE Lexical # j
      <4>1. \E s : at' = [at EXCEPT ![Lexical] = s]
        BY <2>3 DEF BuildChanged, SubmitChanged, Submits, MarkPipeline, HandlerStep
      <4>2. work'[j] = work[j]
        BY <1>1, <2>3, <3>1 DEF BuildChanged, SubmitChanged, Submits, MarkPipeline, Work
      <4> HIDE DEF P
      <4> QED
        BY <1>3, <3>1, <4>1, <4>2
    <3> QED
      BY <2>3, <3>1
  <2>4. ASSUME NEW i \in {1, 2}, EmbedChanged(i) PROVE P
    <3>1. CASE Embedding # j
      <4>1. (\E s : at' = [at EXCEPT ![Embedding] = s]) /\ work' = work
        BY <2>4 DEF EmbedChanged, HandlerStep
      <4> HIDE DEF P
      <4> QED
        BY <1>3, <3>1, <4>1
    <3> QED
      BY <2>4, <3>1
  <2>5. ASSUME NEW k, NEW from, StopForCancel(k, from), UNCHANGED docVars PROVE P
    BY <1>12, <2>5 DEF docVars
  <2> HIDE DEF P
  <2> QED
    BY <1>15, <2>1, <2>2, <2>3, <2>4, <2>5 DEF Pipeline, PipelineStep
<1> HIDE DEF P
<1> QED
  BY <1>5, <1>6, <1>7, <1>8, <1>9, <1>10, <1>11, <1>14, <1>15 DEF Next

LEMMA DocumentsIn ==
  ASSUME TypeInv, NEW ids \in SUBSET Docs
  PROVE  /\ DOMAIN Built(ids) \subseteq ids /\ \A d \in DOMAIN Built(ids) : Built(ids)[d] \in DocRow
         /\ DOMAIN BuiltBare(ids) \subseteq ids /\ \A d \in DOMAIN BuiltBare(ids) : BuiltBare(ids)[d] \in DocRow
         /\ DOMAIN Inputs(ids) \subseteq ids /\ \A d \in DOMAIN Inputs(ids) : Inputs(ids)[d] \in Nat
BY DEF TypeInv, DocsTypeOK, Built, BuiltBare, Documents, Inputs, DocRow

LEMMA DocsTypeStep ==
  ASSUME TypeInv, [Next]_vars
  PROVE  DocsTypeOK'
<1>1. /\ text \in [Docs -> Nat] /\ vector \in [Docs -> Nat]
      /\ pipeline \in {"none", "running", "succeeded"}
      /\ index \in [Docs -> DocRow]
      /\ batch \in [Batches -> [source : {0} \cup Jobs, ids : SUBSET Docs]]
  BY DEF TypeInv, DocsTypeOK
<1>2. CASE UNCHANGED rowVars
  BY <1>1, <1>2 DEF rowVars, DocsTypeOK
<1>3. ASSUME NEW s \in Jobs, NEW ids \in SUBSET Docs, EnqueueBatch(s, ids), UNCHANGED <<text, vector, index, pipeline>>
      PROVE  DocsTypeOK'
  <2>1. CASE UNCHANGED <<batch, job>>
    BY <1>1, <1>3, <2>1 DEF DocsTypeOK
  <2>2. CASE ~UNCHANGED <<batch, job>>
    <3>1. PICK b \in Batches : /\ batch' = [batch EXCEPT ![b] = [source |-> s, ids |-> ids]]
                               /\ job' = [job EXCEPT ![b] = "waiting"]
      <4>1. EnqueueBatch(s, ids)
        BY <1>3
      <4>2. \E b \in Batches : /\ batch[b].source = 0 /\ job[b] = "none"
                               /\ batch' = [batch EXCEPT ![b] = [source |-> s, ids |-> ids]]
                               /\ job' = [job EXCEPT ![b] = "waiting"]
        BY <2>2, <4>1, EnqueueBatchIs
      <4> QED
        BY <4>2
    <3>2. batch' \in [Batches -> [source : {0} \cup Jobs, ids : SUBSET Docs]]
      BY <1>1, <3>1
    <3> QED
      BY <1>1, <1>3, <3>2 DEF DocsTypeOK
  <2> QED
    BY <2>1, <2>2
<1>4. ASSUME NEW j \in Jobs, at[j] = "submit", Submit(work[j].docs), UNCHANGED <<text, vector, pipeline, batch>>
      PROVE  DocsTypeOK'
  <2>1. \A d \in DOMAIN work[j].docs : work[j].docs[d] \in DocRow
    BY <1>4 DEF TypeInv, DocsInStep
  <2>2. index' \in [Docs -> DocRow]
    BY <1>1, <1>4, <2>1 DEF Submit
  <2> QED
    BY <1>1, <1>4, <2>2 DEF DocsTypeOK
<1>5. ASSUME NEW j \in Jobs, DocsForget(j) PROVE DocsTypeOK'
  BY <1>2, <1>5 DEF DocsForget
<1>6. ASSUME NEW r \in Runs, ListChunk(r) \/ SaveCursor(r) \/ ListBatch(r) \/ BackfillProgress(r)
      PROVE  DocsTypeOK'
  BY <1>2, <1>6 DEF ListChunk, SaveCursor, ListBatch, BackfillProgress
<1>7. ASSUME NEW r \in Runs, SubmitChunk(r) PROVE DocsTypeOK'
  BY <1>4, <1>7, JobSets DEF SubmitChunk, Submits, HandlerStep
<1>8. ASSUME NEW r \in Runs, kind = "backfill", BackfillEnqueues(r) PROVE DocsTypeOK'
  <2> DEFINE ids == work[r].ids
  <2>1. ids \in SUBSET Docs /\ EnqueueBatch(r, ids) /\ UNCHANGED <<text, vector, index, pipeline>>
    BY <1>8 DEF BackfillEnqueues, HandlerStep, TypeInv, DocsInStep
  <2> HIDE DEF ids
  <2> QED
    BY <1>3, <2>1, JobSets
<1>9. ASSUME NEW b \in Batches, ReadInputs(b) \/ BuildEmbedded(b) PROVE DocsTypeOK'
  BY <1>2, <1>9 DEF ReadInputs, BuildEmbedded
<1>10. ASSUME NEW b \in Batches, UpsertVectors(b) PROVE DocsTypeOK'
  <2>1. \A d \in DOMAIN work[b].docs : work[b].docs[d] \in Nat
    BY <1>10, JobSets DEF UpsertVectors, HandlerStep, TypeInv, DocsInStep
  <2>2. vector' \in [Docs -> Nat]
    BY <1>1, <1>10, <2>1 DEF UpsertVectors
  <2> QED
    BY <1>1, <1>10, <2>2 DEF UpsertVectors, DocsTypeOK
<1>11. ASSUME NEW b \in Batches, SubmitEmbedded(b) PROVE DocsTypeOK'
  BY <1>4, <1>11, JobSets DEF SubmitEmbedded, Submits, HandlerStep
<1>12. CASE PipelineStarts \/ MarkPipeline
  BY <1>1, <1>12 DEF PipelineStarts, MarkPipeline, DocsTypeOK
<1>13. CASE ChangeRows
  <2>1. text' \in [Docs -> Nat]
    BY <1>1, <1>13 DEF ChangeRows
  <2> QED
    BY <1>1, <1>13, <2>1 DEF ChangeRows, DocsTypeOK
<1>14. CASE BuildChanged \/ HandOver
  BY <1>2, <1>14 DEF BuildChanged, HandOver, docVars
<1>15. CASE SubmitChanged
  BY <1>4, <1>15, JobSets DEF SubmitChanged, Submits, HandlerStep
<1>16. ASSUME NEW i \in {1, 2}, EmbedChanged(i) PROVE DocsTypeOK'
  <2> DEFINE ids == Changed \cap Scope(i)
  <2>1. ids \in SUBSET Docs
    BY DocAssumption DEF Docs
  <2>2. UNCHANGED <<text, vector, index, pipeline>> /\ (UNCHANGED batch \/ EnqueueBatch(Embedding, ids))
    BY <1>16 DEF EmbedChanged
  <2> HIDE DEF ids
  <2>3. CASE UNCHANGED batch
    BY <1>1, <2>2, <2>3 DEF DocsTypeOK
  <2> QED
    BY <1>3, <2>1, <2>2, <2>3, JobSets
<1>17. CASE UNCHANGED docVars
  BY <1>2, <1>17 DEF docVars
<1> QED
  BY DocMoves, <1>5, <1>6, <1>7, <1>8, <1>9, <1>10, <1>11, <1>12, <1>13, <1>14, <1>15, <1>16, <1>17

LEMMA DocsStepsOn ==
  ASSUME TypeInv, [Next]_vars
  PROVE  DocsInStep'
<1>1. work' = [j \in Jobs |-> work'[j]]
  <2>1. work = [j \in Jobs |-> work[j]]
    BY DEF TypeInv, DocsInStep
  <2>2. work' = work \/ \E j \in Jobs : \E ids, docs : work' = [work EXCEPT ![j] = [ids |-> ids, docs |-> docs]]
    BY DocMoves, JobSets
       DEF docVars, DocsForget, NoWork, ListChunk, SubmitChunk, Submits, SaveCursor, ListBatch, BackfillEnqueues,
           BackfillProgress, ReadInputs, UpsertVectors, BuildEmbedded, SubmitEmbedded, PipelineStarts,
           ChangeRows, BuildChanged, SubmitChanged, MarkPipeline, HandOver, EmbedChanged, Work
  <2> QED
    BY <2>1, <2>2
<1>2. kind' = kind
  BY ControlMoves
     DEF Check, Create, EnqueueRun, Bind, EnqueueFails, PosterLost,
         CancelLost, CancelJob, CancelMark, CancelRead, CancelDirect, Claim, Finalize, Sweep,
         Handles, Advance, PipelineStarts, controlVars, setup
<1> DEFINE Q(j) == /\ kind # "mainline" /\ j \in Runs /\ at'[j] \in {"submit", "save", "enqueue", "progress"} =>
                        work'[j].ids \in SUBSET Docs /\ work'[j].ids # {}
                   /\ at'[j] = "submit" => \A d \in DOMAIN work'[j].docs : work'[j].docs[d] \in DocRow
                   /\ at'[j] = "vectors" => \A d \in DOMAIN work'[j].docs : work'[j].docs[d] \in Nat
<1> SUFFICES ASSUME NEW j \in Jobs PROVE Q(j)
  BY <1>1, <1>2, JobSets DEF DocsInStep
<1>3. /\ at = [k \in Jobs |-> at[k]] /\ work = [k \in Jobs |-> work[k]] /\ at[j] \in StepsOf(j)
      /\ kind # "mainline" /\ j \in Runs /\ at[j] \in {"submit", "save", "enqueue", "progress"} =>
           work[j].ids \in SUBSET Docs /\ work[j].ids # {}
      /\ at[j] = "submit" => \A d \in DOMAIN work[j].docs : work[j].docs[d] \in DocRow
      /\ at[j] = "vectors" => \A d \in DOMAIN work[j].docs : work[j].docs[d] \in Nat
  BY DEF TypeInv, AtTypes, DocsInStep
<1>4. CASE work'[j] = work[j] /\ at'[j] \in {at[j], "none", "load"} \cup Returned
  BY <1>3, <1>4 DEF Returned
<1>5. CASE work'[j] = work[j] /\ kind = "mainline" /\ j \in Runs
  <2>1. AtTypes'
    BY AtStep
  <2>2. at'[j] \notin {"submit", "vectors"}
    BY <1>2, <1>5, <2>1, JobSets DEF AtTypes, StepsOf, RunSteps, Returned
  <2> QED
    BY <1>5, <2>2
<1>6. CASE at'[j] = "none"
  BY <1>6
<1>7. CASE kind = "meili" /\ j \in Runs /\ LoadRun(j, "threads")
  <2>1. at'[j] = "threads"
    BY <1>3, <1>7 DEF LoadRun, HandlerStep
  <2> QED
    BY <2>1
<1>8. CASE j \in Runs /\ ListChunk(j)
  <2>1. PICK i \in {1, 2} :
          LET ids == Candidates(i, runs[j].cursor[i])
          IN /\ HandlerStep(j, IF i = 1 THEN "threads" ELSE "series",
                            IF ids # {} THEN "submit" ELSE IF i = 1 THEN "series" ELSE "mark")
             /\ Work(j, ids, Built(ids))
    BY <1>8 DEF ListChunk
  <2> DEFINE ids == Candidates(i, runs[j].cursor[i])
  <2>2. ids \in SUBSET Docs
    BY DocAssumption DEF Candidates, Scope, Docs
  <2>3. work'[j] = [ids |-> ids, docs |-> Built(ids)]
        /\ at'[j] = IF ids # {} THEN "submit" ELSE IF i = 1 THEN "series" ELSE "mark"
    BY <1>3, <2>1 DEF HandlerStep, Work
  <2> HIDE DEF ids
  <2>4. \A d \in DOMAIN Built(ids) : Built(ids)[d] \in DocRow
    BY <2>2, DocumentsIn
  <2> QED
    BY <2>2, <2>3, <2>4
<1>9. CASE kind = "meili" /\ j \in Runs /\ SubmitChunk(j)
  BY <1>3, <1>9 DEF SubmitChunk, Submits, HandlerStep
<1>10. CASE j \in Runs /\ SaveCursor(j)
  <2>1. at'[j] \in {"threads", "series"}
    BY <1>3, <1>10 DEF SaveCursor, HandlerStep
  <2> QED
    BY <2>1
<1>11. CASE j \in Runs /\ LoadRun(j, "list")
  <2>1. at'[j] = "list"
    BY <1>3, <1>11 DEF LoadRun, HandlerStep
  <2> QED
    BY <2>1
<1>12. CASE j \in Runs /\ ListBatch(j)
  <2> DEFINE ids == Candidates(1, runs[j].cursor[1])
  <2>1. ids \in SUBSET Docs
    BY DocAssumption DEF Candidates, Scope, Docs
  <2>2. work'[j].ids = ids /\ at'[j] = IF ids # {} THEN "enqueue" ELSE "mark"
    BY <1>3, <1>12 DEF ListBatch, HandlerStep, Work
  <2> HIDE DEF ids
  <2> QED
    BY <2>1, <2>2
<1>13. CASE kind = "backfill" /\ j \in Runs /\ BackfillEnqueues(j)
  BY <1>3, <1>13 DEF BackfillEnqueues, HandlerStep
<1>14. CASE j \in Runs /\ BackfillProgress(j)
  <2>1. at'[j] = "list"
    BY <1>3, <1>14 DEF BackfillProgress, HandlerStep
  <2> QED
    BY <2>1
<1>15. CASE j = Lexical /\ BuildChanged
  <2>1. Changed \in SUBSET Docs
    BY DocAssumption DEF Docs
  <2>2. work'[j] = [ids |-> Changed, docs |-> BuiltBare(Changed)] /\ at'[j] = "submit"
    BY <1>3, <1>15 DEF BuildChanged, HandlerStep, Work
  <2> QED
    BY <1>15, <2>1, <2>2, DocumentsIn, JobSets
<1>16. CASE j = Lexical /\ (SubmitChanged \/ MarkPipeline)
  <2>1. at'[j] \in {"cancelled", "mark", "hand_over"}
    BY <1>3, <1>16 DEF SubmitChanged, Submits, MarkPipeline, HandlerStep
  <2> QED
    BY <2>1
<1>17. CASE j = Embedding /\ \E i \in {1, 2} : EmbedChanged(i)
  <2>1. at'[j] \in {"embed_series", "success"}
    BY <1>3, <1>17 DEF EmbedChanged, HandlerStep
  <2> QED
    BY <2>1
<1>18. CASE j \in Batches /\ ReadInputs(j)
  <2> DEFINE ids == batch[j].ids
  <2>1. ids \in SUBSET Docs
    BY <1>18 DEF TypeInv, DocsTypeOK
  <2>2. work'[j].docs = Inputs(ids) /\ at'[j] = "vectors"
    BY <1>3, <1>18 DEF ReadInputs, HandlerStep, Work
  <2> HIDE DEF ids
  <2> QED
    BY <1>18, <2>1, <2>2, DocumentsIn
<1>19. CASE j \in Batches /\ (UpsertVectors(j) \/ SubmitEmbedded(j))
  <2>1. at'[j] \in {"build", "success", "cancelled"}
    BY <1>3, <1>19 DEF UpsertVectors, SubmitEmbedded, Submits, HandlerStep
  <2> QED
    BY <2>1
<1>20. CASE j \in Batches /\ BuildEmbedded(j)
  <2> DEFINE ids == batch[j].ids
  <2>1. ids \in SUBSET Docs
    BY <1>20 DEF TypeInv, DocsTypeOK
  <2>2. work'[j].docs = Built(ids) /\ at'[j] = "submit"
    BY <1>3, <1>20 DEF BuildEmbedded, HandlerStep, Work
  <2> HIDE DEF ids
  <2> QED
    BY <1>20, <2>1, <2>2, DocumentsIn, JobSets
<1> HIDE DEF Q
<1> QED
  BY <1>4, <1>5, <1>6, <1>7, <1>8, <1>9, <1>10, <1>11, <1>12, <1>13, <1>14, <1>15, <1>16, <1>17, <1>18, <1>19, <1>20,
     WorkMoves

LEMMA TypesFromStart ==
  ASSUME Init
  PROVE  TypeInv
<1>1. PICK s \in Setups : ControlInit(s)
  BY DEF Init
<1>2. s.starts \in 0..RunBound /\ s.kind \in {"mainline", "meili", "backfill"} /\ s.faults \in Nat /\ s.cancels \in Nat
  BY SetupAssumption
<1>3. Repository(history)
  <2>1. history \in Histories
    BY HistoryAssumption DEF Init, ScanInit
  <2> QED
    BY <2>1, HistoryAssumption
<1>4. ControlTypeOK
  <2>1. /\ kind = s.kind /\ slots = s.slots
        /\ faults \in 0..s.faults /\ cancels \in 0..s.cancels
    BY <1>1, <1>2 DEF ControlInit
  <2>2. runs \in [Runs -> RunRow]
    BY <1>1 DEF ControlInit, NewRun, RunRow
  <2>3. poster \in [Posters -> [pc : {"check", "create", "enqueue", "bind", "done"},
                                run : {NoRun} \cup Runs, mode : {"bootstrap", "incremental"}]]
    BY <1>1 DEF ControlInit
  <2>4. /\ canceller \in [pc : {"idle", "job", "mark"}, run : {NoRun} \cup Runs]
        /\ job \in [Jobs -> JobState] /\ cancel \in [Jobs -> BOOLEAN]
    BY <1>1 DEF ControlInit, JobState
  <2>5. attempt \in [Jobs -> 0..MaxAttempts]
    BY <1>1, BoundAssumption DEF ControlInit
  <2> QED
    BY <2>1, <2>2, <2>3, <2>4, <2>5 DEF ControlTypeOK, RunRow, JobState
<1>5. ScanTypeOK
  <2>1. 1 \in 1..Len(history.steps) /\ Len(history.steps) \in Nat
    BY <1>3 DEF Repository
  <2>2. NoSummary \in SummaryRow
    BY DEF NoSummary, SummaryRow, NoTag
  <2>3. NoScan \in ScanRow
    BY <2>1, <2>2 DEF NoScan, ScanRow, NoCommit
  <2> QED
    BY <2>1, <2>2, <2>3 DEF Init, ScanInit, ScanTypeOK, NoTag
<1>6. DocsTypeOK
  BY DEF Init, DocsInit, DocsTypeOK, DocRow, NoDoc, NoBatch
<1>7. AtTypes
  BY <1>1 DEF ControlInit, AtTypes, StepsOf
<1>8. RunsApart
  <2>1. Created = {}
    BY <1>1 DEF ControlInit, Created, NewRun
  <2>2. Created = 1..Cardinality(Created)
    BY <2>1, FS_EmptySet
  <2> QED
    BY <1>1, <2>2, JobSets DEF ControlInit, RunsApart, NewRun
<1>9. JobsInStep
  BY <1>1 DEF ControlInit, JobsInStep
<1>10. RowsInStep
  BY <1>1, JobSets DEF ControlInit, RowsInStep
<1>11. ScanInStep
  BY <1>1, <1>3, JobSets DEF ControlInit, ScanInStep, NewRun, NoCommit
<1>12. DocsInStep
  BY <1>1, JobSets DEF ControlInit, DocsInStep, Init, DocsInit
<1> QED
  BY <1>4, <1>5, <1>6, <1>7, <1>8, <1>9, <1>10, <1>11, <1>12 DEF TypeInv

LEMMA TypeInvHolds == Spec => []TypeInv
<1>1. Init => TypeInv
  BY TypesFromStart
<1>2. TypeInv /\ [Next]_vars => TypeInv'
  BY ControlTypeStep, ScanTypeStep, DocsTypeStep, AtStep, ApartStep, JobsStep, RowsStep, ScanStepsOn, DocsStepsOn
     DEF TypeInv
<1> QED
  BY <1>1, <1>2, PTL DEF Spec

\* Every variable of the runs, the scans and the documents has its type, and an
\* execution is at a step of its handler.
THEOREM TypeCorrect == Spec => []TypeOK
<1>1. TypeInv => TypeOK
  BY DEF TypeInv, AtTypes, TypeOK
<1> QED
  BY <1>1, TypeInvHolds, PTL

=============================================================================
