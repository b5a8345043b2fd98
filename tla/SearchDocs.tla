----------------------------- MODULE SearchDocs -----------------------------
(***************************************************************************)
(* Who writes the documents of the search index: the pipeline's lexical    *)
(* and embedding stages, the embedding batches, the bootstrap of the index *)
(* and the backfill (pipeline/lexical.rs, pipeline_flow.rs,                *)
(* embedding_generate.rs, meili_bootstrap.rs, embedding_backfill.rs).      *)
(*                                                                         *)
(* Documents are numbered: threads first, then patch series.  A text or a  *)
(* vector is known by the number of the change it was made from, 0 where   *)
(* there is none.  Each writer reads what it makes a document of and       *)
(* submits it afterwards; the index takes documents in the order they were *)
(* submitted.  One run of the pipeline changes documents meanwhile.        *)
(***************************************************************************)
EXTENDS OperatorRuns, FiniteSetsExt

CONSTANTS
  ThreadDocs,  \* number of threads
  SeriesDocs,  \* number of patch series
  Known,       \* the documents whose rows are there at the start
  Changed,     \* those the pipeline run writes
  DocChunk     \* embeddings.enqueue_batch_size

ASSUME DocAssumption == /\ ThreadDocs \in Nat /\ SeriesDocs \in Nat /\ DocChunk \in Nat \ {0}
                        /\ Known \subseteq 1..ThreadDocs + SeriesDocs
                        /\ Changed \subseteq 1..ThreadDocs + SeriesDocs
ASSUME JobsAssumption == JobBound >= RunBound + 3

Docs == 1..ThreadDocs + SeriesDocs
\* The two scopes, in the order every writer takes them.
Scope(i) == IF i = 1 THEN 1..ThreadDocs ELSE Docs \ 1..ThreadDocs

\* The jobs of the pipeline run, each enqueued by the one before, and those of
\* embedding batches.
Threading == RunBound + 1
Lexical == RunBound + 2
Embedding == RunBound + 3
Batches == RunBound + 4..JobBound

VARIABLES
  text,    \* the rows a document is made of
  vector,  \* search_doc_embeddings
  index,   \* the document in Meilisearch
  pipeline,  \* pipeline_runs.state of the one pipeline run
  batch,   \* payload of the embedding batches; source 0 where there is no row
  work     \* the variables of each handler in execution

rowVars == <<text, vector, index, pipeline, batch>>
docVars == <<rowVars, work>>

NoDoc == [text |-> 0, vector |-> 0]
NoBatch == [source |-> 0, ids |-> {}]
NoWork == [ids |-> {}, docs |-> [d \in {} |-> NoDoc]]

DocRow == [text : Nat, vector : Nat]

DocsTypeOK ==
  /\ text \in [Docs -> Nat] /\ vector \in [Docs -> Nat]
  /\ pipeline \in {"none", "running", "succeeded"}
  /\ index \in [Docs -> DocRow]
  /\ batch \in [Batches -> [source : {0} \cup Jobs, ids : SUBSET Docs]]

DocsInit ==
  /\ text = [d \in Docs |-> IF d \in Known THEN 1 ELSE 0]
  /\ vector = [d \in Docs |-> 0]
  /\ index = [d \in Docs |-> NoDoc]
  /\ pipeline = "none"
  /\ batch = [b \in Batches |-> NoBatch]
  /\ work = [j \in Jobs |-> NoWork]

-----------------------------------------------------------------------------
(* Statements and calls. *)

\* Mutant of Candidates: OFFSET in the place of the cursor's comparison.
CandidatesOffset(i, cursor) ==
  LET all == {d \in Scope(i) : text[d] # 0}
  IN {d \in all : Cardinality({e \in all : e < d}) \in cursor + 1..cursor + DocChunk}

\* list_candidate_ids: the next rows of a scope behind a cursor.
Candidates(i, cursor) ==
  LET behind == {d \in Scope(i) : text[d] # 0 /\ d > cursor}
  IN {d \in behind : Cardinality({e \in behind : e < d}) < DocChunk}

\* build_thread_docs and build_patch_series_docs: an id without rows has no document.
Documents(ids, v) == [d \in {e \in ids : text[e] # 0} |-> [text |-> text[d], vector |-> v[d]]]

\* build_docs_for_index, with a stored vector or a null placeholder.
Built(ids) == Documents(ids, vector)
BuiltBare(ids) == Documents(ids, [d \in Docs |-> 0])

\* build_embedding_inputs.
Inputs(ids) == [d \in {e \in ids : text[e] # 0} |-> text[d]]

\* upsert_documents.
Submit(docs) == index' = [d \in Docs |-> IF d \in DOMAIN docs THEN docs[d] ELSE index[d]]

\* Mutant of SameBatch: the dedupe key leaves the source out.
SameBatchIds(b, source, ids) == batch[b].source # 0 /\ batch[b].ids = ids

\* enqueue_embedding_generate_batch names a batch by its source and its ids.
SameBatch(b, source, ids) == batch[b] = [source |-> source, ids |-> ids]

\* A batch that has its row already is left as it is; Batches has room for all.
EnqueueBatch(source, ids) ==
  LET free == {b \in Batches : batch[b].source = 0}
  IN IF \E b \in Batches : SameBatch(b, source, ids) THEN UNCHANGED <<batch, job>>
     ELSE /\ free # {}
          /\ batch' = [batch EXCEPT ![Min(free)] = [source |-> source, ids |-> ids]]
          /\ job' = [job EXCEPT ![Min(free)] = "waiting"]

Work(j, ids, docs) == work' = [work EXCEPT ![j] = [ids |-> ids, docs |-> docs]]

\* A document that waits to be indexed is in the queue of the search service
\* already when the wait is given up for a cancel request.
Submits(j, from, to, given_up) ==
  /\ HandlerStep(j, from, IF cancel[j] THEN given_up ELSE to)
  /\ Submit(work[j].docs)
  /\ UNCHANGED <<runs, job, text, vector, pipeline, batch, work>>

-----------------------------------------------------------------------------
(* handle_meili_bootstrap_run. *)

\* A thread that appears while the series are written is left to a retry.
ListChunk(r) ==
  \E i \in {1, 2} :
    LET ids == Candidates(i, runs[r].cursor[i])
    IN /\ HandlerStep(r, IF i = 1 THEN "threads" ELSE "series",
                      IF ids # {} THEN "submit" ELSE IF i = 1 THEN "series" ELSE "mark")
       /\ ~cancel[r]
       /\ Work(r, ids, Built(ids))
       /\ UNCHANGED <<runs, job, rowVars>>

\* The wait's answer to a cancel request is an error like any other here.
SubmitChunk(r) == Submits(r, "submit", "save", "retryable")

ScopeOf(ids) == IF Max(ids) =< ThreadDocs THEN 1 ELSE 2

\* The cursor moves once the chunk is in the index.
SaveCursor(r) ==
  LET i == ScopeOf(work[r].ids)
  IN /\ HandlerStep(r, "save", IF i = 1 THEN "threads" ELSE "series")
     /\ runs' = [runs EXCEPT ![r].cursor[i] = Max(work[r].ids)]
     /\ Work(r, {}, NoWork.docs)
     /\ UNCHANGED <<job, rowVars>>

BootstrapStep(r) ==
  /\ kind = "meili"
  /\ \/ (LoadRun(r, "threads") /\ UNCHANGED docVars)
     \/ ListChunk(r) \/ SubmitChunk(r) \/ SaveCursor(r)
     \/ (Succeed(r, "mark") /\ UNCHANGED docVars)
     \/ \E from \in {"threads", "series"} : StopForCancel(r, from) /\ UNCHANGED docVars

-----------------------------------------------------------------------------
(* handle_embedding_backfill_run, of scope thread. *)

ListBatch(r) ==
  LET ids == Candidates(1, runs[r].cursor[1])
  IN /\ ~cancel[r]
     /\ HandlerStep(r, "list", IF ids # {} THEN "enqueue" ELSE "mark")
     /\ Work(r, ids, NoWork.docs)
     /\ UNCHANGED <<runs, job, rowVars>>

BackfillEnqueues(r) ==
  /\ HandlerStep(r, "enqueue", "progress")
  /\ EnqueueBatch(r, work[r].ids)
  /\ UNCHANGED <<runs, text, vector, index, pipeline, work>>

BackfillProgress(r) ==
  /\ HandlerStep(r, "progress", "list")
  /\ runs' = [runs EXCEPT ![r].cursor[1] = Max(work[r].ids)]
  /\ Work(r, {}, NoWork.docs)
  /\ UNCHANGED <<job, rowVars>>

\* The listing or the enqueue fails: the run is marked failed, and the job is
\* to be retried all the same.
BackfillFails(r) ==
  /\ kind = "backfill" /\ r \in Runs
  /\ at[r] \in {"list", "enqueue"} /\ Fault
  /\ at' = [at EXCEPT ![r] = "retryable"]
  /\ Mark(r, "failed")
  /\ UNCHANGED <<setup, job, attempt, cancel, requestVars>>

BackfillStep(r) ==
  /\ kind = "backfill"
  /\ \/ (LoadRun(r, "list") /\ UNCHANGED docVars)
     \/ ListBatch(r) \/ BackfillEnqueues(r) \/ BackfillProgress(r)
     \/ (Succeed(r, "mark") /\ UNCHANGED docVars)
     \/ (StopForCancel(r, "list") /\ UNCHANGED docVars)

-----------------------------------------------------------------------------
(* The pipeline run: threading changes rows, pipeline_lexical rewrites their *)
(* documents without vectors, pipeline_embedding has vectors made.  What     *)
(* becomes of the run when a stage gives up is in PipelineRuns.              *)

\* A pipeline is started by whoever may, a bootstrap or not.
PipelineStarts ==
  /\ pipeline = "none" /\ pipeline' = "running"
  /\ job' = [job EXCEPT ![Threading] = "waiting"]
  /\ UNCHANGED <<setup, runs, attempt, cancel, at, requestVars, counters, text, vector, index,
                 batch, work>>

\* The job of the next stage, unless its dedupe key is there.
EnqueueStage(j) == job' = [job EXCEPT ![j] = IF @ = "none" THEN "waiting" ELSE @]

SkipStage(j) ==
  /\ pipeline = "succeeded"
  /\ HandlerStep(j, "load", "success")
  /\ UNCHANGED <<runs, job, docVars>>

\* Done again it leaves the rows as they are.
ChangeRows ==
  /\ pipeline = "running"
  /\ HandlerStep(Threading, "load", "success")
  /\ text' = [d \in Docs |-> IF d \in Changed THEN (IF d \in Known THEN 2 ELSE 1) ELSE text[d]]
  /\ EnqueueStage(Lexical)
  /\ UNCHANGED <<runs, vector, index, pipeline, batch, work>>

BuildChanged ==
  /\ pipeline = "running" /\ ~cancel[Lexical]
  /\ HandlerStep(Lexical, "load", "submit")
  /\ Work(Lexical, Changed, BuiltBare(Changed))
  /\ UNCHANGED <<runs, job, rowVars>>

SubmitChanged == Submits(Lexical, "submit", "mark", "cancelled")

MarkPipeline ==
  /\ HandlerStep(Lexical, "mark", "hand_over")
  /\ pipeline' = "succeeded"
  /\ UNCHANGED <<runs, job, text, vector, index, batch, work>>

HandOver ==
  /\ HandlerStep(Lexical, "hand_over", "success")
  /\ EnqueueStage(Embedding)
  /\ UNCHANGED <<runs, docVars>>

\* One batch per chunk of a scope; here a scope is one chunk.
EmbedChanged(i) ==
  LET ids == Changed \cap Scope(i)
  IN /\ ~cancel[Embedding]
     /\ HandlerStep(Embedding, IF i = 1 THEN "load" ELSE "embed_series",
                    IF i = 1 THEN "embed_series" ELSE "success")
     /\ IF ids = {} THEN UNCHANGED <<batch, job>> ELSE EnqueueBatch(Embedding, ids)
     /\ UNCHANGED <<runs, text, vector, index, pipeline, work>>

PipelineStep ==
  \/ PipelineStarts \/ ChangeRows \/ BuildChanged \/ SubmitChanged \/ MarkPipeline \/ HandOver
  \/ \E j \in {Threading, Lexical} : SkipStage(j)
  \/ \E i \in {1, 2} : EmbedChanged(i)
  \/ pipeline = "running" /\ StopForCancel(Lexical, "load") /\ UNCHANGED docVars
  \/ \E from \in {"load", "embed_series"} : StopForCancel(Embedding, from) /\ UNCHANGED docVars

-----------------------------------------------------------------------------
(* handle_embedding_generate_batch. *)

\* The texts are read, and embedded by the service.
ReadInputs(b) ==
  /\ ~cancel[b]
  /\ HandlerStep(b, "load", "vectors")
  /\ Work(b, batch[b].ids, Inputs(batch[b].ids))
  /\ UNCHANGED <<runs, job, rowVars>>

\* upsert_vectors: over whatever is stored, source_hash is not compared.
UpsertVectors(b) ==
  LET inputs == work[b].docs
  IN /\ HandlerStep(b, "vectors", "build")
     /\ vector' = [d \in Docs |-> IF d \in DOMAIN inputs THEN inputs[d] ELSE vector[d]]
     /\ UNCHANGED <<runs, job, text, index, pipeline, batch, work>>

BuildEmbedded(b) ==
  /\ HandlerStep(b, "build", "submit")
  /\ Work(b, batch[b].ids, Built(batch[b].ids))
  /\ UNCHANGED <<runs, job, rowVars>>

SubmitEmbedded(b) == Submits(b, "submit", "success", "cancelled")

\* An answer of the service that cannot be right is not asked for again.
EmbeddingRefused(b) ==
  /\ b \in Batches
  /\ at[b] = "load" /\ Fault
  /\ at' = [at EXCEPT ![b] = "terminal"]
  /\ UNCHANGED <<setup, runs, job, attempt, cancel, requestVars>>

BatchStep(b) ==
  \/ ReadInputs(b) \/ UpsertVectors(b) \/ BuildEmbedded(b) \/ SubmitEmbedded(b)
  \/ (StopForCancel(b, "load") /\ UNCHANGED docVars)

-----------------------------------------------------------------------------

DocsForget(j) ==
  /\ work' = [work EXCEPT ![j] = NoWork]
  /\ UNCHANGED rowVars

DocsBreak(j) == (Breaks(j) \/ BackfillFails(j) \/ EmbeddingRefused(j)) /\ UNCHANGED docVars

=============================================================================
