------------------------ MODULE BackgroundResultsProofs ------------------------
(* What the runs of Background leave behind: matches that stay, documents that *)
(* are covered, rollups and an index that are current, scans that miss nothing. *)
EXTENDS BackgroundProofs

-----------------------------------------------------------------------------
(* One slot. *)

\* With one slot one job runs.
OneTask == slots = 1 => \A j, k \in Jobs : job[j] = "running" /\ job[k] = "running" => j = k

LEMMA SetupKept ==
  ASSUME TypeInv, [Next]_vars
  PROVE  UNCHANGED <<kind, slots>>
BY ControlMoves
   DEF Check, Create, EnqueueRun, Bind, EnqueueFails, PosterLost,
       CancelLost, CancelJob, CancelMark, CancelRead, CancelDirect, Claim, Finalize, Sweep,
       Handles, Advance, PipelineStarts, controlVars, setup

\* A job begins to run with a claim.
LEMMA RunsWithClaim ==
  ASSUME TypeInv, [Next]_vars, NEW j \in Jobs, job'[j] = "running", job[j] # "running"
  PROVE  Claim(j)
<1>1. job \in [Jobs -> JobState] /\ \A r \in Jobs : AfterFailure(r) \in {"waiting", "failed_terminal"}
  BY DEF TypeInv, ControlTypeOK, JobState, AfterFailure
<1>2. ASSUME NEW k, NEW s \in JobState \ {"running"}, job' = [job EXCEPT ![k] = s] PROVE FALSE
  BY <1>1, <1>2
<1>3. ASSUME NEW k, RequestCancel(k) PROVE FALSE
  BY <1>1, <1>3 DEF RequestCancel
<1>4. ASSUME NEW k \in Jobs, Finalize(k) PROVE FALSE
  BY <1>1, <1>4 DEF Finalize, Returned
<1>5. ASSUME NEW k \in Jobs, Sweep(k) PROVE FALSE
  BY <1>1, <1>2, <1>5 DEF Sweep, JobState
<1>6. ASSUME NEW k \in Jobs, Handles(k) PROVE FALSE
  BY <1>1, <1>2, <1>6 DEF Handles, Adds, JobState
<1>7. ASSUME PipelineStarts PROVE FALSE
  BY <1>1, <1>2, <1>7 DEF PipelineStarts, JobState
<1>8. ASSUME NEW p \in Posters, EnqueueRun(p) PROVE FALSE
  BY <1>1, <1>2, <1>8 DEF EnqueueRun, JobState
<1>9. ASSUME NEW k \in Jobs, Claim(k), k # j PROVE FALSE
  BY <1>1, <1>9 DEF Claim
<1>10. ASSUME UNCHANGED job PROVE FALSE
  BY <1>10
<1> QED
  BY ControlMoves, <1>3, <1>4, <1>5, <1>6, <1>7, <1>8, <1>9, <1>10
     DEF Check, Create, Bind, EnqueueFails, PosterLost,
         CancelLost, CancelJob, CancelMark, CancelRead, CancelDirect,
         controlVars, jobVars

LEMMA OneTaskStep ==
  ASSUME TypeInv, OneTask, [Next]_vars
  PROVE  OneTask'
<1> SUFFICES ASSUME slots = 1, NEW j \in Jobs, NEW k \in Jobs, job'[j] = "running", job'[k] = "running", j # k
             PROVE  FALSE
  BY SetupKept DEF OneTask
<1> DEFINE running == {i \in Jobs : job[i] = "running"}
<1>1. running \in SUBSET Jobs /\ IsFiniteSet(Jobs)
  <2>1. JobBound \in Int /\ 1 \in Int
    BY BoundAssumption
  <2> QED
    BY <2>1, FS_Interval DEF Jobs
<1>2. IsFiniteSet(running) /\ Cardinality(running) \in Nat /\ (Cardinality(running) = 0 <=> running = {})
  BY <1>1, FS_Subset, FS_CardinalityType, FS_EmptySet
<1>3. ASSUME NEW i \in Jobs, Claim(i) PROVE running = {}
  BY <1>2, <1>3 DEF Claim
<1>4. job[j] = "running" \/ job[k] = "running"
  <2>1. \A i \in Jobs : Claim(i) => job' = [job EXCEPT ![i] = "running"]
    BY DEF Claim
  <2>2. job \in [Jobs -> JobState]
    BY DEF TypeInv, ControlTypeOK, JobState
  <2> QED
    BY <2>1, <2>2, RunsWithClaim
<1>5. running # {}
  BY <1>4
<1>6. job[j] = "running" /\ job[k] = "running"
  <2> HIDE DEF running
  <2> QED
    BY <1>3, <1>5, RunsWithClaim
<1> QED
  BY <1>6 DEF OneTask

-----------------------------------------------------------------------------
(* The matches of a scan. *)

\* What a scan found is not matched until it writes it down.
FoundNew == (slots = 1 /\ kind = "mainline") =>
  \A r \in Runs : at[r] \in {"commits", "matches", "insert"} =>
                    \A pc \in scan[r].found : matches[pc[1]] = NoCommit

LEMMA MatchesMove ==
  ASSUME TypeInv, [Next]_vars, matches' # matches \/ former' # former
  PROVE  kind = "mainline" /\ \E r \in Runs : UnsetCanonical(r) \/ InsertMatches(r)
BY TableMoves
   DEF scanVars, tableVars, ScanForgets, Fetch, EnsureState, Unready, Prepare, Resolve, UpsertCommits,
       InsertRefused, SaveChunk, SumUp, WriteRollup, Publish, MarkState, ScanCancelled, ScanBreaks

LEMMA FoundNewStep ==
  ASSUME TypeInv, OneTask, FoundNew, [Next]_vars
  PROVE  FoundNew'
<1> SUFFICES ASSUME slots = 1, kind = "mainline", NEW r \in Runs, at'[r] \in {"commits", "matches", "insert"},
                    NEW pc \in scan'[r].found
             PROVE  matches'[pc[1]] = NoCommit
  BY SetupKept DEF FoundNew
<1>1. /\ at = [j \in Jobs |-> at[j]] /\ scan \in [Runs -> ScanRow] /\ r \in Jobs
      /\ at[r] \in {"commits", "matches", "insert"} => \A q \in scan[r].found : matches[q[1]] = NoCommit
  BY JobSets DEF TypeInv, AtTypes, ScanTypeOK, FoundNew
<1>2. ASSUME at[r] # "none", matches' # matches PROVE at'[r] # at[r]
  <2>1. PICK q \in Runs : UnsetCanonical(q) \/ InsertMatches(q)
    BY <1>2, MatchesMove
  <2>2. at[q] # "none" /\ at'[q] # at[q]
    BY <1>1, <2>1, JobSets DEF UnsetCanonical, InsertMatches, HandlerStep
  <2>3. job[q] = "running" /\ job[r] = "running"
    BY <1>2, <2>2, JobSets DEF TypeInv, JobsInStep
  <2> QED
    BY <2>2, <2>3, JobSets DEF OneTask
<1>3. CASE scan'[r] = scan[r] /\ at'[r] = at[r]
  BY <1>1, <1>2, <1>3
<1>4. CASE Resolve(r)
  <2> DEFINE found == NewMatches(Chunk(r))
  <2>1. \A q \in found : matches[q[1]] = NoCommit
    BY DEF NewMatches
  <2>2. scan' = [scan EXCEPT ![r].found = found] /\ matches' = matches
    BY <1>4 DEF Resolve, tableVars
  <2> HIDE DEF found
  <2>3. scan'[r].found = found
    BY <1>1, <2>2 DEF ScanRow
  <2> QED
    BY <2>1, <2>2, <2>3
<1>5. CASE UpsertCommits(r)
  BY <1>1, <1>5 DEF UpsertCommits, HandlerStep
<1>6. CASE UnsetCanonical(r)
  <2>1. scan' = scan /\ pc[1] \in Items /\ pc[1] \in {q[1] : q \in scan[r].found}
    BY <1>1, <1>6 DEF UnsetCanonical, ScanRow
  <2> QED
    BY <1>6, <2>1 DEF UnsetCanonical
<1>7. CASE EnsureState(r) \/ Unready(r) \/ Prepare(r) \/ InsertMatches(r) \/ SaveChunk(r) \/ SumUp(r)
           \/ WriteRollup(r) \/ Publish(r) \/ MarkState(r)
  <2>1. at'[r] \notin {"commits", "matches", "insert"}
    BY <1>1, <1>7 DEF EnsureState, Unready, Prepare, InsertMatches, SaveChunk, SumUp, WriteRollup,
                      Publish, MarkState, HandlerStep, AfterChunks
  <2> QED
    BY <2>1
<1> QED
  BY <1>3, <1>4, <1>5, <1>6, <1>7, ScanAtMoves DEF Returned

\* Nothing runs when it starts.
LEMMA OneSlotFromStart ==
  ASSUME Init
  PROVE  OneTask /\ FoundNew
BY JobSets DEF Init, ControlInit, OneTask, FoundNew

LEMMA OneSlot == Spec => [](TypeInv /\ OneTask /\ FoundNew)
<1>1. Init => TypeInv /\ OneTask /\ FoundNew
  BY TypesFromStart, OneSlotFromStart
<1>2. TypeInv /\ OneTask /\ FoundNew /\ [Next]_vars => OneTask' /\ FoundNew'
  BY OneTaskStep, FoundNewStep
<1> QED
  BY <1>1, <1>2, TypeInvHolds, PTL DEF Spec

\* A patch keeps the canonical commit a scan gave it first, whatever retries, rescans, resumed
\* walks and merged branches follow, as long as one job runs at a time.
THEOREM MatchesStay == Spec => CanonicalStays
<1>1. ASSUME TypeInv, FoundNew, [Next]_vars, slots = 1, NEW p \in Items, matches[p] # NoCommit
      PROVE  matches'[p] = matches[p]
  <2>1. CASE matches' # matches
    <3>1. PICK r \in Runs : (UnsetCanonical(r) \/ InsertMatches(r)) /\ kind = "mainline"
      BY <1>1, <2>1, MatchesMove
    <3>2. at[r] \in {"matches", "insert"}
      BY <3>1 DEF UnsetCanonical, InsertMatches, HandlerStep
    <3>3. ~\E pc \in scan[r].found : pc[1] = p
      BY <1>1, <3>1, <3>2 DEF FoundNew
    <3> QED
      BY <3>1, <3>3 DEF UnsetCanonical, InsertMatches
  <2> QED
    BY <2>1
<1>2. TypeInv /\ FoundNew /\ [Next]_vars =>
        [slots = 1 => \A p \in Items : matches[p] # NoCommit => matches'[p] = matches[p]]_vars
  BY <1>1
<1> QED
  BY <1>2, OneSlot, PTL DEF Spec, CanonicalStays

-----------------------------------------------------------------------------
(* What a bootstrap of the index and a backfill cover. *)

\* The documents a run is about, and what it is to be done with one.
Scopes == IF kind = "meili" THEN {1, 2} ELSE {1}
Done(r, d) == IF kind = "meili" THEN index[d].text # 0
              ELSE \E b \in Batches : batch[b].source = r /\ d \in batch[b].ids

Covered(r, i) == \A d \in Known \cap Scope(i) : Done(r, d)

\* The ids are those of a scope that follow the cursor.
NextIds(r) == \A d \in Known \cap Scope(ScopeOf(work[r].ids)) :
                d > runs[r].cursor[ScopeOf(work[r].ids)] /\ d =< Max(work[r].ids) => d \in work[r].ids

\* Rows do not go away, and a document is made of rows.
RowsThere == /\ \A d \in Known : text[d] # 0
             /\ \A j \in Jobs : at[j] = "submit" => \A d \in DOMAIN work[j].docs : work[j].docs[d].text # 0

Covering(r) ==
  /\ \A i \in Scopes : \A d \in Known \cap Scope(i) : d =< runs[r].cursor[i] => Done(r, d)
  /\ at[r] \in {"submit", "save", "enqueue", "progress"} => ScopeOf(work[r].ids) \in Scopes /\ NextIds(r)
  /\ at[r] = "submit" => DOMAIN work[r].docs = work[r].ids
  /\ at[r] \in {"save", "progress"} => \A d \in work[r].ids : Done(r, d)
  /\ at[r] = "series" \/ (at[r] \in {"submit", "save"} /\ ScopeOf(work[r].ids) = 2) => Covered(r, 1)
  /\ at[r] = "mark" \/ runs[r].state = "succeeded" => \A i \in Scopes : Covered(r, i)

CoverInv == kind # "mainline" => RowsThere /\ \A r \in Runs : Covering(r)

LEMMA CandidatesFollow ==
  ASSUME TypeInv, NEW i \in {1, 2}, NEW n \in Nat
  PROVE  LET ids == Candidates(i, n)
             behind == {d \in Scope(i) : text[d] # 0 /\ d > n}
         IN /\ ids \subseteq behind /\ behind \subseteq Docs
            /\ ids = {} => behind = {}
            /\ \A d \in behind, e \in ids : d =< e => d \in ids
<1> DEFINE ids == Candidates(i, n)
           behind == {d \in Scope(i) : text[d] # 0 /\ d > n}
           before(d) == {e \in behind : e < d}
<1>1. ids = {d \in behind : Cardinality(before(d)) < DocChunk} /\ behind \subseteq Docs
  BY DocAssumption DEF Candidates, Scope, Docs
<1>2. Docs \subseteq Nat /\ IsFiniteSet(Docs) /\ DocChunk \in Nat \ {0}
  <2>1. ThreadDocs + SeriesDocs \in Int /\ 1 \in Int
    BY DocAssumption
  <2> QED
    BY <2>1, DocAssumption, FS_Interval DEF Docs
<1>3. IsFiniteSet(behind)
  BY <1>1, <1>2, FS_Subset
<1>4. ids = {} => behind = {}
  <2> SUFFICES ASSUME behind # {} PROVE ids # {}
    OBVIOUS
  <2>1. PICK m \in behind : \A d \in behind : m =< d
    <3>1. behind \in SUBSET Nat
      BY <1>1, <1>2
    <3> HIDE DEF behind
    <3> QED
      BY <3>1, LeastOf
  <2>4. m \in Nat /\ \A d \in behind : d \in Nat
    BY <1>1, <1>2
  <2>2. before(m) = {}
    <3>1. ASSUME NEW e \in behind PROVE ~(e < m)
      BY <2>1, <2>4
    <3> QED
      BY <3>1
  <2>3. Cardinality(before(m)) < DocChunk
    BY <1>2, <2>2, FS_EmptySet
  <2> QED
    BY <1>1, <2>1, <2>3
<1>5. ASSUME NEW d \in behind, NEW e \in ids, d =< e PROVE d \in ids
  <2>1. d \in Nat /\ e \in Nat /\ \A c \in behind : c \in Nat
    BY <1>1, <1>2
  <2>2. before(e) \subseteq behind
    OBVIOUS
  <2>6. before(d) \subseteq before(e)
    <3>1. ASSUME NEW c \in behind, c < d PROVE c < e
      BY <1>5, <2>1, <3>1
    <3> HIDE DEF behind
    <3> QED
      BY <3>1
  <2>3. IsFiniteSet(before(e))
    BY <1>3, <2>2, FS_Subset
  <2>4. Cardinality(before(d)) =< Cardinality(before(e)) /\ Cardinality(before(e)) \in Nat
        /\ Cardinality(before(d)) \in Nat
    BY <2>6, <2>3, FS_Subset, FS_CardinalityType
  <2>5. Cardinality(before(e)) < DocChunk
    BY <1>1
  <2> HIDE DEF behind, ids, before
  <2> QED
    BY <1>1, <1>2, <2>4, <2>5
<1> QED
  BY <1>1, <1>4, <1>5

\* A run succeeds from its handler's last step.
LEMMA SucceedsFromMark ==
  ASSUME TypeInv, [Next]_vars, kind # "mainline", NEW r \in Runs,
         runs'[r].state = "succeeded", runs[r].state # "succeeded"
  PROVE  Succeed(r, "mark")
<1>1. runs \in [Runs -> RunRow]
  BY DEF TypeInv, ControlTypeOK, RunRow
<1>2. ASSUME NEW q, NEW s, Mark(q, s), s # "succeeded" \/ q # r PROVE FALSE
  BY <1>1, <1>2 DEF Mark, RunRow
<1>3. ASSUME UNCHANGED runs PROVE FALSE
  BY <1>3
<1>4. ASSUME NEW p \in Posters, Create(p) PROVE FALSE
  <2> DEFINE s == IF kind = "backfill" THEN "running" ELSE "queued"
             m == poster[p].mode
  <2>1. PICK q \in Runs : runs' = [runs EXCEPT ![q].state = s, ![q].mode = m]
    BY <1>4, NewRunIsNew
  <2>2. s # "succeeded"
    OBVIOUS
  <2> HIDE DEF s, m
  <2> QED
    BY <1>1, <2>1, <2>2 DEF RunRow
<1>5. ASSUME NEW p \in Posters, Bind(p) PROVE FALSE
  BY <1>1, <1>5 DEF Bind, RunRow
<1>6. ASSUME NEW q \in Runs, NEW i, NEW n, runs' = [runs EXCEPT ![q].cursor[i] = n] PROVE FALSE
  BY <1>1, <1>6 DEF RunRow
<1> DEFINE P == Succeed(r, "mark")
<1> SUFFICES P
  OBVIOUS
<1> HIDE DEF P
<1>7. ASSUME NEW p \in Posters, Start(p) \/ Request(p) PROVE P
  <2>1. \A m : Check(p, m) => UNCHANGED runs
    BY DEF Check
  <2>2. EnqueueRun(p) => UNCHANGED runs
    BY DEF EnqueueRun
  <2> QED
    BY <1>3, <1>4, <1>5, <1>7, <2>1, <2>2 DEF Start, Request
<1>8. CASE RequestBreaks
  BY <1>2, <1>3, <1>8 DEF RequestBreaks, EnqueueFails, PosterLost, CancelLost
<1>9. CASE Cancelling
  BY <1>2, <1>3, <1>9 DEF Cancelling, CancelRead, CancelJob, CancelMark, CancelDirect
<1>10. CASE Claims
  BY <1>3, <1>10 DEF Claims, Claim
<1>11. ASSUME NEW j \in Jobs, Ends(j) PROVE P
  BY <1>3, <1>11 DEF Ends, Finalize, Sweep
<1>12. ASSUME NEW j \in Jobs, Broken(j) PROVE P
  BY <1>2, <1>3, <1>12
     DEF Broken, Refuse, DocsBreak, Breaks, BackfillFails, EmbeddingRefused
<1>13. CASE Pipeline
  BY <1>2, <1>3, <1>13, JobSets
     DEF Pipeline, PipelineStep, PipelineStarts, ChangeRows, BuildChanged, SubmitChanged, Submits,
         MarkPipeline, HandOver, SkipStage, EmbedChanged, StopForCancel
<1>14. ASSUME NEW j \in Jobs, Handle(j) PROVE P
  <2>1. CASE SkipRun(j)
    BY <1>3, <2>1 DEF SkipRun
  <2>2. CASE j \in Runs /\ BootstrapStep(j)
    <3>1. CASE SaveCursor(j)
      <4>1. runs' = [runs EXCEPT ![j].cursor[ScopeOf(work[j].ids)] = Max(work[j].ids)]
        BY <3>1 DEF SaveCursor
      <4> QED
        BY <1>6, <2>2, <4>1
    <3>2. CASE Succeed(j, "mark")
      BY <1>2, <3>2 DEF Succeed, P
    <3> QED
      BY <1>2, <1>3, <2>2, <3>1, <3>2
         DEF BootstrapStep, ListChunk, SubmitChunk, Submits, LoadRun, StopForCancel
  <2>3. CASE j \in Runs /\ BackfillStep(j)
    <3>1. CASE BackfillProgress(j)
      <4>1. runs' = [runs EXCEPT ![j].cursor[1] = Max(work[j].ids)]
        BY <3>1 DEF BackfillProgress
      <4> QED
        BY <1>6, <2>3, <4>1
    <3>2. CASE Succeed(j, "mark")
      BY <1>2, <3>2 DEF Succeed, P
    <3> QED
      BY <1>2, <1>3, <2>3, <3>1, <3>2
         DEF BackfillStep, ListBatch, BackfillEnqueues, LoadRun, StopForCancel
  <2>4. CASE j \in Batches /\ BatchStep(j)
    BY <1>2, <1>3, <2>4, JobSets
       DEF BatchStep, ReadInputs, UpsertVectors, BuildEmbedded, SubmitEmbedded, Submits, StopForCancel
  <2> QED
    BY <1>14, <2>1, <2>2, <2>3, <2>4 DEF Handle
<1> QED
  BY <1>3, <1>7, <1>8, <1>9, <1>10, <1>11, <1>12, <1>13, <1>14 DEF Next, vars, controlVars

\* What is done for a document stays done.
LEMMA RowsThereStep ==
  ASSUME TypeInv, RowsThere, [Next]_vars
  PROVE  RowsThere'
<1>1. /\ \A d \in Known : text[d] # 0
      /\ \A j \in Jobs : at[j] = "submit" => \A d \in DOMAIN work[j].docs : work[j].docs[d].text # 0
      /\ text \in [Docs -> Nat] /\ Known \subseteq Docs
      /\ at = [j \in Jobs |-> at[j]] /\ work = [j \in Jobs |-> work[j]]
  BY DocAssumption DEF RowsThere, TypeInv, DocsTypeOK, AtTypes, DocsInStep, Docs
<1>2. \A d \in Known : text'[d] # 0
  <2>1. text' = text \/ ChangeRows
    BY DocMoves
       DEF docVars, rowVars, DocsForget, ListChunk, SubmitChunk, Submits, SaveCursor, ListBatch, BackfillEnqueues,
           BackfillProgress, ReadInputs, UpsertVectors, BuildEmbedded, SubmitEmbedded, PipelineStarts,
           BuildChanged, SubmitChanged, MarkPipeline, HandOver, EmbedChanged
  <2> QED
    BY <1>1, <2>1 DEF ChangeRows
<1>3. ASSUME NEW j \in Jobs, at'[j] = "submit" PROVE \A d \in DOMAIN work'[j].docs : work'[j].docs[d].text # 0
  <2> DEFINE P == \A d \in DOMAIN work'[j].docs : work'[j].docs[d].text # 0
  <2> SUFFICES P
    OBVIOUS
  <2>1. \A ids : /\ \A d \in DOMAIN Built(ids) : Built(ids)[d].text # 0
                 /\ \A d \in DOMAIN BuiltBare(ids) : BuiltBare(ids)[d].text # 0
    BY DEF Built, BuiltBare, Documents
  <2>2. CASE work'[j] = work[j] /\ at'[j] \in {at[j], "none", "load"} \cup Returned
    BY <1>1, <1>3, <2>2 DEF Returned
  <2>3. CASE work'[j] = work[j] /\ kind = "mainline" /\ j \in Runs
    BY <1>3, <2>3, AtStep, SetupKept DEF AtTypes, StepsOf, RunSteps, Returned
  <2>4. CASE j \in Runs /\ ListChunk(j)
    <3>1. PICK i \in {1, 2} : Work(j, Candidates(i, runs[j].cursor[i]), Built(Candidates(i, runs[j].cursor[i])))
      BY <2>4 DEF ListChunk
    <3>2. work'[j].docs = Built(Candidates(i, runs[j].cursor[i]))
      BY <1>1, <3>1 DEF Work
    <3> QED
      BY <2>1, <3>2
  <2>5. CASE j \in Runs /\ (LoadRun(j, "threads") \/ SubmitChunk(j) \/ SaveCursor(j) \/ LoadRun(j, "list")
                              \/ ListBatch(j) \/ BackfillEnqueues(j) \/ BackfillProgress(j))
    <3>1. at'[j] # "submit"
      BY <1>1, <2>5 DEF LoadRun, SubmitChunk, Submits, SaveCursor, ListBatch, BackfillEnqueues, BackfillProgress, HandlerStep
    <3> QED
      BY <1>3, <3>1
  <2>6. CASE j = Lexical /\ BuildChanged
    <3>1. work'[j].docs = BuiltBare(Changed)
      BY <1>1, <2>6 DEF BuildChanged, Work
    <3> QED
      BY <2>1, <3>1
  <2>7. CASE j \in Batches /\ BuildEmbedded(j)
    <3>1. work'[j].docs = Built(batch[j].ids)
      BY <1>1, <2>7 DEF BuildEmbedded, Work
    <3> QED
      BY <2>1, <3>1
  <2>8. CASE \/ j = Lexical /\ (SubmitChanged \/ MarkPipeline)
             \/ j = Embedding /\ \E i \in {1, 2} : EmbedChanged(i)
             \/ j \in Batches /\ (ReadInputs(j) \/ UpsertVectors(j) \/ SubmitEmbedded(j))
    <3>1. at'[j] # "submit"
      BY <1>1, <2>8 DEF SubmitChanged, SubmitEmbedded, Submits, MarkPipeline, EmbedChanged, ReadInputs, UpsertVectors, HandlerStep
    <3> QED
      BY <1>3, <3>1
  <2> HIDE DEF P
  <2> QED
    BY <1>3, <2>2, <2>3, <2>4, <2>5, <2>6, <2>7, <2>8, WorkMoves
<1> QED
  BY <1>2, <1>3 DEF RowsThere

LEMMA DoneStays ==
  ASSUME TypeInv, RowsThere, [Next]_vars, NEW r \in Runs, NEW d \in Docs, Done(r, d)
  PROVE  Done(r, d)'
<1>1. /\ index \in [Docs -> DocRow] /\ 0 \notin Jobs /\ r \in Jobs
      /\ batch \in [Batches -> [source : {0} \cup Jobs, ids : SUBSET Docs]]
      /\ \A j \in Jobs : at[j] = "submit" => \A e \in DOMAIN work[j].docs : work[j].docs[e].text # 0
  BY JobSets DEF TypeInv, DocsTypeOK, RowsThere
<1>2. CASE kind = "meili"
  <2>1. index[d].text # 0
    BY <1>2 DEF Done
  <2>2. index' = index \/ \E j \in Jobs : at[j] = "submit" /\ Submit(work[j].docs)
    BY DocMoves, JobSets
       DEF docVars, rowVars, DocsForget, ListChunk, SubmitChunk, Submits, SaveCursor, ListBatch, BackfillEnqueues,
           BackfillProgress, ReadInputs, UpsertVectors, BuildEmbedded, SubmitEmbedded, PipelineStarts, ChangeRows,
           BuildChanged, SubmitChanged, MarkPipeline, HandOver, EmbedChanged, HandlerStep
  <2>3. index'[d].text # 0
    BY <1>1, <2>1, <2>2 DEF Submit
  <2> QED
    BY <1>2, <2>3, SetupKept DEF Done
<1>3. CASE kind # "meili"
  <2>1. PICK b \in Batches : batch[b].source = r /\ d \in batch[b].ids
    BY <1>3 DEF Done
  <2>2. batch' = batch \/ \E s, ids : EnqueueBatch(s, ids)
    BY DocMoves
       DEF docVars, rowVars, DocsForget, ListChunk, SubmitChunk, Submits, SaveCursor, ListBatch, BackfillEnqueues,
           BackfillProgress, ReadInputs, UpsertVectors, BuildEmbedded, SubmitEmbedded, PipelineStarts, ChangeRows,
           BuildChanged, SubmitChanged, MarkPipeline, HandOver, EmbedChanged
  <2>3. batch' = batch \/ \E c \in Batches : \E row : batch[c].source = 0 /\ batch' = [batch EXCEPT ![c] = row]
    <3>1. ASSUME NEW s, NEW ids, EnqueueBatch(s, ids)
          PROVE  batch' = batch \/ \E c \in Batches : batch[c].source = 0
                                                  /\ batch' = [batch EXCEPT ![c] = [source |-> s, ids |-> ids]]
      <4>1. \/ UNCHANGED <<batch, job>> /\ \E c \in Batches : batch[c] = [source |-> s, ids |-> ids]
            \/ \E c \in Batches : /\ batch[c].source = 0 /\ job[c] = "none"
                                  /\ batch' = [batch EXCEPT ![c] = [source |-> s, ids |-> ids]]
                                  /\ job' = [job EXCEPT ![c] = "waiting"]
        BY <3>1, EnqueueBatchIs
      <4> QED
        BY <4>1
    <3> QED
      BY <2>2, <3>1
  <2>4. batch'[b] = batch[b]
    BY <1>1, <2>1, <2>3
  <2> QED
    BY <1>3, <2>1, <2>4, SetupKept DEF Done
<1> QED
  BY <1>2, <1>3

\* The next documents of a scope are those that follow its cursor.
LEMMA ListFollows ==
  ASSUME TypeInv, RowsThere, NEW r \in Runs, NEW i \in {1, 2},
         \A d \in Known \cap Scope(i) : d =< runs[r].cursor[i] => Done(r, d)
  PROVE  LET ids == Candidates(i, runs[r].cursor[i])
         IN /\ ids \in SUBSET Docs /\ \A d \in ids : text[d] # 0
            /\ ids = {} => Covered(r, i)
            /\ ids # {} => /\ ScopeOf(ids) = i
                           /\ \A d \in Known \cap Scope(i) : d > runs[r].cursor[i] /\ d =< Max(ids) => d \in ids
<1> DEFINE n == runs[r].cursor[i]
           ids == Candidates(i, n)
           behind == {d \in Scope(i) : text[d] # 0 /\ d > n}
<1>1. n \in Nat
  <2>1. runs[r].cursor \in Nat \X Nat
    BY DEF TypeInv, ControlTypeOK
  <2> QED
    BY <2>1
<1>2. /\ ids \subseteq behind /\ behind \subseteq Docs
      /\ ids = {} => behind = {}
      /\ \A d \in behind, e \in ids : d =< e => d \in ids
  BY <1>1, CandidatesFollow
<1>3. \A d \in Known \cap Scope(i) : d \in Nat /\ text[d] # 0
  BY DocAssumption DEF RowsThere
<1>4. ids = {} => Covered(r, i)
  BY <1>1, <1>2, <1>3 DEF Covered
<1>5. ids \in SUBSET Docs /\ \A d \in ids : text[d] # 0 /\ d \in Scope(i)
  BY <1>2
<1>6. ASSUME ids # {} PROVE ScopeOf(ids) = i /\ \A d \in Known \cap Scope(i) : d > n /\ d =< Max(ids) => d \in ids
  <2>1. Max(ids) \in ids /\ Max(ids) \in Nat \ {0}
    <3> HIDE DEF ids
    <3> QED
      BY <1>5, <1>6, LastId
  <2>2. Max(ids) \in Scope(i)
    BY <1>5, <2>1
  <2>3. ScopeOf(ids) = i
    <3> HIDE DEF ids
    <3> QED
      BY <2>1, <2>2, DocAssumption DEF ScopeOf, Scope
  <2>4. \A d \in Known \cap Scope(i) : d > n => d \in behind
    BY <1>3
  <2> HIDE DEF behind, ids
  <2> QED
    BY <1>2, <2>1, <2>3, <2>4
<1> QED
  BY <1>4, <1>5, <1>6

LEMMA CoveringStep ==
  ASSUME TypeInv, RowsThere, [Next]_vars, kind # "mainline", NEW r \in Runs, Covering(r)
  PROVE  Covering(r)'
<1>1. /\ at = [j \in Jobs |-> at[j]] /\ work = [j \in Jobs |-> work[j]] /\ runs \in [Runs -> RunRow]
      /\ kind' = kind /\ Scopes' = Scopes /\ r \in Jobs
      /\ at'[r] \in RunSteps \cup {"none", "load"} \cup Returned
      /\ at[r] \in RunSteps \cup {"none", "load"} \cup Returned
  BY AtStep, SetupKept, JobSets DEF TypeInv, AtTypes, StepsOf, RunSteps, Scopes, ControlTypeOK, RunRow, DocsInStep
<1>2. Scopes \subseteq {1, 2} /\ Known \subseteq Docs /\ (kind # "meili" => Scopes = {1}) /\ (kind = "meili" => Scopes = {1, 2})
  BY DocAssumption DEF Scopes, Docs
<1>3. \A d \in Docs : Done(r, d) => Done(r, d)'
  BY DoneStays
<1>4. \A i \in {1, 2} : Covered(r, i) => Covered(r, i)'
  BY <1>2, <1>3 DEF Covered
<1>5. runs'[r].state = "succeeded" => \A i \in Scopes : Covered(r, i)
  <2>1. CASE runs[r].state = "succeeded"
    BY <2>1 DEF Covering
  <2>2. CASE runs[r].state # "succeeded" /\ runs'[r].state = "succeeded"
    BY <2>2, SucceedsFromMark DEF Covering, Succeed, HandlerStep
  <2> QED
    BY <2>1, <2>2
<1>6. \A i \in Scopes : i \in {1, 2} /\ runs[r].cursor[i] \in Nat
  BY <1>1, <1>2 DEF RunRow
<1>7. ASSUME at[r] \notin {"save", "progress"} PROVE runs'[r].cursor = runs[r].cursor
  BY <1>7, CursorMoves DEF SaveCursor, BackfillProgress, HandlerStep
<1> DEFINE Rest == /\ at'[r] \in {"submit", "save", "enqueue", "progress"} =>
                        ScopeOf(work'[r].ids) \in Scopes /\ NextIds(r)'
                   /\ at'[r] = "submit" => DOMAIN work'[r].docs = work'[r].ids
                   /\ at'[r] \in {"save", "progress"} => \A d \in work'[r].ids : Done(r, d)'
                   /\ at'[r] = "series" \/ (at'[r] \in {"submit", "save"} /\ ScopeOf(work'[r].ids) = 2) => Covered(r, 1)
                   /\ at'[r] = "mark" => \A i \in Scopes : Covered(r, i)
           Behind == \A i \in Scopes : \A d \in Known \cap Scope(i) : d =< runs'[r].cursor[i] => Done(r, d)
<1>8. Rest /\ Behind => Covering(r)'
  BY <1>1, <1>2, <1>3, <1>4, <1>5 DEF Covering
<1> HIDE DEF Rest, Behind
<1>9. runs'[r].cursor = runs[r].cursor => Behind
  BY DEF Behind, Covering
<1> DEFINE P == Rest /\ Behind
<1> SUFFICES P
  BY <1>8
<1> HIDE DEF P
<1>10. CASE work'[r] = work[r] /\ at'[r] \in {at[r], "none", "load"} \cup Returned
  <2>1. runs'[r].cursor = runs[r].cursor
    <3>1. ASSUME SaveCursor(r) \/ BackfillProgress(r) PROVE FALSE
      BY <1>1, <1>10, <3>1 DEF SaveCursor, BackfillProgress, HandlerStep, Returned
    <3> QED
      BY <3>1, CursorMoves
  <2>2. Rest
    <3>1. CASE at'[r] = at[r]
      <4>1. NextIds(r) => NextIds(r)'
        BY <1>10, <2>1 DEF NextIds, ScopeOf
      <4>2. \A d \in Docs : Done(r, d) => Done(r, d)'
        BY <1>3
      <4>3. at[r] \in {"save", "progress"} => \A d \in work[r].ids : d \in Docs
        BY DEF TypeInv, DocsInStep
      <4> QED
        BY <1>10, <3>1, <4>1, <4>2, <4>3 DEF Rest, Covering
    <3>2. CASE at'[r] \in {"none", "load"} \cup Returned
      BY <3>2 DEF Rest, Returned
    <3> QED
      BY <1>10, <3>1, <3>2
  <2> QED
    BY <1>9, <2>1, <2>2 DEF P
<1>11. CASE at'[r] = "none"
  <2>1. runs'[r].cursor = runs[r].cursor
    <3>1. ASSUME SaveCursor(r) \/ BackfillProgress(r) PROVE FALSE
      BY <1>1, <1>11, <3>1 DEF SaveCursor, BackfillProgress, HandlerStep
    <3> QED
      BY <3>1, CursorMoves
  <2> QED
    BY <1>9, <1>11, <2>1 DEF P, Rest
<1>12. CASE LoadRun(r, "threads") \/ LoadRun(r, "list")
  <2>1. at[r] = "load" /\ at'[r] \in {"threads", "list"}
    BY <1>1, <1>12 DEF LoadRun, HandlerStep
  <2> QED
    BY <1>7, <1>9, <2>1 DEF P, Rest
<1>13. CASE kind = "meili" /\ ListChunk(r)
  <2>1. PICK i \in {1, 2} :
          LET ids == Candidates(i, runs[r].cursor[i])
          IN /\ HandlerStep(r, IF i = 1 THEN "threads" ELSE "series",
                            IF ids # {} THEN "submit" ELSE IF i = 1 THEN "series" ELSE "mark")
             /\ Work(r, ids, Built(ids))
    BY <1>13 DEF ListChunk
  <2> DEFINE ids == Candidates(i, runs[r].cursor[i])
  <2>2. /\ work'[r] = [ids |-> ids, docs |-> Built(ids)]
        /\ at[r] = IF i = 1 THEN "threads" ELSE "series"
        /\ at'[r] = IF ids # {} THEN "submit" ELSE IF i = 1 THEN "series" ELSE "mark"
    BY <1>1, <2>1 DEF HandlerStep, Work
  <2>3. runs'[r].cursor = runs[r].cursor
    BY <1>7, <2>2
  <2>4. \A d \in Known \cap Scope(i) : d =< runs[r].cursor[i] => Done(r, d)
    BY <1>2, <1>13 DEF Covering
  <2>5. /\ ids \in SUBSET Docs /\ \A d \in ids : text[d] # 0
        /\ ids = {} => Covered(r, i)
        /\ ids # {} => /\ ScopeOf(ids) = i
                       /\ \A d \in Known \cap Scope(i) : d > runs[r].cursor[i] /\ d =< Max(ids) => d \in ids
    BY <2>4, ListFollows
  <2> HIDE DEF ids
  <2>6. DOMAIN Built(ids) = ids
    BY <2>5 DEF Built, Documents
  <2>7. i = 2 => Covered(r, 1)
    BY <2>2 DEF Covering
  <2>8. CASE ids = {}
    BY <1>2, <1>13, <2>2, <2>5, <2>7, <2>8, <1>9, <2>3 DEF P, Rest
  <2>9. CASE ids # {}
    <3>1. ScopeOf(work'[r].ids) = i /\ NextIds(r)'
      BY <2>2, <2>3, <2>5, <2>9 DEF NextIds, ScopeOf
    <3>2. Rest
      BY <1>2, <1>13, <2>2, <2>6, <2>7, <2>9, <3>1 DEF Rest
    <3> QED
      BY <1>9, <2>3, <3>2 DEF P
  <2> QED
    BY <2>8, <2>9
<1>14. CASE kind = "meili" /\ SubmitChunk(r)
  <2>1. /\ at[r] = "submit" /\ at'[r] \in {"save", "retryable"} /\ work' = work
        /\ Submit(work[r].docs)
    BY <1>1, <1>14 DEF SubmitChunk, Submits, HandlerStep
  <2>2. /\ DOMAIN work[r].docs = work[r].ids /\ work[r].ids \in SUBSET Docs
        /\ \A d \in DOMAIN work[r].docs : work[r].docs[d].text # 0
        /\ ScopeOf(work[r].ids) \in Scopes /\ NextIds(r)
        /\ ScopeOf(work[r].ids) = 2 => Covered(r, 1)
    BY <2>1, <1>1 DEF Covering, TypeInv, DocsInStep, RowsThere
  <2>3. \A d \in work[r].ids : Done(r, d)'
    BY <1>1, <1>14, <2>1, <2>2 DEF Submit, Done
  <2>4. runs'[r].cursor = runs[r].cursor
    BY <1>7, <2>1
  <2>5. NextIds(r)'
    BY <2>1, <2>2, <2>4 DEF NextIds, ScopeOf
  <2> QED
    BY <1>9, <2>1, <2>2, <2>3, <2>4, <2>5 DEF P, Rest
<1>15. CASE kind = "meili" /\ SaveCursor(r)
  <2> DEFINE i == ScopeOf(work[r].ids)
             m == Max(work[r].ids)
  <2>1. /\ at[r] = "save" /\ at'[r] = IF i = 1 THEN "threads" ELSE "series"
        /\ runs' = [runs EXCEPT ![r].cursor[i] = m]
    BY <1>1, <1>15 DEF SaveCursor, HandlerStep
  <2>2. i \in Scopes /\ i \in {1, 2} /\ NextIds(r) /\ (\A d \in work[r].ids : Done(r, d)) /\ (i = 2 => Covered(r, 1))
    <3>1. \A d \in work[r].ids : Done(r, d)
      BY <2>1 DEF Covering
    <3> QED
      BY <1>2, <2>1, <3>1 DEF Covering
  <2>3. \A d \in Known \cap Scope(i) : d > runs[r].cursor[i] /\ d =< m => d \in work[r].ids
    BY <2>2 DEF NextIds
  <2> HIDE DEF i, m
  <2>4. runs'[r].cursor[i] = m /\ \A k \in {1, 2} : k # i => runs'[r].cursor[k] = runs[r].cursor[k]
    BY <1>1, <2>1, <2>2 DEF RunRow
  <2>5. Behind
    <3> SUFFICES ASSUME NEW k \in Scopes, NEW d \in Known \cap Scope(k), d =< runs'[r].cursor[k]
                 PROVE  Done(r, d)
      BY DEF Behind
    <3>1. d \in Nat /\ k \in {1, 2} /\ runs[r].cursor[k] \in Nat
      BY <1>2, <1>6, DocAssumption
    <3>2. d =< runs[r].cursor[k] => Done(r, d)
      BY DEF Covering
    <3> QED
      BY <2>2, <2>3, <2>4, <3>1, <3>2
  <2> QED
    BY <2>1, <2>2, <2>5 DEF P, Rest
<1>17. CASE kind = "backfill" /\ ListBatch(r)
  <2> DEFINE ids == Candidates(1, runs[r].cursor[1])
  <2>1. /\ work'[r].ids = ids
        /\ at[r] = "list" /\ at'[r] = IF ids # {} THEN "enqueue" ELSE "mark"
    BY <1>1, <1>17 DEF ListBatch, HandlerStep, Work
  <2>2. runs'[r].cursor = runs[r].cursor
    BY <1>7, <2>1
  <2>3. /\ ids = {} => Covered(r, 1)
        /\ ids # {} => /\ ScopeOf(ids) = 1
                       /\ \A d \in Known \cap Scope(1) : d > runs[r].cursor[1] /\ d =< Max(ids) => d \in ids
    <3>1. \A d \in Known \cap Scope(1) : d =< runs[r].cursor[1] => Done(r, d)
      BY <1>2, <1>17 DEF Covering
    <3> QED
      BY <3>1, ListFollows
  <2> HIDE DEF ids
  <2>4. CASE ids = {}
    BY <1>2, <1>9, <1>17, <2>1, <2>2, <2>3, <2>4 DEF P, Rest
  <2>5. CASE ids # {}
    <3>1. ScopeOf(work'[r].ids) = 1 /\ NextIds(r)'
      BY <2>1, <2>2, <2>3, <2>5 DEF NextIds, ScopeOf
    <3> QED
      BY <1>2, <1>9, <1>17, <2>1, <2>2, <2>5, <3>1 DEF P, Rest
  <2> QED
    BY <2>4, <2>5
<1>18. CASE kind = "backfill" /\ BackfillEnqueues(r)
  <2> DEFINE ids == work[r].ids
  <2>1. /\ at[r] = "enqueue" /\ at'[r] = "progress" /\ work' = work /\ EnqueueBatch(r, ids)
    BY <1>1, <1>18 DEF BackfillEnqueues, HandlerStep
  <2>2. ScopeOf(ids) \in Scopes /\ NextIds(r)
    BY <2>1 DEF Covering
  <2>3. runs'[r].cursor = runs[r].cursor
    BY <1>7, <2>1
  <2>4. NextIds(r)'
    BY <2>1, <2>2, <2>3 DEF NextIds, ScopeOf
  <2>5. \E b \in Batches : batch'[b] = [source |-> r, ids |-> ids]
    <3>1. batch \in [Batches -> [source : {0} \cup Jobs, ids : SUBSET Docs]]
      BY DEF TypeInv, DocsTypeOK
    <3>2. EnqueueBatch(r, ids)
      BY <2>1
    <3> HIDE DEF ids
    <3>3. \/ UNCHANGED <<batch, job>> /\ \E b \in Batches : batch[b] = [source |-> r, ids |-> ids]
          \/ \E b \in Batches : /\ batch[b].source = 0 /\ job[b] = "none"
                                /\ batch' = [batch EXCEPT ![b] = [source |-> r, ids |-> ids]]
                                /\ job' = [job EXCEPT ![b] = "waiting"]
      BY <3>2, EnqueueBatchIs
    <3> QED
      BY <3>1, <3>3
  <2>6. \A d \in ids : Done(r, d)'
    BY <1>1, <1>18, <2>5 DEF Done
  <2> QED
    BY <1>2, <1>9, <1>18, <2>1, <2>2, <2>3, <2>4, <2>6 DEF P, Rest
<1>19. CASE kind = "backfill" /\ BackfillProgress(r)
  <2> DEFINE m == Max(work[r].ids)
  <2>1. at[r] = "progress" /\ at'[r] = "list" /\ runs' = [runs EXCEPT ![r].cursor[1] = m]
    BY <1>1, <1>19 DEF BackfillProgress, HandlerStep
  <2>2. ScopeOf(work[r].ids) = 1 /\ NextIds(r) /\ \A d \in work[r].ids : Done(r, d)
    BY <1>2, <1>19, <2>1 DEF Covering
  <2>3. \A d \in Known \cap Scope(1) : d > runs[r].cursor[1] /\ d =< m => d \in work[r].ids
    BY <2>2 DEF NextIds
  <2> HIDE DEF m
  <2>4. runs'[r].cursor[1] = m
    BY <1>1, <2>1 DEF RunRow
  <2>5. ASSUME NEW d \in Known \cap Scope(1), d =< m PROVE Done(r, d)
    <3>1. d \in Nat /\ runs[r].cursor[1] \in Nat /\ 1 \in Scopes
      BY <1>2, <1>6, <1>19, DocAssumption
    <3>2. d =< runs[r].cursor[1] => Done(r, d)
      BY <3>1 DEF Covering
    <3> QED
      BY <2>2, <2>3, <2>5, <3>1, <3>2
  <2>6. Behind
    BY <1>2, <1>19, <2>4, <2>5 DEF Behind
  <2> QED
    BY <2>1, <2>6 DEF P, Rest
<1> QED
  BY <1>1, <1>10, <1>11, <1>12, <1>13, <1>14, <1>15, <1>17, <1>18, <1>19, WorkMoves, JobSets

LEMMA CoverStep ==
  ASSUME TypeInv, CoverInv, [Next]_vars
  PROVE  CoverInv'
<1> SUFFICES ASSUME kind # "mainline" PROVE RowsThere' /\ \A r \in Runs : Covering(r)'
  BY SetupKept DEF CoverInv
<1>1. RowsThere /\ \A r \in Runs : Covering(r)
  BY DEF CoverInv
<1> QED
  BY <1>1, RowsThereStep, CoveringStep

LEMMA CoverFromStart ==
  ASSUME Init
  PROVE  CoverInv
<1>1. TypeInv
  BY TypesFromStart
<1>2. \A r \in Runs : /\ r \in Jobs /\ runs[r].state = "absent" /\ at[r] = "none"
                      /\ runs[r].cursor = <<0, 0>>
  BY JobSets DEF Init, ControlInit, NewRun
<1>3. \A d \in Known : d \in Nat \ {0} /\ text[d] # 0
  BY DocAssumption DEF Init, DocsInit, Docs
<1>4. RowsThere
  BY <1>3 DEF Init, ControlInit, RowsThere
<1>5. Scopes \subseteq {1, 2}
  BY DEF Scopes
<1>6. \A r \in Runs : Covering(r)
  BY <1>2, <1>3, <1>5 DEF Covering
<1> QED
  BY <1>4, <1>6 DEF CoverInv

\* A bootstrap that succeeded has written every document there was and a backfill has a batch of
\* its own for every thread there was, however often either was cut short and resumed at its
\* cursor, whatever the chunks, and whoever else wrote documents and batches meanwhile.
THEOREM Covers == Spec => []SucceededCoversDocs
<1>1. TypeInv /\ CoverInv => SucceededCoversDocs
  <2> SUFFICES ASSUME CoverInv, NEW r \in Runs, runs[r].state = "succeeded", kind # "mainline"
               PROVE  /\ kind = "meili" => \A d \in Known : index[d].text # 0
                      /\ kind = "backfill" => \A d \in Known \cap Scope(1) :
                                                \E b \in Batches : batch[b].source = r /\ d \in batch[b].ids
    BY DEF SucceededCoversDocs
  <2>1. \A i \in Scopes : \A d \in Known \cap Scope(i) : Done(r, d)
    BY DEF CoverInv, Covering, Covered
  <2>2. \A d \in Known : d \in Scope(1) \cup Scope(2)
    BY DocAssumption DEF Scope, Docs
  <2> QED
    BY <2>1, <2>2 DEF Scopes, Done
<1>2. TypeInv /\ CoverInv /\ [Next]_vars => CoverInv'
  BY CoverStep
<1>3. Init => TypeInv /\ CoverInv
  BY TypesFromStart, CoverFromStart
<1> QED
  BY <1>1, <1>2, <1>3, TypeInvHolds, PTL DEF Spec

-----------------------------------------------------------------------------
(* How current the index is. *)

\* What changes each table.
LEMMA RowMoves ==
  ASSUME TypeInv, [Next]_vars
  PROVE  /\ text' = text \/ ChangeRows
         /\ vector' = vector \/ \E b \in Batches : UpsertVectors(b)
         /\ index' = index \/ \E j \in Jobs : at[j] = "submit" /\ Submit(work[j].docs) /\ UNCHANGED <<text, vector>>
         /\ pipeline' = pipeline \/ PipelineStarts \/ MarkPipeline
         /\ \/ batch' = batch
            \/ \E r \in Runs : BackfillEnqueues(r)
            \/ \E i \in {1, 2} : EmbedChanged(i) /\ Changed \cap Scope(i) # {}
BY DocMoves, JobSets
   DEF docVars, rowVars, DocsForget, ListChunk, SubmitChunk, Submits, SaveCursor, ListBatch, BackfillEnqueues,
       BackfillProgress, ReadInputs, UpsertVectors, BuildEmbedded, SubmitEmbedded, PipelineStarts, ChangeRows,
       BuildChanged, SubmitChanged, MarkPipeline, HandOver, EmbedChanged, HandlerStep

\* A job of the pipeline comes with the stage before it.
LEMMA StageEnqueued ==
  ASSUME TypeInv, [Next]_vars, NEW j \in {Lexical, Embedding}, job[j] = "none", job'[j] # "none"
  PROVE  IF j = Lexical THEN ChangeRows ELSE HandOver
<1>1. /\ job \in [Jobs -> JobState] /\ j \in Jobs \ Runs /\ j \notin Batches /\ j # Threading
      /\ Threading \in Jobs /\ Lexical \in Jobs /\ Embedding \in Jobs /\ Lexical # Embedding
  BY JobSets DEF TypeInv, ControlTypeOK, JobState
<1>2. ASSUME NEW k \in Jobs, Finalize(k) \/ Sweep(k) PROVE FALSE
  <2>1. at[k] # "none" => job[k] = "running"
    BY DEF TypeInv, JobsInStep
  <2>2. k # j
    BY <1>2, <2>1 DEF Finalize, Sweep, Returned
  <2> QED
    BY <1>1, <1>2, <2>2 DEF Finalize, Sweep
<1>3. ASSUME NEW s, NEW ids, EnqueueBatch(s, ids) PROVE FALSE
  <2>1. \/ UNCHANGED <<batch, job>> /\ \E c \in Batches : batch[c] = [source |-> s, ids |-> ids]
        \/ \E c \in Batches : /\ batch[c].source = 0 /\ job[c] = "none"
                              /\ batch' = [batch EXCEPT ![c] = [source |-> s, ids |-> ids]]
                              /\ job' = [job EXCEPT ![c] = "waiting"]
    BY <1>3, EnqueueBatchIs
  <2> QED
    BY <1>1, <2>1
<1>4. ASSUME UNCHANGED job PROVE FALSE
  BY <1>4
<1>5. ASSUME PipelineStarts PROVE FALSE
  BY <1>1, <1>5 DEF PipelineStarts
<1>6. ASSUME ChangeRows PROVE j = Lexical
  BY <1>1, <1>6 DEF ChangeRows, EnqueueStage
<1>7. ASSUME HandOver PROVE j = Embedding
  BY <1>1, <1>7 DEF HandOver, EnqueueStage
<1> QED
  BY DocMoves, <1>1, <1>2, <1>3, <1>4, <1>5, <1>6, <1>7
     DEF ListChunk, SubmitChunk, Submits, SaveCursor, ListBatch, BackfillEnqueues,
         BackfillProgress, ReadInputs, UpsertVectors, BuildEmbedded, SubmitEmbedded,
         BuildChanged, SubmitChanged, MarkPipeline, EmbedChanged

\* A job succeeds when its handler returned success.
LEMMA SucceedsAfterSuccess ==
  ASSUME TypeInv, [Next]_vars, NEW j \in Jobs, job'[j] = "succeeded", job[j] # "succeeded"
  PROVE  at[j] = "success"
<1>1. job \in [Jobs -> JobState] /\ \A k \in Jobs : AfterFailure(k) \in {"waiting", "failed_terminal"}
  BY DEF TypeInv, ControlTypeOK, JobState, AfterFailure
<1>2. ASSUME NEW k, NEW s \in JobState \ {"succeeded"}, job' = [job EXCEPT ![k] = s] PROVE FALSE
  BY <1>1, <1>2
<1>3. ASSUME NEW k, RequestCancel(k) PROVE FALSE
  BY <1>1, <1>3 DEF RequestCancel
<1>4. ASSUME NEW k \in Jobs, Finalize(k) PROVE at[j] = "success"
  BY <1>1, <1>4 DEF Finalize, Returned
<1>5. ASSUME NEW k \in Jobs, Sweep(k) PROVE FALSE
  BY <1>1, <1>2, <1>5 DEF Sweep, JobState
<1>6. ASSUME NEW k \in Jobs, Handles(k) PROVE FALSE
  BY <1>1, <1>2, <1>6 DEF Handles, Adds, JobState
<1>7. ASSUME PipelineStarts PROVE FALSE
  BY <1>1, <1>2, <1>7 DEF PipelineStarts, JobState
<1>8. ASSUME NEW p \in Posters, EnqueueRun(p) PROVE FALSE
  BY <1>1, <1>2, <1>8 DEF EnqueueRun, JobState
<1>9. ASSUME NEW k \in Jobs, Claim(k) PROVE FALSE
  BY <1>1, <1>2, <1>9 DEF Claim, JobState
<1>10. ASSUME UNCHANGED job PROVE FALSE
  BY <1>10
<1> QED
  BY ControlMoves, <1>3, <1>4, <1>5, <1>6, <1>7, <1>8, <1>9, <1>10
     DEF Check, Create, Bind, EnqueueFails, PosterLost,
         CancelLost, CancelJob, CancelMark, CancelRead, CancelDirect,
         controlVars, jobVars

\* How the jobs of the pipeline and of batches come to return success.
LEMMA ReturnsSuccess ==
  ASSUME TypeInv, [Next]_vars, NEW j \in Jobs \ Runs, at'[j] = "success", at[j] # "success"
  PROVE  \/ j = Threading
         \/ j = Lexical /\ (HandOver \/ pipeline = "succeeded")
         \/ j = Embedding /\ EmbedChanged(2)
         \/ j \in Batches /\ SubmitEmbedded(j)
<1> DEFINE P == \/ j = Threading
                \/ j = Lexical /\ (HandOver \/ pipeline = "succeeded")
                \/ j = Embedding /\ EmbedChanged(2)
                \/ j \in Batches /\ SubmitEmbedded(j)
<1> SUFFICES P
  OBVIOUS
<1> HIDE DEF P
<1>1. at = [k \in Jobs |-> at[k]]
  BY DEF TypeInv, AtTypes
<1>2. ASSUME UNCHANGED at PROVE P
  BY <1>2
<1>3. ASSUME NEW k, NEW s, k # j \/ s # "success", at' = [at EXCEPT ![k] = s] PROVE P
  BY <1>1, <1>3
<1>4. ASSUME NEW p \in Posters, Start(p) \/ Request(p) PROVE P
  <2>1. \A m : Check(p, m) => UNCHANGED at
    BY DEF Check, jobVars
  <2>2. Create(p) \/ EnqueueRun(p) \/ Bind(p) => UNCHANGED at
    BY DEF Create, EnqueueRun, Bind, jobVars
  <2> QED
    BY <1>2, <1>4, <2>1, <2>2 DEF Start, Request
<1>5. CASE RequestBreaks \/ Cancelling
  BY <1>2, <1>5 DEF RequestBreaks, Cancelling, EnqueueFails, PosterLost, CancelLost, CancelRead, CancelJob,
                    CancelMark, CancelDirect, jobVars
<1>6. CASE Claims
  <2>1. PICK k \in Jobs : at' = [at EXCEPT ![k] = IF cancel[k] THEN "cancelled" ELSE "load"]
    BY <1>6 DEF Claims, Claim
  <2> QED
    BY <1>3, <2>1
<1>7. ASSUME NEW k \in Jobs, Ends(k) PROVE P
  BY <1>1, <1>7 DEF Ends, Finalize, Sweep
<1>8. ASSUME NEW k \in Jobs, Broken(k) PROVE P
  <2>1. \/ at' = [at EXCEPT ![k] = IF at[k] \in Returned THEN "none" ELSE "retryable"]
        \/ at' = [at EXCEPT ![k] = "terminal"]
        \/ at' = [at EXCEPT ![k] = "retryable"]
    BY <1>8 DEF Broken, Refuse, ScanBreaks, DocsBreak, Breaks, BackfillFails, EmbeddingRefused
  <2> QED
    BY <1>3, <2>1
<1>9. CASE Fetch /\ UNCHANGED docVars
  BY <1>2, <1>9 DEF Fetch, controlVars, jobVars
<1>10. CASE UNCHANGED vars
  BY <1>2, <1>10 DEF vars, controlVars, jobVars
<1>11. ASSUME NEW k \in Runs, \E s : at' = [at EXCEPT ![k] = s] PROVE P
  BY <1>3, <1>11
<1>12. ASSUME NEW k, NEW from, StopForCancel(k, from) PROVE P
  BY <1>3, <1>12 DEF StopForCancel, HandlerStep
<1>13. ASSUME NEW k \in Jobs, Handle(k) PROVE P
  <2>1. CASE SkipRun(k)
    BY <1>11, <2>1 DEF SkipRun, HandlerStep
  <2>2. CASE k \in Runs /\ ScanStep(k)
    <3>1. \E s : at' = [at EXCEPT ![k] = s]
      BY <2>2
         DEF ScanStep, LoadScan, EnsureState, Unready, Prepare, Resolve, UpsertCommits, UnsetCanonical,
             InsertMatches, InsertRefused, SaveChunk, SumUp, WriteRollup, Publish, MarkState, ScanSucceeds, ScanCancelled,
             LoadRun, Succeed, StopForCancel, HandlerStep
    <3> QED
      BY <1>11, <2>2, <3>1
  <2>3. CASE k \in Runs /\ (BootstrapStep(k) \/ BackfillStep(k))
    <3>1. \E s : at' = [at EXCEPT ![k] = s]
      BY <2>3 DEF BootstrapStep, BackfillStep, LoadRun, ListChunk, SubmitChunk, Submits, SaveCursor, Succeed,
                  ListBatch, BackfillEnqueues, BackfillProgress, StopForCancel, HandlerStep
    <3> QED
      BY <1>11, <2>3, <3>1
  <2>4. CASE k \in Batches /\ BatchStep(k)
    <3>1. CASE SubmitEmbedded(k)
      <4>1. \E s : at' = [at EXCEPT ![k] = s]
        BY <3>1 DEF SubmitEmbedded, Submits, HandlerStep
      <4> QED
        BY <1>3, <2>4, <3>1, <4>1 DEF P
    <3>2. CASE ReadInputs(k) \/ UpsertVectors(k) \/ BuildEmbedded(k)
      BY <1>3, <3>2 DEF ReadInputs, UpsertVectors, BuildEmbedded, HandlerStep
    <3> QED
      BY <1>12, <2>4, <3>1, <3>2 DEF BatchStep
  <2> QED
    BY <1>13, <2>1, <2>2, <2>3, <2>4 DEF Handle
<1>14. CASE Pipeline
  <2>1. CASE PipelineStarts
    BY <1>2, <2>1 DEF PipelineStarts
  <2>2. CASE ChangeRows
    BY <1>3, <2>2 DEF ChangeRows, HandlerStep, P
  <2>3. CASE HandOver
    BY <1>3, <2>3 DEF HandOver, HandlerStep, P
  <2>4. ASSUME NEW k \in {Threading, Lexical}, SkipStage(k) PROVE P
    BY <1>3, <2>4 DEF SkipStage, HandlerStep, P
  <2>5. CASE BuildChanged \/ SubmitChanged \/ MarkPipeline
    BY <1>3, <2>5 DEF BuildChanged, SubmitChanged, Submits, MarkPipeline, HandlerStep
  <2>6. ASSUME NEW i \in {1, 2}, EmbedChanged(i) PROVE P
    BY <1>3, <2>6 DEF EmbedChanged, HandlerStep, P
  <2> QED
    BY <1>12, <1>14, <2>1, <2>2, <2>3, <2>4, <2>5, <2>6 DEF Pipeline, PipelineStep
<1> QED
  BY <1>4, <1>5, <1>6, <1>7, <1>8, <1>9, <1>10, <1>13, <1>14 DEF Next

\* The number of the change a row of the pipeline run is of.
Late(d) == IF d \in Known THEN 2 ELSE 1

\* What is about to be written is made of the rows as they are.
Fresh == \A j \in Jobs :
  /\ at[j] = "submit" => \A d \in DOMAIN work[j].docs :
       work[j].docs[d].text = text[d] /\ (j # Lexical => work[j].docs[d].vector = vector[d])
  /\ at[j] = "vectors" => \A d \in DOMAIN work[j].docs : work[j].docs[d] = text[d]

\* The stages of the pipeline run follow one another.
StagesInStep ==
  /\ job[Lexical] # "none" => \A d \in Changed : text[d] = Late(d)
  /\ at[Lexical] \in {"submit", "mark"} => pipeline = "running"
  /\ at[Lexical] = "submit" => Changed \subseteq DOMAIN work[Lexical].docs
  /\ at[Lexical] \in {"hand_over", "success"} \/ job[Lexical] = "succeeded" \/ job[Embedding] # "none" =>
       pipeline = "succeeded"
  /\ pipeline = "succeeded" => job[Lexical] # "none"

\* Only a change whose lexical stage has not submitted yet is ahead of the index.
TextKeepsUp(d) ==
  \/ index[d].text \in {0, text[d]}
  \/ d \in Changed /\ job[Lexical] # "none" /\ pipeline = "running" /\ at[Lexical] # "mark"

TextsKeepUp == \A d \in Docs : TextKeepsUp(d)

Embedded(d) == vector[d] = text[d] /\ index[d].text = text[d] /\ index[d].vector = text[d]

\* A batch of the pipeline run, in its steps.
BatchKeepsUp(b) ==
  /\ batch[b].source # 0 => job[b] # "none"
  /\ batch[b].source = Embedding =>
       /\ pipeline = "succeeded" /\ batch[b].ids \subseteq Changed
       /\ at[b] \in {"vectors", "submit"} => DOMAIN work[b].docs = batch[b].ids
       /\ at[b] \in {"build", "submit"} => \A d \in batch[b].ids : vector[d] = text[d]
       /\ at[b] = "success" \/ job[b] = "succeeded" => \A d \in batch[b].ids : Embedded(d)

BatchesKeepUp == \A b \in Batches : BatchKeepsUp(b)

HasBatch(i) ==
  Changed \cap Scope(i) # {} => \E b \in Batches : batch[b] = [source |-> Embedding, ids |-> Changed \cap Scope(i)]

BatchesMade ==
  /\ at[Embedding] \in {"embed_series", "success"} \/ job[Embedding] = "succeeded" => HasBatch(1)
  /\ at[Embedding] = "success" \/ job[Embedding] = "succeeded" => HasBatch(2)

IndexInv == slots = 1 => Fresh /\ StagesInStep /\ TextsKeepUp /\ BatchesKeepUp /\ BatchesMade

\* With one slot one handler is in execution.
LEMMA Alone ==
  ASSUME TypeInv, OneTask, slots = 1, NEW j \in Jobs, NEW k \in Jobs, at[j] # "none", at[k] # "none"
  PROVE  j = k
BY DEF TypeInv, JobsInStep, OneTask

LEMMA FreshStep ==
  ASSUME TypeInv, OneTask, slots = 1, Fresh, [Next]_vars
  PROVE  Fresh'
<1> DEFINE F(j) == /\ at'[j] = "submit" => \A d \in DOMAIN work'[j].docs :
                        /\ work'[j].docs[d].text = text'[d]
                        /\ j # Lexical => work'[j].docs[d].vector = vector'[d]
                   /\ at'[j] = "vectors" => \A d \in DOMAIN work'[j].docs : work'[j].docs[d] = text'[d]
<1> SUFFICES ASSUME NEW j \in Jobs, at'[j] \in {"submit", "vectors"} PROVE F(j)
  BY DEF Fresh
<1>1. at = [k \in Jobs |-> at[k]] /\ work = [k \in Jobs |-> work[k]] /\ Threading \in Jobs
      /\ Batches \subseteq Jobs
  BY JobSets DEF TypeInv, AtTypes, DocsInStep
<1>2. ASSUME at'[j] = at[j], work'[j] = work[j] PROVE F(j)
  <2>1. ASSUME ChangeRows PROVE FALSE
    <3>1. at[Threading] = "load"
      BY <2>1 DEF ChangeRows, HandlerStep
    <3> QED
      BY <1>1, <1>2, <3>1, Alone
  <2>2. ASSUME NEW b \in Batches, UpsertVectors(b) PROVE FALSE
    <3>1. at[b] = "vectors" /\ at'[b] = "build"
      BY <1>1, <2>2 DEF UpsertVectors, HandlerStep
    <3> QED
      BY <1>1, <1>2, <3>1, Alone
  <2>3. text' = text /\ vector' = vector
    BY <2>1, <2>2, RowMoves
  <2>4. /\ at[j] = "submit" => \A d \in DOMAIN work[j].docs :
             work[j].docs[d].text = text[d] /\ (j # Lexical => work[j].docs[d].vector = vector[d])
        /\ at[j] = "vectors" => \A d \in DOMAIN work[j].docs : work[j].docs[d] = text[d]
    BY DEF Fresh
  <2> QED
    BY <1>2, <2>3, <2>4
<1>3. \A ids : /\ \A d \in DOMAIN Built(ids) : Built(ids)[d].text = text[d] /\ Built(ids)[d].vector = vector[d]
               /\ \A d \in DOMAIN BuiltBare(ids) : BuiltBare(ids)[d].text = text[d]
               /\ \A d \in DOMAIN Inputs(ids) : Inputs(ids)[d] = text[d]
  BY DEF Built, BuiltBare, Documents, Inputs
<1> DEFINE P == F(j)
<1> SUFFICES P
  OBVIOUS
<1>4. CASE work'[j] = work[j] /\ at'[j] \in {at[j], "none", "load"} \cup Returned
  BY <1>2, <1>4 DEF Returned
<1>5. CASE kind = "mainline" /\ j \in Runs
  BY <1>5, AtStep, SetupKept, JobSets DEF AtTypes, StepsOf, RunSteps, Returned
<1>6. CASE j \in Runs /\ ListChunk(j)
  <2>1. PICK i \in {1, 2} :
          LET ids == Candidates(i, runs[j].cursor[i])
          IN /\ HandlerStep(j, IF i = 1 THEN "threads" ELSE "series",
                            IF ids # {} THEN "submit" ELSE IF i = 1 THEN "series" ELSE "mark")
             /\ Work(j, ids, Built(ids)) /\ UNCHANGED rowVars
    BY <1>6 DEF ListChunk
  <2> DEFINE ids == Candidates(i, runs[j].cursor[i])
  <2>2. work'[j].docs = Built(ids) /\ at'[j] # "vectors" /\ UNCHANGED <<text, vector>>
    BY <1>1, <2>1 DEF HandlerStep, Work, rowVars
  <2> HIDE DEF ids
  <2> QED
    BY <1>3, <2>2
<1>7. CASE j \in Runs /\ (LoadRun(j, "threads") \/ SubmitChunk(j) \/ SaveCursor(j) \/ LoadRun(j, "list")
                            \/ ListBatch(j) \/ BackfillEnqueues(j) \/ BackfillProgress(j))
  <2>1. at'[j] \notin {"submit", "vectors"}
    BY <1>1, <1>7 DEF LoadRun, SubmitChunk, Submits, SaveCursor, ListBatch, BackfillEnqueues, BackfillProgress,
                      HandlerStep
  <2> QED
    BY <2>1
<1>8. CASE j = Lexical /\ BuildChanged
  <2>1. work'[j].docs = BuiltBare(Changed) /\ at'[j] = "submit" /\ UNCHANGED text
    BY <1>1, <1>8 DEF BuildChanged, HandlerStep, Work, rowVars
  <2> QED
    BY <1>3, <1>8, <2>1
<1>9. CASE j \in Batches /\ BuildEmbedded(j)
  <2>1. work'[j].docs = Built(batch[j].ids) /\ at'[j] = "submit" /\ UNCHANGED <<text, vector>>
    BY <1>1, <1>9 DEF BuildEmbedded, HandlerStep, Work, rowVars
  <2> QED
    BY <1>3, <2>1
<1>10. CASE j \in Batches /\ ReadInputs(j)
  <2>1. work'[j].docs = Inputs(batch[j].ids) /\ at'[j] = "vectors" /\ UNCHANGED text
    BY <1>1, <1>10 DEF ReadInputs, HandlerStep, Work, rowVars
  <2> QED
    BY <1>3, <2>1
<1>11. CASE \/ j = Lexical /\ (SubmitChanged \/ MarkPipeline)
            \/ j = Embedding /\ \E i \in {1, 2} : EmbedChanged(i)
            \/ j \in Batches /\ (UpsertVectors(j) \/ SubmitEmbedded(j))
  <2>1. at'[j] \notin {"submit", "vectors"}
    BY <1>1, <1>11 DEF SubmitChanged, SubmitEmbedded, Submits, MarkPipeline, EmbedChanged, UpsertVectors, HandlerStep
  <2> QED
    BY <2>1
<1> HIDE DEF P
<1> QED
  BY <1>4, <1>5, <1>6, <1>7, <1>8, <1>9, <1>10, <1>11, WorkMoves

\* What the jobs and the state of the pipeline run only gain.
LEMMA StagesOnly ==
  ASSUME TypeInv, [Next]_vars
  PROVE  /\ \A j \in Jobs : job[j] # "none" => job'[j] # "none"
         /\ pipeline = "succeeded" => pipeline' = "succeeded"
         /\ pipeline = "running" /\ at[Lexical] # "mark" => pipeline' = "running"
<1>1. \A j \in Jobs : job[j] # "none" => job'[j] # "none"
  BY JobMoves DEF AfterFailure
<1>2. MarkPipeline => at[Lexical] = "mark" /\ pipeline' = "succeeded"
  BY DEF MarkPipeline, HandlerStep
<1>3. PipelineStarts => pipeline = "none"
  BY DEF PipelineStarts
<1> QED
  BY <1>1, <1>2, <1>3, RowMoves

LEMMA StagesStep ==
  ASSUME TypeInv, StagesInStep, [Next]_vars
  PROVE  StagesInStep'
<1>1. /\ at = [k \in Jobs |-> at[k]] /\ work = [k \in Jobs |-> work[k]]
      /\ Lexical \in Jobs \ Runs /\ Embedding \in Jobs \ Runs /\ Lexical # Embedding
      /\ Lexical # Threading /\ Lexical \notin Batches
      /\ Changed \subseteq Docs /\ text \in [Docs -> Nat]
      /\ at[Lexical] # "none" => job[Lexical] = "running"
  BY JobSets, DocAssumption DEF TypeInv, AtTypes, DocsInStep, DocsTypeOK, JobsInStep, Docs
<1>2. job'[Lexical] # "none" => \A d \in Changed : text'[d] = Late(d)
  <2>1. CASE ChangeRows
    BY <1>1, <2>1 DEF ChangeRows, Late
  <2>2. CASE ~ChangeRows
    BY <1>1, <2>2, RowMoves, StageEnqueued DEF StagesInStep
  <2> QED
    BY <2>1, <2>2
<1>3. /\ at'[Lexical] \in {"submit", "mark"} => pipeline' = "running"
      /\ at'[Lexical] = "submit" => Changed \subseteq DOMAIN work'[Lexical].docs
      /\ at'[Lexical] = "hand_over" => pipeline' = "succeeded"
  <2> DEFINE P == /\ at'[Lexical] \in {"submit", "mark"} => pipeline' = "running"
                  /\ at'[Lexical] = "submit" => Changed \subseteq DOMAIN work'[Lexical].docs
                  /\ at'[Lexical] = "hand_over" => pipeline' = "succeeded"
  <2> SUFFICES P
    OBVIOUS
  <2>1. CASE work'[Lexical] = work[Lexical] /\ at'[Lexical] \in {at[Lexical], "none", "load"} \cup Returned
    <3>1. MarkPipeline => at'[Lexical] = "hand_over"
      BY <1>1 DEF MarkPipeline, HandlerStep
    <3>2. PipelineStarts => pipeline = "none"
      BY DEF PipelineStarts
    <3>3. at'[Lexical] \in {"submit", "mark", "hand_over"} => at'[Lexical] = at[Lexical]
      BY <2>1 DEF Returned
    <3> QED
      BY <2>1, <3>1, <3>2, <3>3, RowMoves, StagesOnly DEF StagesInStep
  <2>2. CASE BuildChanged
    <3>1. /\ pipeline = "running" /\ at[Lexical] = "load" /\ at'[Lexical] = "submit" /\ pipeline' = pipeline
          /\ work'[Lexical].docs = BuiltBare(Changed)
      BY <1>1, <2>2 DEF BuildChanged, HandlerStep, Work, rowVars
    <3>2. \A d \in Changed : text[d] # 0
      BY <1>1, <3>1 DEF StagesInStep, Late
    <3>3. Changed \subseteq DOMAIN BuiltBare(Changed)
      BY <3>2 DEF BuiltBare, Documents
    <3> QED
      BY <3>1, <3>3
  <2>3. CASE SubmitChanged
    <3>1. at[Lexical] = "submit" /\ at'[Lexical] \in {"mark", "cancelled"} /\ pipeline' = pipeline
      BY <1>1, <2>3 DEF SubmitChanged, Submits, HandlerStep
    <3> QED
      BY <3>1 DEF StagesInStep
  <2>4. CASE MarkPipeline
    <3>1. at'[Lexical] = "hand_over" /\ pipeline' = "succeeded"
      BY <1>1, <2>4 DEF MarkPipeline, HandlerStep
    <3> QED
      BY <3>1
  <2>5. CASE at'[Lexical] = "none"
    BY <2>5
  <2> HIDE DEF P
  <2> QED
    BY <1>1, <2>1, <2>2, <2>3, <2>4, <2>5, WorkMoves
<1>4. at'[Lexical] = "success" \/ job'[Lexical] = "succeeded" \/ job'[Embedding] # "none" => pipeline' = "succeeded"
  <2>1. HandOver => at[Lexical] = "hand_over"
    BY DEF HandOver, HandlerStep
  <2>2. at'[Lexical] = "success" => pipeline = "succeeded"
    BY <1>1, <2>1, ReturnsSuccess DEF StagesInStep
  <2>3. job'[Lexical] = "succeeded" => pipeline = "succeeded"
    BY <1>1, SucceedsAfterSuccess DEF StagesInStep
  <2>4. job'[Embedding] # "none" => pipeline = "succeeded"
    BY <1>1, <2>1, StageEnqueued DEF StagesInStep
  <2> QED
    BY <2>2, <2>3, <2>4, StagesOnly
<1>5. pipeline' = "succeeded" => job'[Lexical] # "none"
  <2>1. MarkPipeline => at[Lexical] = "mark"
    BY DEF MarkPipeline, HandlerStep
  <2>2. PipelineStarts => pipeline' = "running"
    BY DEF PipelineStarts
  <2>3. pipeline' = "succeeded" => job[Lexical] # "none"
    BY <1>1, <2>1, <2>2, RowMoves DEF StagesInStep
  <2> QED
    BY <1>1, <2>3, StagesOnly
<1> QED
  BY <1>2, <1>3, <1>4, <1>5 DEF StagesInStep, Late

\* What is submitted is the rows as they are; only the lexical stage has old rows to catch up with.
LEMMA TextsStep ==
  ASSUME TypeInv, OneTask, slots = 1, Fresh, StagesInStep, TextsKeepUp, [Next]_vars
  PROVE  TextsKeepUp'
<1> SUFFICES ASSUME NEW d \in Docs PROVE TextKeepsUp(d)'
  BY DEF TextsKeepUp
<1>1. /\ at = [k \in Jobs |-> at[k]] /\ Lexical \in Jobs \ Runs /\ Threading \in Jobs /\ Lexical # Threading
      /\ Lexical \notin Batches /\ Lexical # Embedding /\ index \in [Docs -> DocRow] /\ text \in [Docs -> Nat]
  BY JobSets DEF TypeInv, AtTypes, DocsTypeOK
<1>2. TextKeepsUp(d)
  BY DEF TextsKeepUp
<1>3. ASSUME NEW j \in Jobs, at[j] = "submit", Submit(work[j].docs), text' = text
      PROVE  (index'[d] = index[d] /\ d \notin DOMAIN work[j].docs) \/ index'[d].text = text'[d]
  <2>1. d \in DOMAIN work[j].docs => work[j].docs[d].text = text[d]
    BY <1>3 DEF Fresh
  <2>2. index'[d] = IF d \in DOMAIN work[j].docs THEN work[j].docs[d] ELSE index[d]
    BY <1>3 DEF Submit
  <2> QED
    BY <1>3, <2>1, <2>2
<1>4. CASE SubmitChanged
  <2>1. /\ at[Lexical] = "submit" /\ Submit(work[Lexical].docs) /\ text' = text
    BY <1>4 DEF SubmitChanged, Submits, HandlerStep
  <2>2. Changed \subseteq DOMAIN work[Lexical].docs
    BY <2>1 DEF StagesInStep
  <2> QED
    BY <1>1, <1>2, <1>3, <2>1, <2>2 DEF TextKeepsUp
<1>5. CASE ChangeRows
  <2>1. /\ at[Threading] = "load" /\ at' = [at EXCEPT ![Threading] = "success"]
        /\ index' = index /\ pipeline' = pipeline /\ pipeline = "running" /\ job'[Lexical] # "none"
        /\ d \notin Changed => text'[d] = text[d]
    BY <1>1, <1>5 DEF ChangeRows, HandlerStep, EnqueueStage, TypeInv, ControlTypeOK
  <2>2. at[Lexical] = "none"
    BY <1>1, <2>1, Alone
  <2> QED
    BY <1>1, <1>2, <2>1, <2>2 DEF TextKeepsUp
<1>6. CASE ~SubmitChanged /\ ~ChangeRows
  <2>1. at'[Lexical] = "mark" => at[Lexical] = "mark"
    <3>1. MarkPipeline \/ BuildChanged => at'[Lexical] # "mark"
      BY <1>1 DEF MarkPipeline, BuildChanged, HandlerStep
    <3> QED
      BY <1>1, <1>6, <3>1, WorkMoves DEF Returned
  <2>2. text' = text
    BY <1>6, RowMoves
  <2>3. index'[d] = index[d] \/ index'[d].text = text'[d]
    BY <1>3, <2>2, RowMoves
  <2> QED
    BY <1>1, <1>2, <2>1, <2>2, <2>3, StagesOnly DEF TextKeepsUp
<1> QED
  BY <1>4, <1>5, <1>6

\* Behind the pipeline run no row changes.
LEMMA RowsSettled ==
  ASSUME TypeInv, [Next]_vars, pipeline = "succeeded"
  PROVE  text' = text
<1>1. ChangeRows => pipeline = "running"
  BY DEF ChangeRows
<1> QED
  BY <1>1, RowMoves

\* A document that has the vector of its rows keeps it.
LEMMA EmbeddedStays ==
  ASSUME TypeInv, Fresh, StagesInStep, [Next]_vars, pipeline = "succeeded", NEW d \in Docs, Embedded(d)
  PROVE  Embedded(d)'
<1>1. text' = text /\ vector[d] = text[d] /\ index[d].text = text[d] /\ index[d].vector = text[d]
  BY RowsSettled DEF Embedded
<1>2. vector'[d] = text[d]
  <2>1. ASSUME NEW b \in Batches, UpsertVectors(b) PROVE vector'[d] = text[d]
    <3>1. /\ at[b] = "vectors"
          /\ vector'[d] = IF d \in DOMAIN work[b].docs THEN work[b].docs[d] ELSE vector[d]
      BY <2>1 DEF UpsertVectors, HandlerStep
    <3>2. d \in DOMAIN work[b].docs => work[b].docs[d] = text[d]
      BY <3>1, JobSets DEF Fresh
    <3> QED
      BY <1>1, <3>1, <3>2
  <2> QED
    BY <1>1, <2>1, RowMoves
<1>3. index'[d].text = text[d] /\ index'[d].vector = text[d]
  <2>1. ASSUME NEW j \in Jobs, at[j] = "submit", Submit(work[j].docs)
        PROVE  index'[d].text = text[d] /\ index'[d].vector = text[d]
    <3>1. j # Lexical
      BY <2>1 DEF StagesInStep
    <3>2. d \in DOMAIN work[j].docs => work[j].docs[d].text = text[d] /\ work[j].docs[d].vector = vector[d]
      BY <2>1, <3>1 DEF Fresh
    <3>3. index'[d] = IF d \in DOMAIN work[j].docs THEN work[j].docs[d] ELSE index[d]
      BY <2>1 DEF Submit
    <3> QED
      BY <1>1, <3>2, <3>3
  <2> QED
    BY <1>1, <2>1, RowMoves
<1> QED
  BY <1>1, <1>2, <1>3 DEF Embedded

\* What becomes of a batch's row: it stays, or comes with its job.
LEMMA BatchRowMoves ==
  ASSUME TypeInv, [Next]_vars, NEW b \in Batches
  PROVE  \/ batch'[b] = batch[b]
         \/ /\ batch[b].source = 0 /\ job[b] = "none" /\ job'[b] = "waiting"
            /\ \/ \E r \in Runs : batch'[b].source = r
               \/ \E i \in {1, 2} : /\ EmbedChanged(i)
                                    /\ batch'[b] = [source |-> Embedding, ids |-> Changed \cap Scope(i)]
<1> DEFINE P == \/ batch'[b] = batch[b]
                \/ /\ batch[b].source = 0 /\ job[b] = "none" /\ job'[b] = "waiting"
                   /\ \/ \E r \in Runs : batch'[b].source = r
                      \/ \E i \in {1, 2} : /\ EmbedChanged(i)
                                           /\ batch'[b] = [source |-> Embedding, ids |-> Changed \cap Scope(i)]
<1> SUFFICES P
  OBVIOUS
<1>1. /\ job \in [Jobs -> JobState] /\ batch = [c \in Batches |-> batch[c]] /\ Batches \subseteq Jobs
  BY JobSets DEF TypeInv, ControlTypeOK, JobState, DocsTypeOK
<1>2. ASSUME NEW s, NEW ids, EnqueueBatch(s, ids)
      PROVE  \/ batch'[b] = batch[b]
             \/ batch[b].source = 0 /\ job[b] = "none" /\ job'[b] = "waiting" /\ batch'[b] = [source |-> s, ids |-> ids]
  <2>1. \/ UNCHANGED <<batch, job>> /\ \E c \in Batches : batch[c] = [source |-> s, ids |-> ids]
        \/ \E c \in Batches : /\ batch[c].source = 0 /\ job[c] = "none"
                              /\ batch' = [batch EXCEPT ![c] = [source |-> s, ids |-> ids]]
                              /\ job' = [job EXCEPT ![c] = "waiting"]
    BY <1>2, EnqueueBatchIs
  <2> QED
    BY <1>1, <2>1
<1>3. ASSUME NEW r \in Runs, BackfillEnqueues(r) PROVE P
  <2>1. EnqueueBatch(r, work[r].ids)
    BY <1>3 DEF BackfillEnqueues
  <2>2. \/ batch'[b] = batch[b]
        \/ /\ batch[b].source = 0 /\ job[b] = "none" /\ job'[b] = "waiting"
           /\ batch'[b] = [source |-> r, ids |-> work[r].ids]
    BY <1>2, <2>1
  <2> QED
    BY <2>2
<1>4. ASSUME NEW i \in {1, 2}, EmbedChanged(i), Changed \cap Scope(i) # {} PROVE P
  <2>1. EnqueueBatch(Embedding, Changed \cap Scope(i))
    BY <1>4 DEF EmbedChanged
  <2>2. \/ batch'[b] = batch[b]
        \/ /\ batch[b].source = 0 /\ job[b] = "none" /\ job'[b] = "waiting"
           /\ batch'[b] = [source |-> Embedding, ids |-> Changed \cap Scope(i)]
    BY <1>2, <2>1
  <2> QED
    BY <1>4, <2>2
<1> HIDE DEF P
<1>5. batch' = batch => P
  BY DEF P
<1> QED
  BY <1>3, <1>4, <1>5, RowMoves

LEMMA BatchesStep ==
  ASSUME TypeInv, OneTask, slots = 1, Fresh, StagesInStep, BatchesKeepUp, [Next]_vars
  PROVE  BatchesKeepUp'
<1> SUFFICES ASSUME NEW b \in Batches PROVE BatchKeepsUp(b)'
  BY DEF BatchesKeepUp
<1>1. /\ at = [k \in Jobs |-> at[k]] /\ work = [k \in Jobs |-> work[k]]
      /\ b \in Jobs \ Runs /\ Batches \subseteq Jobs /\ b # Lexical /\ b # Embedding /\ b # Threading
      /\ Embedding \in Jobs \ Runs /\ Embedding # 0 /\ Changed \subseteq Docs
  BY JobSets, DocAssumption DEF TypeInv, AtTypes, DocsInStep, Docs
<1>2. /\ at[b] # "none" => job[b] = "running"
      /\ at[Embedding] # "none" => job[Embedding] = "running"
  BY <1>1 DEF TypeInv, JobsInStep
<1>3. BatchKeepsUp(b)
  BY DEF BatchesKeepUp
<1>4. batch'[b].source # 0 => job'[b] # "none"
  BY <1>1, <1>3, BatchRowMoves, StagesOnly DEF BatchKeepsUp
<1>5. CASE batch'[b] # batch[b] /\ batch'[b].source = Embedding
  <2>1. PICK i \in {1, 2} : /\ EmbedChanged(i)
                            /\ batch'[b] = [source |-> Embedding, ids |-> Changed \cap Scope(i)]
    BY <1>1, <1>5, BatchRowMoves
  <2>2. /\ at[Embedding] # "none" /\ pipeline' = pipeline
        /\ \E s : at' = [at EXCEPT ![Embedding] = s]
    BY <2>1 DEF EmbedChanged, HandlerStep
  <2>3. job[b] = "none" /\ job'[b] = "waiting"
    BY <1>5, BatchRowMoves
  <2>4. at'[b] = "none"
    BY <1>1, <1>2, <2>2, <2>3
  <2>5. pipeline = "succeeded"
    BY <1>2, <2>2 DEF StagesInStep
  <2> QED
    BY <1>4, <2>1, <2>2, <2>3, <2>4, <2>5 DEF BatchKeepsUp
<1>6. CASE batch'[b] = batch[b] /\ batch[b].source = Embedding
  <2> DEFINE ids == batch[b].ids
  <2>1. /\ pipeline = "succeeded" /\ pipeline' = "succeeded" /\ ids \subseteq Changed /\ text' = text
    BY <1>3, <1>6, StagesOnly, RowsSettled DEF BatchKeepsUp
  <2>2. /\ at[b] \in {"vectors", "submit"} => DOMAIN work[b].docs = ids
        /\ at[b] \in {"build", "submit"} => \A d \in ids : vector[d] = text[d]
        /\ at[b] = "success" \/ job[b] = "succeeded" => \A d \in ids : Embedded(d)
    BY <1>3, <1>6 DEF BatchKeepsUp
  <2>3. \A d \in ids : text[d] # 0
    BY <2>1 DEF StagesInStep, Late
  <2> HIDE DEF ids
  <2>4. \/ work'[b] = work[b] /\ at'[b] \in {at[b], "none", "load"} \cup Returned
        \/ at'[b] = "none"
        \/ ReadInputs(b) \/ UpsertVectors(b) \/ BuildEmbedded(b) \/ SubmitEmbedded(b)
    BY <1>1, WorkMoves
  <2>5. at'[b] \in {"vectors", "submit"} => DOMAIN work'[b].docs = ids
    <3>1. CASE ReadInputs(b)
      <4>1. work'[b].docs = Inputs(ids)
        BY <1>1, <3>1 DEF ReadInputs, Work, ids
      <4> QED
        BY <2>3, <4>1 DEF Inputs
    <3>2. CASE BuildEmbedded(b)
      <4>1. work'[b].docs = Built(ids)
        BY <1>1, <3>2 DEF BuildEmbedded, Work, ids
      <4> QED
        BY <2>3, <4>1 DEF Built, Documents
    <3>3. CASE UpsertVectors(b) \/ SubmitEmbedded(b)
      BY <1>1, <3>3 DEF UpsertVectors, SubmitEmbedded, Submits, HandlerStep
    <3> QED
      BY <2>2, <2>4, <3>1, <3>2, <3>3 DEF Returned
  <2>6. ASSUME at'[b] \in {"build", "submit"}, NEW d \in ids PROVE vector'[d] = text'[d]
    <3>1. CASE UpsertVectors(b)
      <4>1. /\ at[b] = "vectors"
            /\ vector' = [e \in Docs |-> IF e \in DOMAIN work[b].docs THEN work[b].docs[e] ELSE vector[e]]
        BY <3>1 DEF UpsertVectors, HandlerStep
      <4>2. d \in Docs /\ d \in DOMAIN work[b].docs
        BY <1>1, <2>1, <2>2, <4>1
      <4>3. work[b].docs[d] = text[d]
        BY <1>1, <4>1, <4>2 DEF Fresh
      <4> QED
        BY <2>1, <4>1, <4>2, <4>3
    <3>2. CASE ~UpsertVectors(b)
      <4>1. at[b] \in {"build", "submit"}
        <5>1. ReadInputs(b) => at'[b] = "vectors"
          BY <1>1 DEF ReadInputs, HandlerStep
        <5>2. BuildEmbedded(b) => at[b] = "build"
          BY DEF BuildEmbedded, HandlerStep
        <5>3. SubmitEmbedded(b) => at[b] = "submit"
          BY DEF SubmitEmbedded, Submits, HandlerStep
        <5> QED
          BY <2>4, <2>6, <3>2, <5>1, <5>2, <5>3 DEF Returned
      <4>2. ASSUME NEW c \in Batches, UpsertVectors(c) PROVE FALSE
        <5>1. at[c] = "vectors"
          BY <4>2 DEF UpsertVectors, HandlerStep
        <5> QED
          BY <1>1, <4>1, <5>1, Alone
      <4> QED
        BY <2>1, <2>2, <4>1, <4>2, RowMoves
    <3> QED
      BY <3>1, <3>2
  <2>7. ASSUME at'[b] = "success" \/ job'[b] = "succeeded", NEW d \in ids PROVE Embedded(d)'
    <3>1. d \in Docs
      BY <1>1, <2>1
    <3>2. CASE at[b] = "success" \/ job[b] = "succeeded"
      BY <2>1, <2>2, <3>1, <3>2, EmbeddedStays
    <3>3. CASE at[b] # "success" /\ job[b] # "succeeded"
      <4>1. SubmitEmbedded(b)
        BY <1>1, <2>7, <3>3, SucceedsAfterSuccess, ReturnsSuccess
      <4>2. at[b] = "submit" /\ Submit(work[b].docs) /\ vector' = vector
        BY <4>1 DEF SubmitEmbedded, Submits, HandlerStep
      <4>3. d \in DOMAIN work[b].docs /\ vector[d] = text[d]
        BY <2>2, <4>2
      <4>4. work[b].docs[d].text = text[d] /\ work[b].docs[d].vector = vector[d]
        BY <1>1, <4>2, <4>3 DEF Fresh
      <4>5. index'[d] = work[b].docs[d]
        BY <3>1, <4>2, <4>3 DEF Submit
      <4> QED
        BY <2>1, <4>2, <4>3, <4>4, <4>5 DEF Embedded
    <3> QED
      BY <3>2, <3>3
  <2>8. batch'[b].ids = ids
    BY <1>6 DEF ids
  <2> QED
    BY <1>4, <2>1, <2>5, <2>6, <2>7, <2>8 DEF BatchKeepsUp
<1>7. CASE batch'[b].source # Embedding
  BY <1>4, <1>7 DEF BatchKeepsUp
<1> QED
  BY <1>5, <1>6, <1>7

LEMMA HasBatchStays ==
  ASSUME TypeInv, [Next]_vars, NEW i \in {1, 2}, HasBatch(i)
  PROVE  HasBatch(i)'
<1> SUFFICES ASSUME Changed \cap Scope(i) # {}
             PROVE  \E b \in Batches : batch'[b] = [source |-> Embedding, ids |-> Changed \cap Scope(i)]
  BY DEF HasBatch
<1>1. PICK b \in Batches : batch[b] = [source |-> Embedding, ids |-> Changed \cap Scope(i)]
  BY DEF HasBatch
<1>2. batch[b].source # 0
  BY <1>1, JobSets
<1>3. batch'[b] = batch[b]
  BY <1>2, BatchRowMoves
<1> QED
  BY <1>1, <1>3

LEMMA HasBatchComes ==
  ASSUME TypeInv, NEW i \in {1, 2}, EmbedChanged(i)
  PROVE  HasBatch(i)'
<1> DEFINE ids == Changed \cap Scope(i)
<1> SUFFICES ASSUME ids # {} PROVE \E b \in Batches : batch'[b] = [source |-> Embedding, ids |-> ids]
  BY DEF HasBatch
<1>1. EnqueueBatch(Embedding, ids)
  BY DEF EmbedChanged
<1> HIDE DEF ids
<1>2. \/ UNCHANGED <<batch, job>> /\ \E b \in Batches : batch[b] = [source |-> Embedding, ids |-> ids]
      \/ \E b \in Batches : /\ batch[b].source = 0 /\ job[b] = "none"
                            /\ batch' = [batch EXCEPT ![b] = [source |-> Embedding, ids |-> ids]]
                            /\ job' = [job EXCEPT ![b] = "waiting"]
  BY <1>1, EnqueueBatchIs
<1>3. batch = [b \in Batches |-> batch[b]]
  BY DEF TypeInv, DocsTypeOK
<1> QED
  BY <1>2, <1>3

LEMMA MadeStep ==
  ASSUME TypeInv, BatchesMade, [Next]_vars
  PROVE  BatchesMade'
<1>1. Embedding \in Jobs \ Runs /\ Embedding # Threading /\ Embedding # Lexical /\ Embedding \notin Batches
  BY JobSets
<1>2. EmbedChanged(2) => at[Embedding] = "embed_series" /\ HasBatch(2)'
  BY HasBatchComes DEF EmbedChanged, HandlerStep
<1>3. at'[Embedding] = "success" => at[Embedding] = "success" \/ EmbedChanged(2)
  BY <1>1, ReturnsSuccess
<1>4. job'[Embedding] = "succeeded" => job[Embedding] = "succeeded" \/ at[Embedding] = "success"
  BY <1>1, SucceedsAfterSuccess
<1>5. at'[Embedding] = "embed_series" => at[Embedding] = "embed_series" \/ HasBatch(1)'
  <2>1. EmbedChanged(1) => HasBatch(1)'
    BY HasBatchComes
  <2> QED
    BY <1>1, <1>2, <2>1, WorkMoves DEF Returned
<1>6. /\ HasBatch(1) => HasBatch(1)'
      /\ HasBatch(2) => HasBatch(2)'
  BY HasBatchStays
<1> QED
  BY <1>2, <1>3, <1>4, <1>5, <1>6 DEF BatchesMade

LEMMA IndexStep ==
  ASSUME TypeInv, OneTask, IndexInv, [Next]_vars
  PROVE  IndexInv'
<1> SUFFICES ASSUME slots = 1
             PROVE  Fresh' /\ StagesInStep' /\ TextsKeepUp' /\ BatchesKeepUp' /\ BatchesMade'
  BY SetupKept DEF IndexInv
<1>1. Fresh /\ StagesInStep /\ TextsKeepUp /\ BatchesKeepUp /\ BatchesMade
  BY DEF IndexInv
<1> QED
  BY <1>1, FreshStep, StagesStep, TextsStep, BatchesStep, MadeStep

LEMMA IndexFromStart ==
  ASSUME Init
  PROVE  IndexInv
<1>1. /\ \A j \in Jobs : job[j] = "none" /\ at[j] = "none"
      /\ pipeline = "none" /\ \A b \in Batches : batch[b].source = 0
      /\ \A d \in Docs : index[d].text = 0
  BY DEF Init, ControlInit, DocsInit, NoBatch, NoDoc
<1>2. Lexical \in Jobs /\ Embedding \in Jobs /\ Embedding # 0 /\ Batches \subseteq Jobs
  BY JobSets
<1> QED
  BY <1>1, <1>2
     DEF IndexInv, Fresh, StagesInStep, TextsKeepUp, TextKeepsUp, BatchesKeepUp, BatchKeepsUp, BatchesMade

\* Once all is quiet no document in the index is older than its rows, and what the pipeline
\* changed is there with a vector made of the change: whichever of the lexical stage, the
\* batches, a bootstrap and a backfill wrote a document last, after whatever faults, retries
\* and cancel requests.
THEOREM IndexIsCurrent == Spec => []IndexCurrent
<1>1. TypeInv /\ IndexInv => IndexCurrent
  <2> SUFFICES ASSUME TypeInv, Fresh, StagesInStep, TextsKeepUp, BatchesKeepUp, BatchesMade,
                      Quiet, NEW d \in Docs
               PROVE  /\ index[d].text \in {0, text[d]}
                      /\ (d \in Changed /\ job[Embedding] = "succeeded") =>
                           index[d] = [text |-> text[d], vector |-> text[d]]
    BY DEF IndexCurrent, IndexInv
  <2>1. /\ Lexical \in Jobs /\ Embedding \in Jobs /\ Embedding # 0 /\ Batches \subseteq Jobs
        /\ index[d] \in DocRow /\ \A j \in Jobs : job[j] \in JobState
    BY JobSets DEF TypeInv, DocsTypeOK, ControlTypeOK, JobState
  <2>2. \A j \in {Lexical} \cup Batches : job[j] \in {"none", "succeeded"}
    BY <2>1 DEF Quiet, JobState
  <2>3. index[d].text \in {0, text[d]}
    BY <2>2 DEF TextsKeepUp, TextKeepsUp, StagesInStep
  <2>4. ASSUME d \in Changed, job[Embedding] = "succeeded"
        PROVE  index[d] = [text |-> text[d], vector |-> text[d]]
    <3>1. PICK i \in {1, 2} : d \in Changed \cap Scope(i)
      BY <2>4, DocAssumption DEF Scope, Docs
    <3>2. HasBatch(i)
      BY <2>4, <3>1 DEF BatchesMade
    <3>3. PICK b \in Batches : batch[b] = [source |-> Embedding, ids |-> Changed \cap Scope(i)]
      BY <3>1, <3>2 DEF HasBatch
    <3>4. job[b] = "succeeded"
      BY <2>1, <2>2, <3>3 DEF BatchesKeepUp, BatchKeepsUp
    <3>5. Embedded(d)
      BY <3>1, <3>3, <3>4 DEF BatchesKeepUp, BatchKeepsUp
    <3> QED
      BY <2>1, <3>5 DEF Embedded, DocRow
  <2> QED
    BY <2>3, <2>4
<1>2. TypeInv /\ OneTask /\ IndexInv /\ [Next]_vars => IndexInv'
  BY IndexStep
<1>3. TypeInv /\ OneTask /\ [Next]_vars => OneTask'
  BY OneTaskStep
<1>4. Init => TypeInv /\ OneTask /\ IndexInv
  BY TypesFromStart, OneSlotFromStart, IndexFromStart
<1> QED
  BY <1>1, <1>2, <1>3, <1>4, TypeInvHolds, PTL DEF Spec

-----------------------------------------------------------------------------
(* What the rollups of a scan are made of. *)

\* A series is summed up by the matches of its patches and their tags.
LEMMA SummaryKept ==
  ASSUME NEW s \in Series,
         \A v \in DOMAIN Versions[s] : \A p \in Versions[s][v] :
           /\ matches'[p] = matches[p]
           /\ matches[p] # NoCommit => commitTag'[matches[p]] = commitTag[matches[p]]
  PROVE  Summary(s)' = Summary(s)
<1> DEFINE V == DOMAIN Versions[s]
<1>1. ASSUME NEW v \in V
      PROVE  /\ Merged(Versions[s][v])' = Merged(Versions[s][v])
             /\ MergeState(Versions[s][v])' = MergeState(Versions[s][v])
             /\ MergedIn(Versions[s][v])' = MergedIn(Versions[s][v])
  <2> DEFINE items == Versions[s][v]
             tags == {commitTag[matches[p]] : p \in Merged(items)}
             newTags == {commitTag'[matches'[p]] : p \in Merged(items)'}
  <2>1. \A p \in items : /\ matches'[p] = matches[p]
                         /\ matches[p] # NoCommit => commitTag'[matches[p]] = commitTag[matches[p]]
    OBVIOUS
  <2> HIDE DEF items
  <2>2. Merged(items)' = Merged(items)
    BY <2>1 DEF Merged
  <2>3. \A p \in Merged(items) : commitTag'[matches'[p]] = commitTag[matches[p]]
    BY <2>1 DEF Merged
  <2>4. newTags = tags
    <3> DEFINE M == Merged(items)
    <3>1. newTags = {commitTag'[matches'[p]] : p \in M}
      BY <2>2
    <3> HIDE DEF M
    <3>2. {commitTag'[matches'[p]] : p \in M} = {commitTag[matches[p]] : p \in M}
      BY <2>3 DEF M
    <3> QED
      BY <3>1, <3>2 DEF M
  <2>5. MergedIn(items)' = Max({NoTag} \cup newTags) /\ MergedIn(items) = Max({NoTag} \cup tags)
    BY DEF MergedIn
  <2>6. MergedIn(items)' = MergedIn(items)
    <3> HIDE DEF newTags, tags
    <3> QED
      BY <2>4, <2>5
  <2>7. MergeState(items)' = MergeState(items)
    BY <2>2 DEF MergeState
  <2> QED
    BY <2>2, <2>6, <2>7 DEF items
<1> DEFINE size(v) == <<Cardinality(Merged(Versions[s][v])), Cardinality(Versions[s][v])>>
           sizeNew(v) == <<Cardinality(Merged(Versions[s][v])'), Cardinality(Versions[s][v])>>
           below(v, w) == \/ size(v)[1] < size(w)[1]
                          \/ size(v)[1] = size(w)[1] /\ size(v)[2] < size(w)[2]
                          \/ size(v) = size(w) /\ v =< w
           belowNew(v, w) == \/ sizeNew(v)[1] < sizeNew(w)[1]
                             \/ sizeNew(v)[1] = sizeNew(w)[1] /\ sizeNew(v)[2] < sizeNew(w)[2]
                             \/ sizeNew(v) = sizeNew(w) /\ v =< w
           merged == {v \in V : MergeState(Versions[s][v]) = "merged"}
           mergedNew == {v \in V : MergeState(Versions[s][v])' = "merged"}
           partial == {v \in V : MergeState(Versions[s][v]) = "partial"}
           partialNew == {v \in V : MergeState(Versions[s][v])' = "partial"}
<1>2. mergedNew = merged /\ partialNew = partial
  BY <1>1
<1>3. \A v, w \in V : belowNew(v, w) <=> below(v, w)
  BY <1>1
<1>4. /\ Chosen(s) = IF merged # {} THEN Max(merged)
                     ELSE IF partial # {} THEN CHOOSE w \in partial : \A v \in partial : below(v, w)
                     ELSE Max(V)
      /\ Chosen(s)' = IF mergedNew # {} THEN Max(mergedNew)
                      ELSE IF partialNew # {} THEN CHOOSE w \in partialNew : \A v \in partialNew : belowNew(v, w)
                      ELSE Max(V)
  BY DEF Chosen
<1>5. Chosen(s)' = Chosen(s)
  <2> DEFINE top == CHOOSE w \in partial : \A v \in partial : below(v, w)
             topNew == CHOOSE w \in partialNew : \A v \in partialNew : belowNew(v, w)
  <2>1. topNew = top
    <3>1. partial \subseteq V
      OBVIOUS
    <3> HIDE DEF partial, partialNew, below, belowNew, V
    <3>2. topNew = CHOOSE w \in partial : \A v \in partial : belowNew(v, w)
      BY <1>2
    <3>3. \A w \in partial : (\A v \in partial : belowNew(v, w)) <=> (\A v \in partial : below(v, w))
      BY <1>3, <3>1
    <3>4. (CHOOSE w \in partial : \A v \in partial : belowNew(v, w)) = top
      BY <3>3
    <3> QED
      BY <3>2, <3>4
  <2>2. /\ Chosen(s) = IF merged # {} THEN Max(merged) ELSE IF partial # {} THEN top ELSE Max(V)
        /\ Chosen(s)' = IF mergedNew # {} THEN Max(mergedNew) ELSE IF partialNew # {} THEN topNew ELSE Max(V)
    BY <1>4
  <2> HIDE DEF partial, partialNew, merged, mergedNew, top, topNew, V
  <2> QED
    BY <1>2, <2>1, <2>2
<1>6. PICK c \in V : Chosen(s) = c /\ Chosen(s)' = c
  BY <1>5, ChosenIn
<1> QED
  BY <1>1, <1>6 DEF Summary

\* A step of a scan but its first and its last.
Scans(r) == \/ EnsureState(r) \/ Unready(r) \/ Prepare(r) \/ Resolve(r) \/ UpsertCommits(r)
            \/ UnsetCanonical(r) \/ InsertMatches(r) \/ SaveChunk(r) \/ SumUp(r) \/ WriteRollup(r)
            \/ Publish(r) \/ MarkState(r)

\* A run keeps the mode it was created with.
LEMMA ModeKept ==
  ASSUME TypeInv, [Next]_vars, NEW r \in Runs, runs[r].state # "absent"
  PROVE  runs'[r].mode = runs[r].mode
<1>1. runs \in [Runs -> RunRow]
  BY DEF TypeInv, ControlTypeOK, RunRow
<1>2. ASSUME NEW q, NEW s, Mark(q, s) PROVE runs'[r].mode = runs[r].mode
  BY <1>1, <1>2 DEF Mark, RunRow
<1>3. ASSUME NEW p \in Posters, Create(p) PROVE runs'[r].mode = runs[r].mode
  <2> DEFINE s == IF kind = "backfill" THEN "running" ELSE "queued"
             m == poster[p].mode
  <2>1. PICK q \in Runs : q # r /\ runs' = [runs EXCEPT ![q].state = s, ![q].mode = m]
    BY <1>3, NewRunIsNew
  <2> HIDE DEF s, m
  <2> QED
    BY <1>1, <2>1
<1>4. ASSUME NEW p \in Posters, Bind(p) PROVE runs'[r].mode = runs[r].mode
  BY <1>1, <1>4 DEF Bind, RunRow
<1>5. ASSUME NEW j \in Jobs, Handles(j) PROVE runs'[r].mode = runs[r].mode
  <2>1. CASE MovesCursor(j)
    BY <1>1, <2>1 DEF MovesCursor, RunRow
  <2> QED
    BY <1>2, <1>5, <2>1 DEF Handles, MarksRun
<1> QED
  BY ControlMoves, <1>2, <1>3, <1>4, <1>5
     DEF Check, EnqueueRun, EnqueueFails, PosterLost,
         CancelLost, CancelJob, CancelMark, CancelRead, CancelDirect, Claim, Finalize, Sweep,
         PipelineStarts, controlVars

\* A scan goes on with a step of its own, or it is cancelled, refused or breaks off.
LEMMA ScanGoesOn ==
  ASSUME TypeInv, [Next]_vars, kind = "mainline", NEW r \in Runs,
         at[r] \in RunSteps \ {"run_done"}, at'[r] # at[r]
  PROVE  Scans(r) \/ ScanCancelled(r) \/ ScanBreaks(r) \/ InsertRefused(r)
<1> DEFINE P == Scans(r) \/ ScanCancelled(r) \/ ScanBreaks(r) \/ InsertRefused(r)
<1>1. /\ at = [j \in Jobs |-> at[j]] /\ r \in Jobs /\ job[r] = "running"
      /\ at[r] \notin {"none", "load", "run_done"} \cup Returned
  BY JobSets DEF TypeInv, AtTypes, JobsInStep, RunSteps, Returned
<1>2. ASSUME NEW j, j # r, NEW s, at' = [at EXCEPT ![j] = s] PROVE FALSE
  BY <1>1, <1>2
<1>3. ASSUME UNCHANGED at PROVE FALSE
  BY <1>3
<1> SUFFICES P
  OBVIOUS
<1> HIDE DEF P
<1>4. ASSUME NEW p \in Posters, Start(p) \/ Request(p) PROVE FALSE
  BY <1>3, <1>4 DEF Start, Request, Check, Create, EnqueueRun, Bind, jobVars
<1>5. CASE RequestBreaks \/ Cancelling
  BY <1>3, <1>5 DEF RequestBreaks, Cancelling, EnqueueFails, PosterLost, CancelLost, CancelRead, CancelJob,
                    CancelMark, CancelDirect, jobVars
<1>6. CASE Claims
  <2>1. PICK j \in Jobs : Claim(j)
    BY <1>6 DEF Claims
  <2> DEFINE s == IF cancel[j] THEN "cancelled" ELSE "load"
  <2>2. j # r /\ at' = [at EXCEPT ![j] = s]
    BY <1>1, <2>1 DEF Claim
  <2> QED
    BY <1>2, <2>2
<1>7. ASSUME NEW j \in Jobs, Ends(j) PROVE FALSE
  BY <1>1, <1>2, <1>3, <1>7 DEF Ends, Finalize, Sweep
<1>8. ASSUME NEW j \in Jobs, Broken(j) PROVE P
  <2>1. CASE Refuse(j)
    BY <1>1, <1>2, <2>1 DEF Refuse
  <2>2. CASE j \in Runs /\ ScanBreaks(j)
    <3> DEFINE s == IF at[j] \in Returned THEN "none" ELSE "retryable"
    <3>1. at' = [at EXCEPT ![j] = s]
      BY <2>2 DEF ScanBreaks, Breaks
    <3> HIDE DEF s
    <3>2. j = r
      BY <1>2, <3>1
    <3> QED
      BY <2>2, <3>2 DEF P
  <2> QED
    BY <1>8, <2>1, <2>2 DEF Broken
<1>9. CASE Fetch \/ UNCHANGED vars
  BY <1>3, <1>9 DEF Fetch, vars, controlVars, jobVars
<1>10. ASSUME NEW j \in Jobs, Handle(j) PROVE P
  <2>1. CASE SkipRun(j)
    BY <1>1, <1>2, <2>1 DEF SkipRun, HandlerStep
  <2>2. CASE j \in Batches /\ BatchStep(j)
    <3>1. j # r /\ \E s : at' = [at EXCEPT ![j] = s]
      BY <2>2, JobSets DEF BatchStep, ReadInputs, UpsertVectors, BuildEmbedded, SubmitEmbedded, Submits,
                           StopForCancel, HandlerStep
    <3> QED
      BY <1>2, <3>1
  <2>3. CASE j \in Runs /\ ScanStep(j)
    <3>1. \E s : at' = [at EXCEPT ![j] = s]
      BY <2>3
         DEF ScanStep, LoadScan, EnsureState, Unready, Prepare, Resolve, UpsertCommits, UnsetCanonical,
             InsertMatches, InsertRefused, SaveChunk, SumUp, WriteRollup, Publish, MarkState, ScanSucceeds, ScanCancelled,
             LoadRun, Succeed, StopForCancel, HandlerStep
    <3>2. j = r
      BY <1>2, <3>1
    <3>3. ~LoadScan(r) /\ ~ScanSucceeds(r)
      BY <1>1 DEF LoadScan, LoadRun, ScanSucceeds, Succeed, HandlerStep
    <3> QED
      BY <2>3, <3>2, <3>3 DEF ScanStep, Scans, P
  <2> QED
    BY <1>10, <2>1, <2>2, <2>3 DEF Handle, BootstrapStep, BackfillStep
<1> QED
  BY <1>4, <1>5, <1>6, <1>7, <1>8, <1>9, <1>10 DEF Next, Pipeline

\* The rollup of a series and its document are as its matches have it.
Agrees(s) == rollup[s] = Summary(s) /\ published[s] = rollup[s]

\* The steps of a scan over its chunks, and those over the series it matched.
Matchings == {"chunk", "commits", "matches", "insert", "save"}
Rollings == {"sum", "rollup", "publish"}

\* The series whose rollup a scan has still to write, because of matches it wrote.
Owed(r) == IF at[r] \in Matchings THEN scan[r].affected
           ELSE IF at[r] \in Rollings THEN scan[r].left ELSE {}

\* A series that is behind while the filter is open is one a scan still owes a rollup.
ReadyAgrees == state.ready => \A s \in Series \ lost : Agrees(s) \/ \E r \in Runs : s \in Owed(r)

\* A bootstrap works behind closed doors and sums up every series; an incremental scan opens
\* the filter only if it was open; and what a scan has read is still so when it writes.
ScanAgrees(r) ==
  /\ runs[r].mode = "bootstrap" =>
       /\ at[r] \in {"prepare", "state_done"} \cup Matchings \cup Rollings => ~state.ready
       /\ at[r] \in {"state_done"} \cup Rollings => \A s \in Series : Agrees(s) \/ s \in Owed(r)
  /\ /\ runs[r].mode = "incremental" /\ scan[r].ready
     /\ at[r] \in {"prepare", "state_done"} \cup Matchings \cup Rollings
     => state.ready
  /\ at[r] = "unready" => runs[r].mode = "bootstrap"
  /\ at[r] = "rollup" => scan[r].sum = Summary(Min(scan[r].left))
  /\ at[r] = "publish" => rollup[Min(scan[r].left)] = Summary(Min(scan[r].left))
  /\ at[r] \in {"commits", "matches", "insert"} => scan[r].found = NewMatches(Chunk(r))

\* A commit is given to all the patches it matches at once: those it left out had theirs.
MatchedWhole == \A p \in Items : matches[p] # NoCommit => \A q \in Matching(matches[p]) : matches[q] # NoCommit

\* The inductive invariant.
RollupInv ==
  slots = 1 => /\ kind # "mainline" => ~state.ready
               /\ kind = "mainline" => ReadyAgrees /\ (\A r \in Runs : ScanAgrees(r)) /\ MatchedWhole

\* The part of it one scan answers for while it is in execution.
Answers(r) == /\ state.ready => \A s \in Series \ lost : Agrees(s) \/ s \in Owed(r)
              /\ ScanAgrees(r) /\ MatchedWhole

LEMMA VersionsIn ==
  ASSUME NEW s \in Series, NEW v \in DOMAIN Versions[s]
  PROVE  Versions[s][v] \subseteq Items
<1>1. Versions[s] \in Seq(SUBSET Items)
  BY SeriesAssumption
<1> QED
  BY <1>1

\* Where no match and no tag changes, no series is summed up otherwise.
LEMMA SummariesKept ==
  ASSUME UNCHANGED <<history, matches, commitTag>>
  PROVE  /\ \A s \in Series : Summary(s)' = Summary(s)
         /\ MatchedWhole => MatchedWhole'
<1>1. \A s \in Series : Summary(s)' = Summary(s)
  BY SummaryKept
<1>2. \A c : Matching(c)' = Matching(c)
  BY DEF Matching, LinkMatches, PatchIdMatches, Commit
<1> QED
  BY <1>1, <1>2 DEF MatchedWhole

LEMMA AgreesKept ==
  ASSUME UNCHANGED <<history, matches, commitTag, rollup, published>>
  PROVE  \A s \in Series : /\ Agrees(s)' <=> Agrees(s)
                           /\ Summary(s)' = Summary(s)
BY SummariesKept DEF Agrees

LEMMA FieldsOf ==
  ASSUME TypeInv, NEW r \in Runs
  PROVE  /\ at = [j \in Jobs |-> at[j]] /\ r \in Jobs /\ scan \in [Runs -> ScanRow]
         /\ runs \in [Runs -> RunRow] /\ runs[r].mode \in {"bootstrap", "incremental"}
         /\ state = [head |-> state.head, last |-> state.last, ready |-> state.ready,
                     bootstrapped |-> state.bootstrapped]
BY JobSets DEF TypeInv, AtTypes, ScanTypeOK, ControlTypeOK, RunRow

\* The steps before the chunks.
LEMMA BeginsAnswer ==
  ASSUME TypeInv, NEW r \in Runs, Answers(r), runs'[r].mode = runs[r].mode,
         EnsureState(r) \/ Unready(r) \/ Prepare(r)
  PROVE  Answers(r)'
<1> USE DEF Matchings, Rollings
<1>1. /\ at = [j \in Jobs |-> at[j]] /\ r \in Jobs /\ scan \in [Runs -> ScanRow]
      /\ runs[r].mode \in {"bootstrap", "incremental"}
      /\ state = [head |-> state.head, last |-> state.last, ready |-> state.ready,
                  bootstrapped |-> state.bootstrapped]
  BY FieldsOf
<1>2. UNCHANGED <<history, matches, commitTag, rollup, published, lost>>
  BY DEF EnsureState, Unready, Prepare, repoVars, tableVars
<1>3. /\ \A s \in Series : Agrees(s)' <=> Agrees(s)
      /\ MatchedWhole'
  BY <1>2, AgreesKept, SummariesKept DEF Answers
<1>4. Owed(r) = {}
  BY DEF Owed, EnsureState, Unready, Prepare, HandlerStep
<1>5. CASE EnsureState(r)
  <2>1. at[r] = "state" /\ at'[r] = IF runs[r].mode = "bootstrap" THEN "unready" ELSE "prepare"
    BY <1>1, <1>5 DEF EnsureState, HandlerStep
  <2>2. scan'[r].ready = state.ready /\ UNCHANGED state
    BY <1>1, <1>5 DEF EnsureState, ScanRow, tableVars
  <2>3. Owed(r)' = {}
    BY <1>1, <2>1 DEF Owed
  <2> QED
    BY <1>1, <1>2, <1>3, <1>4, <2>1, <2>2, <2>3 DEF Answers, ScanAgrees
<1>6. CASE Unready(r)
  <2>1. at[r] = "unready" /\ at'[r] = "prepare" /\ ~state'.ready /\ runs[r].mode = "bootstrap"
    BY <1>1, <1>6 DEF Unready, HandlerStep, Answers, ScanAgrees
  <2> QED
    BY <1>3, <2>1 DEF Answers, ScanAgrees
<1>7. CASE Prepare(r)
  <2> DEFINE todo == Walk(history.steps[step].head, Since(r))
             last == IF runs[r].cursor[1] # NoCommit THEN runs[r].cursor[1] ELSE scan[r].last
             left == IF todo = <<>> THEN ToRollUp(r, {}) ELSE {}
  <2>0. /\ at[r] = "prepare" /\ at' = [at EXCEPT ![r] = AfterChunks(todo, left)]
        /\ scan' = [scan EXCEPT ![r].step = step, ![r].todo = todo, ![r].affected = {}, ![r].left = left,
                                ![r].last = last]
        /\ UNCHANGED state
    BY <1>7 DEF Prepare, HandlerStep, tableVars
  <2> HIDE DEF todo, last
  <2>1. /\ at[r] = "prepare" /\ at'[r] = AfterChunks(todo, left)
        /\ scan'[r].affected = {} /\ scan'[r].left = left
        /\ scan'[r].ready = scan[r].ready
        /\ UNCHANGED state
    <3> HIDE DEF left
    <3> QED
      BY <1>1, <2>0 DEF ScanRow
  <2>2. \/ at'[r] = "chunk" /\ Owed(r)' = {}
        \/ at'[r] = "sum" /\ Owed(r)' = left
        \/ at'[r] = "state_done" /\ left = {} /\ Owed(r)' = {}
    BY <2>1 DEF AfterChunks, Owed
  <2>3. at'[r] # "chunk" => left = IF runs[r].mode = "bootstrap" THEN Series ELSE {}
    BY <2>1, <2>2 DEF AfterChunks, ToRollUp
  <2> HIDE DEF left
  <2>4. /\ runs[r].mode = "bootstrap" => ~state.ready
        /\ runs[r].mode = "incremental" /\ scan[r].ready => state.ready
        /\ state.ready => \A s \in Series \ lost : Agrees(s)
    BY <1>4, <2>1 DEF Answers, ScanAgrees
  <2> QED
    BY <1>1, <1>2, <1>3, <2>1, <2>2, <2>3, <2>4 DEF Answers, ScanAgrees
<1> QED
  BY <1>5, <1>6, <1>7

\* The steps that list what a chunk matches, and take the next one.
LEMMA ChunksAnswer ==
  ASSUME TypeInv, NEW r \in Runs, Answers(r), runs'[r].mode = runs[r].mode,
         Resolve(r) \/ SaveChunk(r)
  PROVE  Answers(r)'
<1> USE DEF Matchings, Rollings
<1>1. /\ at = [j \in Jobs |-> at[j]] /\ r \in Jobs /\ scan \in [Runs -> ScanRow]
      /\ runs[r].mode \in {"bootstrap", "incremental"}
  BY FieldsOf
<1>2. UNCHANGED <<history, matches, commitTag, rollup, published, lost, state>>
  BY DEF Resolve, SaveChunk, repoVars, tableVars
<1>3. /\ \A s \in Series : Agrees(s)' <=> Agrees(s)
      /\ MatchedWhole'
  BY <1>2, AgreesKept, SummariesKept DEF Answers
<1>4. at[r] \in {"chunk", "save"} /\ Owed(r) = scan[r].affected
  BY DEF Owed, Resolve, SaveChunk, HandlerStep
<1>5. /\ runs[r].mode = "bootstrap" => ~state.ready
      /\ runs[r].mode = "incremental" /\ scan[r].ready => state.ready
      /\ state.ready => \A s \in Series \ lost : Agrees(s) \/ s \in scan[r].affected
  BY <1>4 DEF Answers, ScanAgrees
<1>6. CASE Resolve(r)
  <2> DEFINE found == NewMatches(Chunk(r))
  <2>1. at'[r] \in {"save", "commits"} /\ scan' = [scan EXCEPT ![r].found = found]
    BY <1>1, <1>6 DEF Resolve, HandlerStep
  <2>2. found' = found
    <3>1. scan'[r].todo = scan[r].todo
      BY <1>1, <2>1 DEF ScanRow
    <3>2. Chunk(r)' = Chunk(r)
      BY <3>1 DEF Chunk
    <3>3. \A c : Matching(c)' = Matching(c)
      BY <1>2 DEF Matching, LinkMatches, PatchIdMatches, Commit
    <3> QED
      BY <1>2, <3>2, <3>3 DEF NewMatches, Older, Commit
  <2> HIDE DEF found
  <2>3. /\ scan'[r].found = found /\ scan'[r].affected = scan[r].affected /\ scan'[r].ready = scan[r].ready
    BY <1>1, <2>1 DEF ScanRow
  <2>4. Owed(r)' = scan[r].affected
    BY <2>1, <2>3 DEF Owed
  <2>5. scan'[r].found = NewMatches(Chunk(r))'
    BY <2>2, <2>3 DEF found
  <2> QED
    BY <1>1, <1>2, <1>3, <1>5, <2>1, <2>3, <2>4, <2>5 DEF Answers, ScanAgrees
<1>7. CASE SaveChunk(r)
  <2> DEFINE todo == SubSeq(scan[r].todo, Len(Chunk(r)) + 1, Len(scan[r].todo))
             last == Last(Chunk(r))
             left == IF todo = <<>> THEN ToRollUp(r, scan[r].affected) ELSE {}
  <2>0. /\ at' = [at EXCEPT ![r] = AfterChunks(todo, left)]
        /\ scan' = [scan EXCEPT ![r].todo = todo, ![r].left = left, ![r].last = last]
    BY <1>7 DEF SaveChunk, HandlerStep
  <2> HIDE DEF todo, last
  <2>1. /\ at'[r] = AfterChunks(todo, left)
        /\ scan'[r].affected = scan[r].affected /\ scan'[r].left = left
        /\ scan'[r].ready = scan[r].ready
    <3> HIDE DEF left
    <3> QED
      BY <1>1, <2>0 DEF ScanRow
  <2>2. \/ at'[r] = "chunk" /\ Owed(r)' = scan[r].affected
        \/ at'[r] = "sum" /\ Owed(r)' = left
        \/ at'[r] = "state_done" /\ left = {} /\ Owed(r)' = {}
    BY <2>1 DEF AfterChunks, Owed
  <2>3. at'[r] # "chunk" => left = IF runs[r].mode = "bootstrap" THEN Series ELSE scan[r].affected
    BY <2>1, <2>2 DEF AfterChunks, ToRollUp
  <2> HIDE DEF left
  <2> QED
    BY <1>1, <1>2, <1>3, <1>5, <2>1, <2>2, <2>3 DEF Answers, ScanAgrees
<1> QED
  BY <1>6, <1>7

\* The rollups, and the end of a scan.
LEMMA RollupsAnswer ==
  ASSUME TypeInv, NEW r \in Runs, Answers(r), runs'[r].mode = runs[r].mode, kind = "mainline",
         SumUp(r) \/ WriteRollup(r) \/ Publish(r) \/ MarkState(r)
  PROVE  Answers(r)'
<1> USE DEF Matchings, Rollings
<1>1. /\ at = [j \in Jobs |-> at[j]] /\ r \in Jobs /\ scan \in [Runs -> ScanRow]
      /\ runs[r].mode \in {"bootstrap", "incremental"}
      /\ rollup = [s \in Series |-> rollup[s]] /\ published = [s \in Series |-> published[s]]
  BY FieldsOf DEF TypeInv, ScanTypeOK
<1>2. UNCHANGED <<history, matches, commitTag>>
  BY DEF SumUp, WriteRollup, Publish, MarkState, repoVars, tableVars
<1>3. /\ \A s \in Series : Summary(s)' = Summary(s)
      /\ MatchedWhole'
  BY <1>2, SummariesKept DEF Answers
<1>4. at[r] \in {"sum", "rollup", "publish", "state_done"}
      /\ Owed(r) = IF at[r] = "state_done" THEN {} ELSE scan[r].left
  BY DEF Owed, SumUp, WriteRollup, Publish, MarkState, HandlerStep
<1>5. /\ runs[r].mode = "bootstrap" => ~state.ready
      /\ runs[r].mode = "incremental" /\ scan[r].ready => state.ready
      /\ runs[r].mode = "bootstrap" => \A s \in Series : Agrees(s) \/ s \in Owed(r)
      /\ state.ready => \A s \in Series \ lost : Agrees(s) \/ s \in Owed(r)
  BY <1>4 DEF Answers, ScanAgrees
<1>6. at[r] # "state_done" => Min(scan[r].left) \in scan[r].left /\ scan[r].left \subseteq Series
  BY <1>4, SumsUp
<1>7. CASE SumUp(r)
  <2> DEFINE sum == Summary(Min(scan[r].left))
  <2>1. at[r] = "sum" /\ at'[r] = "rollup" /\ scan' = [scan EXCEPT ![r].sum = sum]
        /\ UNCHANGED <<rollup, published, state, lost>>
    BY <1>1, <1>7 DEF SumUp, HandlerStep, tableVars
  <2> HIDE DEF sum
  <2>2. scan'[r].sum = sum /\ scan'[r].left = scan[r].left /\ scan'[r].ready = scan[r].ready
    BY <1>1, <2>1 DEF ScanRow
  <2>3. Owed(r)' = Owed(r)
    BY <1>4, <2>1, <2>2 DEF Owed
  <2>4. \A s \in Series : Agrees(s)' <=> Agrees(s)
    BY <1>3, <2>1 DEF Agrees
  <2>5. Summary(Min(scan[r].left))' = sum
    BY <1>3, <1>6, <2>1, <2>2 DEF sum
  <2> QED
    BY <1>1, <1>3, <1>5, <2>1, <2>2, <2>3, <2>4, <2>5 DEF Answers, ScanAgrees
<1>8. CASE WriteRollup(r)
  <2>1. at[r] = "rollup" /\ at'[r] = "publish" /\ UNCHANGED <<published, state, lost>>
    BY <1>1, <1>8 DEF WriteRollup, HandlerStep
  <2>2. PICK m \in Series : /\ m = Min(scan[r].left) /\ m \in scan[r].left
                            /\ scan[r].sum = Summary(m)
    BY <1>6, <2>1 DEF Answers, ScanAgrees
  <2>3. rollup' = [rollup EXCEPT ![m] = scan[r].sum] /\ scan' = [scan EXCEPT ![r].sum = NoSummary]
    BY <1>8, <2>2 DEF WriteRollup
  <2>4. scan'[r].left = scan[r].left /\ scan'[r].ready = scan[r].ready
    BY <1>1, <2>3 DEF ScanRow
  <2>5. Owed(r)' = Owed(r)
    BY <1>4, <2>1, <2>4 DEF Owed
  <2>6. \A s \in Series : s # m /\ Agrees(s) => Agrees(s)'
    BY <1>1, <1>3, <2>1, <2>3 DEF Agrees
  <2>7. rollup'[m] = Summary(m)'
    BY <1>1, <1>3, <2>2, <2>3
  <2>8. m \in Owed(r)
    BY <1>4, <2>1, <2>2
  <2>9. rollup'[Min(scan'[r].left)] = Summary(Min(scan[r].left))'
    BY <2>2, <2>4, <2>7
  <2> QED
    BY <1>1, <1>3, <1>5, <2>1, <2>4, <2>5, <2>6, <2>8, <2>9 DEF Answers, ScanAgrees
<1>9. CASE Publish(r)
  <2> DEFINE m == Min(scan[r].left)
             left == scan[r].left \ {m}
             to == IF cancel[r] THEN "retryable" ELSE IF left # {} THEN "sum" ELSE "state_done"
  <2>1. /\ at[r] = "publish" /\ at' = [at EXCEPT ![r] = to]
        /\ published' = [published EXCEPT ![m] = rollup[m]] /\ scan' = [scan EXCEPT ![r].left = left]
        /\ lost' = IF cancel[r] /\ runs[r].mode = "incremental" THEN lost \cup left ELSE lost
        /\ UNCHANGED <<rollup, state>>
    BY <1>1, <1>9 DEF Publish, HandlerStep
  <2>2. m \in scan[r].left /\ scan[r].left \subseteq Series /\ rollup[m] = Summary(m)
    BY <1>6, <2>1 DEF Answers, ScanAgrees
  <2> HIDE DEF m
  <2>3. scan'[r].left = left /\ scan'[r].ready = scan[r].ready
    <3> HIDE DEF left
    <3> QED
      BY <1>1, <2>1 DEF ScanRow
  <2>4. \A s \in Series : s = m \/ Agrees(s) => Agrees(s)'
    BY <1>1, <1>3, <2>1, <2>2 DEF Agrees
  <2>5. at'[r] = to
    BY <1>1, <2>1
  <2>6. Owed(r) = left \cup {m}
    BY <1>4, <2>1, <2>2
  <2>7. Owed(r)' = IF to = "sum" THEN left ELSE {}
    BY <2>3, <2>5 DEF Owed
  <2>8. cancel[r] \/ Owed(r)' = left
    BY <2>7
  <2>9. \A s \in Series : Agrees(s) \/ s \in Owed(r) => Agrees(s)' \/ s \in left
    BY <2>4, <2>6
  <2>10. state'.ready => \A s \in Series \ lost' : Agrees(s)' \/ s \in Owed(r)'
    BY <1>1, <1>5, <2>1, <2>8, <2>9
  <2>11. to \in {"state_done", "sum"} => \A s \in Series : (Agrees(s) \/ s \in Owed(r)) => Agrees(s)' \/ s \in Owed(r)'
    BY <2>8, <2>9
  <2>12. to \in {"retryable", "sum", "state_done"}
    OBVIOUS
  <2> HIDE DEF left, to
  <2>13. ScanAgrees(r)'
    BY <1>1, <1>5, <2>1, <2>3, <2>5, <2>11, <2>12 DEF ScanAgrees
  <2> QED
    BY <1>3, <2>10, <2>13 DEF Answers
<1>10. CASE MarkState(r)
  <2>1. /\ at[r] = "state_done" /\ at'[r] = "run_done"
        /\ state'.ready = (runs[r].mode = "bootstrap" \/ scan[r].ready)
        /\ UNCHANGED <<rollup, published, lost>>
    BY <1>1, <1>10 DEF MarkState, HandlerStep
  <2>2. \A s \in Series : Agrees(s)' <=> Agrees(s)
    BY <1>3, <2>1 DEF Agrees
  <2>3. ScanAgrees(r)'
    BY <2>1 DEF ScanAgrees
  <2> QED
    BY <1>1, <1>3, <1>4, <1>5, <2>1, <2>2, <2>3 DEF Answers
<1> QED
  BY <1>7, <1>8, <1>9, <1>10

\* What a scan found for a chunk: pairs of a patch without a commit and one of the chunk's.
LEMMA FoundIs ==
  ASSUME TypeInv, kind = "mainline", NEW r \in Runs, ScanAgrees(r),
         at[r] \in {"commits", "matches", "insert"}
  PROVE  /\ scan[r].found \subseteq Items \X Commits
         /\ \A p \in Items : \A c : <<p, c>> \in scan[r].found <=>
              /\ c \in ToSet(Chunk(r)) /\ p \in Matching(c) /\ matches[p] = NoCommit
              /\ \A d \in ToSet(Chunk(r)) : p \in Matching(d) => d = c \/ Older(c, d)
         /\ ToSet(Chunk(r)) \subseteq Commits
<1>1. scan[r].todo # <<>>
  BY DEF TypeInv, ScanInStep
<1>2. ToSet(Chunk(r)) \subseteq Commits
  BY <1>1, ChunkFacts
<1>3. scan[r].found = NewMatches(Chunk(r))
  BY DEF ScanAgrees
<1> QED
  BY <1>2, <1>3 DEF NewMatches

\* The tag of a commit that a patch has stays: what a scan found has no patch of it.
LEMMA CommitsAnswer ==
  ASSUME TypeInv, NEW r \in Runs, Answers(r), runs'[r].mode = runs[r].mode, kind = "mainline",
         UpsertCommits(r)
  PROVE  Answers(r)'
<1> USE DEF Matchings, Rollings
<1>1. /\ at = [j \in Jobs |-> at[j]] /\ r \in Jobs
      /\ matches \in [Items -> {NoCommit} \cup Commits]
      /\ runs[r].mode \in {"bootstrap", "incremental"}
  BY FieldsOf DEF TypeInv, ScanTypeOK
<1>2. /\ UNCHANGED <<history, matches, rollup, published, state, lost, scan>>
      /\ at[r] = "commits" /\ at'[r] = "matches"
  BY <1>1 DEF UpsertCommits, HandlerStep, repoVars
<1>3. \A c : Matching(c)' = Matching(c)
  BY <1>2 DEF Matching, LinkMatches, PatchIdMatches, Commit
<1>4. ASSUME NEW p \in Items, matches[p] # NoCommit
      PROVE  commitTag'[matches[p]] = commitTag[matches[p]]
  <2>1. matches[p] \in Commits
    BY <1>1, <1>4
  <2>2. ~\E q \in Items : <<q, matches[p]>> \in scan[r].found
    BY <1>2, <1>4, FoundIs DEF Answers, MatchedWhole
  <2> QED
    BY <2>1, <2>2 DEF UpsertCommits
<1>5. \A s \in Series : Agrees(s)' <=> Agrees(s)
  <2> SUFFICES ASSUME NEW s \in Series PROVE Summary(s)' = Summary(s)
    BY <1>2 DEF Agrees
  <2>1. \A v \in DOMAIN Versions[s] : \A p \in Versions[s][v] : p \in Items
    BY VersionsIn
  <2> QED
    BY <1>2, <1>4, <2>1, SummaryKept
<1>6. MatchedWhole'
  BY <1>2, <1>3 DEF Answers, MatchedWhole
<1>7. scan[r].found = NewMatches(Chunk(r)) /\ NewMatches(Chunk(r))' = NewMatches(Chunk(r))
  BY <1>2, <1>3, ZenonT(40) DEF Answers, ScanAgrees, NewMatches, Chunk, Older, Commit
<1>8. Owed(r)' = Owed(r)
  BY <1>2 DEF Owed
<1> QED
  BY <1>1, <1>2, <1>5, <1>6, <1>7, <1>8 DEF Answers, ScanAgrees

\* The patches found have no commit to take from them.
LEMMA UnsetAnswers ==
  ASSUME TypeInv, NEW r \in Runs, Answers(r), runs'[r].mode = runs[r].mode, kind = "mainline",
         UnsetCanonical(r)
  PROVE  Answers(r)'
<1> USE DEF Matchings, Rollings
<1>1. /\ at = [j \in Jobs |-> at[j]] /\ r \in Jobs
      /\ matches \in [Items -> {NoCommit} \cup Commits]
      /\ runs[r].mode \in {"bootstrap", "incremental"}
  BY FieldsOf DEF TypeInv, ScanTypeOK
<1>2. /\ UNCHANGED <<history, commitTag, rollup, published, state, lost, scan>>
      /\ at[r] = "matches" /\ at'[r] = "insert"
  BY <1>1 DEF UnsetCanonical, HandlerStep, repoVars
<1>3. matches' = matches
  <2>1. \A pc \in scan[r].found : matches[pc[1]] = NoCommit
    BY <1>2 DEF Answers, ScanAgrees, NewMatches
  <2>2. \A p \in Items : matches'[p] = matches[p]
    BY <2>1 DEF UnsetCanonical
  <2>3. matches' = [p \in Items |-> matches'[p]]
    BY DEF UnsetCanonical
  <2> QED
    BY <1>1, <2>2, <2>3
<1>4. /\ \A s \in Series : Agrees(s)' <=> Agrees(s)
      /\ MatchedWhole'
  BY <1>2, <1>3, AgreesKept, SummariesKept DEF Answers
<1>5. \A c : Matching(c)' = Matching(c)
  BY <1>2 DEF Matching, LinkMatches, PatchIdMatches, Commit
<1>6. scan[r].found = NewMatches(Chunk(r)) /\ NewMatches(Chunk(r))' = NewMatches(Chunk(r))
  BY <1>2, <1>3, <1>5, ZenonT(40) DEF Answers, ScanAgrees, NewMatches, Chunk, Older, Commit
<1>7. Owed(r)' = Owed(r)
  BY <1>2 DEF Owed
<1> QED
  BY <1>1, <1>2, <1>4, <1>6, <1>7 DEF Answers, ScanAgrees

\* A patch that matches a commit of the chunk has a commit after it.
LEMMA WholeAfterMatches ==
  ASSUME TypeInv, NEW r \in Runs, Answers(r), kind = "mainline", InsertMatches(r)
  PROVE  /\ MatchedWhole'
         /\ \A p \in Items : (~\E c \in Commits : <<p, c>> \in scan[r].found) => matches'[p] = matches[p]
<1> DEFINE found == scan[r].found
           chunk == ToSet(Chunk(r))
<1>1. /\ Repository(history) /\ matches \in [Items -> {NoCommit} \cup Commits]
      /\ NoCommit \notin Commits /\ UNCHANGED history
      /\ at[r] = "insert"
      /\ matches' = [p \in Items |-> IF \E c \in Commits : <<p, c>> \in found
                                     THEN CHOOSE c \in Commits : <<p, c>> \in found ELSE matches[p]]
  BY DEF TypeInv, ScanTypeOK, ScanInStep, Repository, Commits, InsertMatches, repoVars, HandlerStep
<1>2. \A c : Matching(c)' = Matching(c)
  BY <1>1 DEF Matching, LinkMatches, PatchIdMatches, Commit
<1>3. /\ found \subseteq Items \X Commits /\ chunk \subseteq Commits
      /\ \A p \in Items : \A c : <<p, c>> \in found <=>
              /\ c \in chunk /\ p \in Matching(c) /\ matches[p] = NoCommit
              /\ \A d \in chunk : p \in Matching(d) => d = c \/ Older(c, d)
  BY <1>1, FoundIs DEF Answers
<1> HIDE DEF found, chunk
<1>4. ASSUME NEW p \in Items, NEW c \in Commits, <<p, c>> \in found
      PROVE  matches'[p] \in Commits /\ <<p, matches'[p]>> \in found
  <2>1. \E d \in Commits : <<p, d>> \in found
    BY <1>4
  <2>2. matches'[p] = CHOOSE d \in Commits : <<p, d>> \in found
    BY <1>1, <2>1
  <2> QED
    BY <2>1, <2>2
<1>5. \A p \in Items : (~\E c \in Commits : <<p, c>> \in found) => matches'[p] = matches[p]
  BY <1>1
<1>6. \A p \in Items : matches[p] # NoCommit => matches'[p] # NoCommit
  BY <1>1, <1>4, <1>5
<1>7. ASSUME NEW q \in Items, NEW c \in chunk, q \in Matching(c)
      PROVE  matches'[q] # NoCommit
  <2>1. CASE matches[q] # NoCommit
    BY <1>6, <2>1
  <2>2. CASE matches[q] = NoCommit
    <3> DEFINE D == {d \in chunk : q \in Matching(d)}
    <3>1. D \in SUBSET Commits /\ D # {}
      BY <1>3, <1>7
    <3> HIDE DEF D
    <3>2. IsFiniteSet(D) /\ StrictOrder(Age(D), D)
      BY <1>1, <3>1, AgeOrders
    <3>3. PICK d \in D : \A x \in D : x # d => <<d, x>> \in Age(D)
      BY <3>1, <3>2, LeastIn
    <3>4. d \in chunk /\ q \in Matching(d)
      BY DEF D
    <3>5. \A x \in chunk : q \in Matching(x) => x = d \/ Older(d, x)
      BY <3>3 DEF D, Age
    <3>6. <<q, d>> \in found
      BY <1>3, <2>2, <3>4, <3>5
    <3>7. d \in Commits
      BY <1>3, <3>4
    <3>8. matches'[q] \in Commits
      BY <1>4, <3>6, <3>7
    <3> QED
      BY <1>1, <3>8
  <2> QED
    BY <2>1, <2>2
<1>8. ASSUME NEW p \in Items, matches'[p] # NoCommit, NEW q \in Matching(matches'[p])
      PROVE  matches'[q] # NoCommit
  <2>1. q \in Items
    BY <1>8 DEF Matching, LinkMatches, PatchIdMatches
  <2>2. CASE \E c \in Commits : <<p, c>> \in found
    <3>1. <<p, matches'[p]>> \in found
      BY <1>4, <2>2
    <3>2. matches'[p] \in chunk
      BY <1>3, <3>1
    <3> QED
      BY <1>7, <1>8, <2>1, <3>2
  <2>3. CASE ~\E c \in Commits : <<p, c>> \in found
    <3>1. matches'[p] = matches[p]
      BY <1>5, <2>3
    <3>2. matches[q] # NoCommit
      BY <1>8, <3>1 DEF Answers, MatchedWhole
    <3> QED
      BY <1>6, <2>1, <3>2
  <2> QED
    BY <2>2, <2>3
<1>9. MatchedWhole'
  BY <1>2, <1>8 DEF MatchedWhole
<1> QED
  BY <1>5, <1>9 DEF found

\* The series of the patches that got a commit are owed a rollup.
LEMMA MatchesAnswer ==
  ASSUME TypeInv, NEW r \in Runs, Answers(r), runs'[r].mode = runs[r].mode, kind = "mainline",
         InsertMatches(r)
  PROVE  Answers(r)'
<1> USE DEF Matchings, Rollings
<1> DEFINE found == scan[r].found
           affected == scan[r].affected \cup {s \in Series : \E pc \in found : Affects(pc[1], s)}
<1>1. /\ at = [j \in Jobs |-> at[j]] /\ r \in Jobs /\ scan \in [Runs -> ScanRow]
      /\ runs[r].mode \in {"bootstrap", "incremental"}
  BY FieldsOf
<1>2. /\ UNCHANGED <<history, commitTag, rollup, published, state, lost>>
      /\ at[r] = "insert" /\ at'[r] = "save"
      /\ scan' = [scan EXCEPT ![r].found = {}, ![r].affected = affected]
  BY <1>1 DEF InsertMatches, HandlerStep, repoVars, ScanRow
<1>3. MatchedWhole' /\ \A p \in Items : (~\E c \in Commits : <<p, c>> \in found) => matches'[p] = matches[p]
  BY WholeAfterMatches
<1>4. ASSUME NEW s \in Series \ affected PROVE Agrees(s)' <=> Agrees(s)
  <2>1. ASSUME NEW v \in DOMAIN Versions[s], NEW p \in Versions[s][v] PROVE matches'[p] = matches[p]
    <3>1. p \in Items
      BY <2>1, VersionsIn
    <3>2. Affects(p, s)
      BY <2>1 DEF Affects
    <3>3. ~\E c \in Commits : <<p, c>> \in found
      BY <1>4, <3>2
    <3> QED
      BY <1>3, <3>1, <3>3
  <2>2. Summary(s)' = Summary(s)
    BY <1>2, <2>1, SummaryKept
  <2> QED
    BY <1>2, <2>2 DEF Agrees
<1>5. scan[r].affected \subseteq affected /\ affected \subseteq Series
  BY <1>1 DEF ScanRow
<1> HIDE DEF affected
<1>6. scan'[r].affected = affected /\ scan'[r].ready = scan[r].ready
  BY <1>1, <1>2 DEF ScanRow
<1>7. Owed(r) = scan[r].affected /\ Owed(r)' = affected
  BY <1>2, <1>6 DEF Owed
<1> QED
  BY <1>1, <1>2, <1>3, <1>4, <1>5, <1>6, <1>7 DEF Answers, ScanAgrees

\* What every run is in where no scan takes a step of its own: what a scan that ends here owes is lost.
LEMMA IdleAgrees ==
  ASSUME TypeInv, OneTask, slots = 1, kind = "mainline", [Next]_vars,
         ReadyAgrees, \A r \in Runs : ScanAgrees(r), MatchedWhole, \A r \in Runs : ~Scans(r)
  PROVE  ReadyAgrees' /\ (\A r \in Runs : ScanAgrees(r)') /\ MatchedWhole'
<1>1. /\ UNCHANGED <<history, tableVars>> /\ lost \subseteq lost'
      /\ \A r \in Runs : ScanCancelled(r) \/ ScanBreaks(r) \/ InsertRefused(r) => lost' = lost \cup Forgotten(r)
  <2>1. \A r \in Runs : ScanCancelled(r) \/ ScanBreaks(r) \/ InsertRefused(r) =>
          lost' = lost \cup Forgotten(r) /\ UNCHANGED <<history, tableVars>>
    BY DEF ScanCancelled, ScanBreaks, InsertRefused, repoVars
  <2>2. ~(\E r \in Runs : ScanCancelled(r) \/ ScanBreaks(r) \/ InsertRefused(r)) => UNCHANGED <<history, tableVars, lost>>
    BY TableMoves DEF scanVars, repoVars, ScanForgets, Fetch, Scans
  <2> QED
    BY <2>1, <2>2
<1>2. UNCHANGED <<matches, commitTag, rollup, published, state>>
  BY <1>1 DEF tableVars
<1>3. /\ \A s \in Series : (Agrees(s)' <=> Agrees(s)) /\ Summary(s)' = Summary(s)
      /\ MatchedWhole'
  BY <1>1, <1>2, AgreesKept, SummariesKept
<1>4. ASSUME NEW r \in Runs
      PROVE  \/ at'[r] = at[r] /\ scan'[r] = scan[r]
             \/ at'[r] # at[r] /\ at'[r] \in {"none", "load", "state"} \cup Returned
             \/ at'[r] = "none"
  BY ScanAtMoves DEF Scans
<1>5. ASSUME NEW r \in Runs, at[r] # "none" PROVE runs'[r].mode = runs[r].mode
  BY <1>5, JobSets, ModeKept DEF TypeInv, JobsInStep, RunsApart
<1>6. ASSUME NEW r \in Runs PROVE ScanAgrees(r)'
  <2>1. CASE at'[r] = at[r] /\ scan'[r] = scan[r] /\ at[r] # "none"
    <3>1. Owed(r)' = Owed(r)
      BY <2>1 DEF Owed
    <3>2. NewMatches(Chunk(r))' = NewMatches(Chunk(r))
      <4>1. \A c : Matching(c)' = Matching(c)
        BY <1>1 DEF Matching, LinkMatches, PatchIdMatches, Commit
      <4> QED
        BY <1>1, <1>2, <2>1, <4>1 DEF NewMatches, Chunk, Older, Commit
    <3>3. at[r] \in {"rollup", "publish"} => Min(scan[r].left) \in Series
      BY SumsUp
    <3>4. at[r] \in {"rollup", "publish"} =>
            Summary(Min(scan[r].left))' = Summary(Min(scan[r].left))
      <4> SUFFICES ASSUME at[r] \in {"rollup", "publish"}
                   PROVE  Summary(Min(scan[r].left))' = Summary(Min(scan[r].left))
        OBVIOUS
      <4>1. PICK m \in Series : m = Min(scan[r].left)
        BY <3>3
      <4> QED
        BY <1>3, <2>1, <4>1
    <3>5. runs'[r].mode = runs[r].mode
      BY <1>5, <2>1
    <3>6. ScanAgrees(r)
      OBVIOUS
    <3> QED
      BY <1>2, <1>3, <2>1, <3>1, <3>2, <3>4, <3>5, <3>6 DEF ScanAgrees
  <2>2. CASE at'[r] \in {"none", "load", "state"} \cup Returned
    BY <2>2 DEF ScanAgrees, Matchings, Rollings, Returned
  <2> QED
    BY <1>4, <2>1, <2>2
<1>7. ReadyAgrees'
  <2> SUFFICES ASSUME state.ready, NEW s \in Series \ lost', ~Agrees(s)
               PROVE  \E r \in Runs : s \in Owed(r)'
    BY <1>2, <1>3 DEF ReadyAgrees
  <2>1. PICK r \in Runs : s \in Owed(r)
    BY <1>1 DEF ReadyAgrees
  <2>2. at[r] \in Matchings \cup Rollings
    BY <2>1 DEF Owed
  <2>3. CASE at'[r] = at[r]
    <3>1. scan'[r] = scan[r]
      BY <1>4, <2>2, <2>3 DEF Matchings, Rollings
    <3> QED
      BY <2>1, <2>3, <3>1 DEF Owed
  <2>4. CASE at'[r] # at[r]
    <3>1. at[r] \in RunSteps \ {"run_done"}
      BY <2>2 DEF Matchings, Rollings, RunSteps
    <3>2. lost' = lost \cup Forgotten(r)
      BY <1>1, <2>4, <3>1, ScanGoesOn
    <3>3. runs[r].mode # "bootstrap"
      BY <2>2 DEF ScanAgrees
    <3>4. Forgotten(r) = Owed(r)
      BY <2>2, <3>3 DEF Forgotten, Owed, Matchings, Rollings
    <3> QED
      BY <2>1, <3>2, <3>4
  <2> QED
    BY <2>3, <2>4
<1> QED
  BY <1>3, <1>6, <1>7

LEMMA RollupStep ==
  ASSUME TypeInv, OneTask, RollupInv, [Next]_vars
  PROVE  RollupInv'
<1>1. UNCHANGED <<kind, slots>>
  BY SetupKept
<1> SUFFICES ASSUME slots = 1
             PROVE  /\ kind # "mainline" => ~state'.ready
                    /\ kind = "mainline" => ReadyAgrees' /\ (\A r \in Runs : ScanAgrees(r)') /\ MatchedWhole'
  BY <1>1 DEF RollupInv
<1>2. CASE kind # "mainline"
  <2>1. UNCHANGED state
    BY <1>2, TableMoves DEF scanVars, tableVars, ScanForgets
  <2> QED
    BY <1>2, <2>1 DEF RollupInv
<1>3. CASE kind = "mainline"
  <2>1. ReadyAgrees /\ (\A r \in Runs : ScanAgrees(r)) /\ MatchedWhole
    BY <1>3 DEF RollupInv
  <2>2. CASE \A r \in Runs : ~Scans(r)
    BY <1>3, <2>1, <2>2, IdleAgrees
  <2>3. ASSUME NEW r \in Runs, Scans(r)
        PROVE  ReadyAgrees' /\ (\A q \in Runs : ScanAgrees(q)') /\ MatchedWhole'
    <3>1. at[r] # "none" /\ r \in Jobs
      BY <2>3, JobSets
         DEF Scans, EnsureState, Unready, Prepare, Resolve, UpsertCommits, UnsetCanonical, InsertMatches,
             SaveChunk, SumUp, WriteRollup, Publish, MarkState, HandlerStep
    <3>2. \A q \in Runs : q # r => at[q] = "none"
      BY <3>1, JobSets, Alone
    <3>3. ASSUME NEW q \in Runs, q # r PROVE at'[q] \in {"none", "load", "state"} \cup Returned
      <4>1. ~Scans(q)
        BY <3>2, <3>3
           DEF Scans, EnsureState, Unready, Prepare, Resolve, UpsertCommits, UnsetCanonical, InsertMatches,
               SaveChunk, SumUp, WriteRollup, Publish, MarkState, HandlerStep
      <4> QED
        BY <1>3, <3>2, <3>3, <4>1, ScanAtMoves DEF Scans
    <3>4. \A q \in Runs : q # r => Owed(q) = {} /\ Owed(q)' = {} /\ ScanAgrees(q)'
      BY <3>2, <3>3 DEF Owed, ScanAgrees, Matchings, Rollings, Returned
    <3>5. runs'[r].mode = runs[r].mode
      BY <3>1, ModeKept DEF TypeInv, JobsInStep, RunsApart
    <3>6. Answers(r)
      <4>1. \A s : (\E q \in Runs : s \in Owed(q)) => s \in Owed(r)
        BY <3>4
      <4> QED
        BY <2>1, <4>1 DEF Answers, ReadyAgrees
    <3>7. Answers(r)'
      BY <1>3, <2>3, <3>5, <3>6, BeginsAnswer, ChunksAnswer, RollupsAnswer, CommitsAnswer, UnsetAnswers,
         MatchesAnswer DEF Scans
    <3>8. ReadyAgrees'
      BY <3>7 DEF Answers, ReadyAgrees
    <3>9. ScanAgrees(r)' /\ MatchedWhole'
      BY <3>7 DEF Answers
    <3> QED
      BY <3>4, <3>8, <3>9
  <2> QED
    BY <1>3, <2>2, <2>3
<1> QED
  BY <1>2, <1>3

\* Where the public filter is ready and no scan is at work, every series and its search document
\* are summed up by the matches there are, but for those an incremental scan forgot when it was
\* cut short: neither the order of the rollups' writes nor a retry, a cancel or a crash between
\* the matches of a chunk and its rollups leaves another one behind, with one slot.
THEOREM RollupsFollow == Spec => []RollupsAgree
<1>1. RollupInv /\ TypeInv => RollupsAgree
  <2> SUFFICES ASSUME RollupInv, state.ready, slots = 1, \A r \in Runs : at[r] = "none", NEW s \in Series \ lost
               PROVE  rollup[s] = Summary(s) /\ published[s] = rollup[s]
    BY DEF RollupsAgree
  <2>1. ReadyAgrees
    BY DEF RollupInv
  <2>2. \A r \in Runs : Owed(r) = {}
    BY DEF Owed, Matchings, Rollings
  <2> QED
    BY <2>1, <2>2 DEF ReadyAgrees, Agrees
<1>2. Init => TypeInv /\ OneTask /\ RollupInv
  <2> SUFFICES ASSUME Init PROVE RollupInv
    BY TypesFromStart, OneSlotFromStart
  <2>1. /\ ~state.ready /\ \A r \in Runs : at[r] = "none"
        /\ \A p \in Items : matches[p] = NoCommit
    BY JobSets DEF Init, ScanInit, ControlInit
  <2> QED
    BY <2>1 DEF RollupInv, ReadyAgrees, ScanAgrees, MatchedWhole, Matchings, Rollings
<1>3. TypeInv /\ OneTask /\ RollupInv /\ [Next]_vars => RollupInv'
  BY RollupStep
<1>4. TypeInv /\ OneTask /\ [Next]_vars => OneTask'
  BY OneTaskStep
<1> QED
  BY <1>1, <1>2, <1>3, <1>4, TypeInvHolds, PTL DEF Spec

-----------------------------------------------------------------------------
(* The walk reaches the least set with its heads that is closed under parents. *)

Grown(X, stop) == X \cup ((UNION {Commit(c).parents : c \in X}) \ {stop})

\* The recursion of Reach up to n, as a property of a function.
Climb(met, heads, stop, n) ==
  met = [i \in 0..n |-> IF i = 0 THEN heads \ {stop}
                        ELSE met[i - 1] \cup ((UNION {Commit(c).parents : c \in met[i - 1]}) \ {stop})]

\* A counterexample would have a least one, whose predecessor can be extended.
LEMMA ClimbThere ==
  ASSUME NEW N \in Nat, NEW heads, NEW stop
  PROVE  \E met : Climb(met, heads, stop, N)
<1> DEFINE T == {m \in Nat : ~\E met : Climb(met, heads, stop, m)}
<1>1. SUFFICES ASSUME T # {} PROVE FALSE
  OBVIOUS
<1>2. PICK m \in T : \A n \in T : m =< n
  <2> HIDE DEF T
  <2>1. T \in SUBSET Nat
    BY DEF T
  <2> QED
    BY <1>1, <2>1, LeastOf
<1>3. m \in Nat /\ ~\E met : Climb(met, heads, stop, m)
  BY <1>2
<1>4. CASE m = 0
  <2> DEFINE g == [i \in 0..0 |-> heads \ {stop}]
  <2>1. Climb(g, heads, stop, 0)
    BY DEF Climb
  <2> QED
    BY <1>3, <1>4, <2>1
<1>5. CASE m # 0
  <2>1. PICK k \in Nat : m = k + 1
    <3>1. m - 1 \in Nat /\ m = (m - 1) + 1
      BY <1>3, <1>5
    <3> QED
      BY <3>1
  <2>2. k \notin T
    BY <1>2, <2>1
  <2>3. PICK h : Climb(h, heads, stop, k)
    BY <2>2
  <2> HIDE DEF T
  <2>4. \A i \in 0..k : h[i] = IF i = 0 THEN heads \ {stop} ELSE Grown(h[i - 1], stop)
    BY <2>3 DEF Climb, Grown
  <2> DEFINE g == [i \in 0..k + 1 |-> IF i = k + 1 THEN Grown(h[k], stop) ELSE h[i]]
  <2>5. ASSUME NEW i \in 0..k + 1
        PROVE  g[i] = IF i = 0 THEN heads \ {stop} ELSE Grown(g[i - 1], stop)
    <3>1. CASE i = 0
      BY <2>4, <3>1
    <3>2. CASE i = k + 1
      BY <3>2
    <3>3. CASE i # 0 /\ i # k + 1
      <4>1. i \in 0..k /\ i - 1 \in 0..k + 1 /\ i - 1 # k + 1
        BY <3>3
      <4> QED
        BY <2>4, <3>3, <4>1
    <3> QED
      BY <3>1, <3>2, <3>3
  <2>6. Climb(g, heads, stop, k + 1)
    <3>1. g = [i \in 0..k + 1 |-> IF i = 0 THEN heads \ {stop} ELSE Grown(g[i - 1], stop)]
      BY <2>5
    <3> HIDE DEF g
    <3> QED
      BY <3>1 DEF Climb, Grown
  <2> QED
    BY <1>3, <2>1, <2>6
<1> QED
  BY <1>4, <1>5

\* What Reach is, without its recursion.
LEMMA ReachIs ==
  ASSUME IsFiniteSet(Commits), NEW heads, NEW stop
  PROVE  \E met : /\ met[0] = heads \ {stop}
                  /\ \A n \in 0..Cardinality(Commits) : n # 0 => met[n] = Grown(met[n - 1], stop)
                  /\ Reach(heads, stop) = met[Cardinality(Commits)]
<1> DEFINE N == Cardinality(Commits)
           Q(f) == f = [n \in 0..N |-> IF n = 0 THEN heads \ {stop}
                         ELSE f[n - 1] \cup ((UNION {Commit(c).parents : c \in f[n - 1]}) \ {stop})]
           met == CHOOSE f : Q(f)
<1>1. N \in Nat
  BY FS_CardinalityType
<1>2. Reach(heads, stop) = met[N]
  BY DEF Reach
<1>3. Q(met)
  <2>1. \E f : Q(f)
    <3>1. PICK f : Climb(f, heads, stop, N)
      BY <1>1, ClimbThere
    <3>2. Q(f)
      BY <3>1 DEF Climb
    <3> QED
      BY <3>2
  <2> HIDE DEF Q
  <2> QED
    BY <2>1
<1> HIDE DEF met, N
<1>4. met[0] = heads \ {stop} /\ \A n \in 0..N : n # 0 => met[n] = Grown(met[n - 1], stop)
  BY <1>1, <1>3 DEF Grown
<1> QED
  BY <1>2, <1>4 DEF N

\* Each turn of the walk adds a commit or is the last to: it ends closed.
LEMMA ReachCloses ==
  ASSUME Repository(history), NEW h \in Commits, NEW stop
  PROVE  /\ Reach({h}, stop) \subseteq Commits
         /\ h # stop => h \in Reach({h}, stop)
         /\ \A c \in Reach({h}, stop) : \A q \in Commit(c).parents : q # stop => q \in Reach({h}, stop)
<1> DEFINE N == Cardinality(Commits)
           More(X) == Grown(X, stop)
<1>1. IsFiniteSet(Commits) /\ N \in Nat /\ \A c \in Commits : Commit(c).parents \subseteq Commits
  BY FS_CardinalityType DEF Repository, Commits, Commit
<1>2. PICK met : /\ met[0] = {h} \ {stop}
                 /\ \A n \in 0..N : n # 0 => met[n] = More(met[n - 1])
                 /\ Reach({h}, stop) = met[N]
  BY <1>1, ReachIs
<1>3. \A X \in SUBSET Commits : X \subseteq More(X) /\ More(X) \in SUBSET Commits
  BY <1>1 DEF Grown
<1> DEFINE Good(n) == /\ met[n] \in SUBSET Commits /\ {h} \ {stop} \subseteq met[n]
                      /\ More(met[n]) = met[n] \/ n < Cardinality(met[n])
           T == {n \in 0..N : ~Good(n)}
<1> HIDE DEF More, N
<1>4. T = {}
  <2>1. SUFFICES ASSUME T # {} PROVE FALSE
    OBVIOUS
  <2>2. PICK m \in T : \A n \in T : m =< n
    <3> HIDE DEF Good
    <3>1. T \in SUBSET Nat
      BY <1>1
    <3> HIDE DEF T
    <3> QED
      BY <2>1, <3>1, LeastOf
  <2>3. CASE m = 0
    <3>1. met[0] \in SUBSET Commits /\ {h} \ {stop} \subseteq met[0]
      BY <1>2
    <3>2. CASE h = stop
      BY <1>2, <2>2, <2>3, <3>1, <3>2 DEF More, Grown
    <3>3. CASE h # stop
      <4>1. met[0] = {h} /\ Cardinality({h}) = 1
        BY <1>2, <3>3, FS_Singleton
      <4> QED
        BY <2>2, <2>3, <3>1, <4>1
    <3> QED
      BY <3>2, <3>3
  <2>4. CASE m # 0
    <3>1. PICK k \in 0..N : m = k + 1 /\ k \notin T
      <4> HIDE DEF Good
      <4>1. m \in 0..N
        BY <2>2
      <4>2. m - 1 \in 0..N /\ m = (m - 1) + 1 /\ ~(m =< m - 1)
        BY <1>1, <2>4, <4>1
      <4>3. m - 1 \notin T
        <5> HIDE DEF T
        <5> QED
          BY <2>2, <4>2
      <4> QED
        BY <4>2, <4>3
    <3>2. Good(k) /\ met[m] = More(met[k]) /\ m \in 0..N /\ k \in Nat
      <4>1. (k + 1) - 1 = k /\ m \in 0..N /\ k \in Nat
        BY <1>1, <2>2, <3>1
      <4> QED
        BY <1>2, <2>4, <3>1, <4>1
    <3>3. met[m] \in SUBSET Commits /\ {h} \ {stop} \subseteq met[m] /\ met[k] \subseteq met[m]
      BY <1>3, <3>2
    <3>4. CASE More(met[k]) = met[k]
      <4>1. Good(m)
        BY <3>2, <3>3, <3>4
      <4> QED
        BY <2>2, <4>1
    <3>5. CASE More(met[k]) # met[k]
      <4>1. met[k] # met[m] /\ k < Cardinality(met[k])
        BY <3>2, <3>5
      <4>2. IsFiniteSet(met[m]) /\ IsFiniteSet(met[k])
        BY <1>1, <3>2, <3>3, FS_Subset
      <4>3. /\ Cardinality(met[k]) =< Cardinality(met[m]) /\ Cardinality(met[k]) # Cardinality(met[m])
            /\ Cardinality(met[k]) \in Nat /\ Cardinality(met[m]) \in Nat
        BY <3>3, <4>1, <4>2, FS_Subset, FS_CardinalityType
      <4>4. m < Cardinality(met[m])
        BY <3>1, <3>2, <4>1, <4>3
      <4>5. Good(m)
        BY <3>3, <4>4
      <4> QED
        BY <2>2, <4>5
    <3> QED
      BY <3>4, <3>5
  <2> QED
    BY <2>3, <2>4
<1>5. Good(N)
  BY <1>1, <1>4
<1>6. More(met[N]) = met[N]
  <2>1. Cardinality(met[N]) =< N
    BY <1>1, <1>5, FS_Subset DEF N
  <2>2. Cardinality(met[N]) \in Nat
    BY <1>1, <1>5, FS_Subset, FS_CardinalityType
  <2> QED
    BY <1>1, <1>5, <2>1, <2>2
<1> QED
  BY <1>2, <1>5, <1>6 DEF More, Grown

\* No smaller set is closed.
LEMMA ReachLeast ==
  ASSUME Repository(history), NEW h \in Commits, NEW stop, NEW X,
         h # stop => h \in X,
         \A c \in X : \A q \in Commit(c).parents : q # stop => q \in X
  PROVE  Reach({h}, stop) \subseteq X
<1> DEFINE N == Cardinality(Commits)
<1>1. IsFiniteSet(Commits) /\ N \in Nat
  BY FS_CardinalityType DEF Repository, Commits
<1>2. PICK met : /\ met[0] = {h} \ {stop}
                 /\ \A n \in 0..N : n # 0 => met[n] = Grown(met[n - 1], stop)
                 /\ Reach({h}, stop) = met[N]
  BY <1>1, ReachIs
<1> DEFINE T == {n \in 0..N : ~(met[n] \subseteq X)}
<1> HIDE DEF N
<1>3. T = {}
  <2>1. SUFFICES ASSUME T # {} PROVE FALSE
    OBVIOUS
  <2>2. PICK m \in T : \A n \in T : m =< n
    <3>1. T \in SUBSET Nat
      BY <1>1
    <3> HIDE DEF T
    <3> QED
      BY <2>1, <3>1, LeastOf
  <2>3. m \in 0..N /\ ~(met[m] \subseteq X)
    BY <2>2
  <2>4. CASE m = 0
    BY <1>2, <2>3, <2>4
  <2>5. CASE m # 0
    <3>1. m - 1 \in 0..N /\ ~(m =< m - 1)
      BY <1>1, <2>3, <2>5
    <3>2. met[m - 1] \subseteq X
      BY <2>2, <3>1
    <3>3. Grown(met[m - 1], stop) \subseteq X
      BY <3>2 DEF Grown
    <3> QED
      BY <1>2, <2>3, <2>5, <3>3
  <2> QED
    BY <2>4, <2>5
<1> QED
  BY <1>1, <1>2, <1>3

\* A walk that does not stop meets all that is behind.
LEMMA WalkAll ==
  ASSUME Repository(history), NEW h \in Commits
  PROVE  /\ Reach({h}, NoCommit) \subseteq Commits /\ h \in Reach({h}, NoCommit)
         /\ \A c \in Reach({h}, NoCommit) : \A q \in Commit(c).parents : q \in Reach({h}, NoCommit)
<1>1. NoCommit \notin Commits /\ \A c \in Commits : Commit(c).parents \subseteq Commits
  BY DEF Repository, Commits, Commit
<1> DEFINE X == Reach({h}, NoCommit)
<1>2. /\ X \subseteq Commits
      /\ h # NoCommit => h \in X
      /\ \A c \in X : \A q \in Commit(c).parents : q # NoCommit => q \in X
  BY ReachCloses
<1> HIDE DEF X
<1>3. X \subseteq Commits /\ h \in X /\ \A c \in X : \A q \in Commit(c).parents : q \in X
  BY <1>1, <1>2
<1> QED
  BY <1>3 DEF X

\* A walk that stops somewhere leaves out only what is behind where it stops.
LEMMA WalkParts ==
  ASSUME Repository(history), NEW h \in Commits, NEW s \in Commits
  PROVE  /\ Reach({h}, s) \subseteq Reach({h}, NoCommit)
         /\ Reach({h}, NoCommit) \subseteq Reach({h}, s) \cup Reach({s}, NoCommit)
<1>1. Reach({h}, s) \subseteq Reach({h}, NoCommit)
  <2> DEFINE X == Reach({h}, NoCommit)
  <2>1. h \in X /\ \A c \in X : \A q \in Commit(c).parents : q \in X
    BY WalkAll
  <2> HIDE DEF X
  <2>2. Reach({h}, s) \subseteq X
    BY <2>1, ReachLeast
  <2> QED
    BY <2>2 DEF X
<1>2. Reach({h}, NoCommit) \subseteq Reach({h}, s) \cup Reach({s}, NoCommit)
  <2> DEFINE A == Reach({h}, s)
             B == Reach({s}, NoCommit)
             X == A \cup B
  <2>1. /\ A \subseteq Commits
        /\ h # s => h \in A
        /\ \A c \in A : \A q \in Commit(c).parents : q # s => q \in A
    BY ReachCloses
  <2>2. s \in B /\ \A c \in B : \A q \in Commit(c).parents : q \in B
    BY WalkAll
  <2> HIDE DEF A, B
  <2>3. h \in X
    BY <2>1, <2>2
  <2>4. ASSUME NEW c \in X, NEW q \in Commit(c).parents PROVE q \in X
    BY <2>1, <2>2, <2>4
  <2> HIDE DEF X
  <2>5. Reach({h}, NoCommit) \subseteq X
    BY <2>3, <2>4, ReachLeast
  <2> QED
    BY <2>5 DEF X, A, B
<1> QED
  BY <1>1, <1>2

\* What a commit reaches, all that reach it reach.
LEMMA WalkGoesOn ==
  ASSUME Repository(history), NEW h \in Commits, NEW c \in Reach({h}, NoCommit)
  PROVE  c \in Commits /\ Reach({c}, NoCommit) \subseteq Reach({h}, NoCommit)
<1> DEFINE X == Reach({h}, NoCommit)
<1>1. X \subseteq Commits /\ \A d \in X : \A q \in Commit(d).parents : q \in X
  BY WalkAll
<1>2. c \in X
  OBVIOUS
<1> HIDE DEF X
<1>3. Reach({c}, NoCommit) \subseteq X
  BY <1>1, <1>2, ReachLeast
<1> QED
  BY <1>1, <1>2, <1>3 DEF X

\* Where dates are in order, what a commit reaches is older.
LEMMA ReachOlder ==
  ASSUME Repository(history), Dated, NEW c \in Commits, NEW d \in Reach({c}, NoCommit), d # c
  PROVE  Older(d, c)
<1> DEFINE X == {x \in Commits : x = c \/ Commit(x).time < Commit(c).time}
<1>1. \A x \in Commits : Commit(x).time \in Nat /\ Commit(x).parents \subseteq Commits
  BY DEF Repository, Commits, Commit
<1>2. c \in X /\ \A x \in X : \A q \in Commit(x).parents : q \in X
  <2> SUFFICES ASSUME NEW x \in X, NEW q \in Commit(x).parents PROVE q \in X
    OBVIOUS
  <2>1. q \in Commits /\ Commit(q).time < Commit(x).time
    BY <1>1 DEF Dated
  <2> QED
    BY <1>1, <2>1
<1> HIDE DEF X
<1>3. Reach({c}, NoCommit) \subseteq X
  BY <1>2, ReachLeast
<1> QED
  BY <1>3 DEF X, Older

-----------------------------------------------------------------------------
(* What a scan misses: nothing, if all that is behind where it stops is done. *)

\* Done: what a commit matches; what it and all that is behind it match.
Matched(c)  == \A p \in Matching(c) : Given(p)
Complete(c) == \A d \in Scanned(c, NoCommit) : Matched(d)
HeadOf(r)   == history.steps[scan[r].step].head

Beginning == {"load", "state", "unready", "prepare"}
Walking   == {"state_done"} \cup Matchings \cup Rollings

\* What NothingMissed speaks of: dates in order, or no scan that was resumed.
Resumable == Dated \/ \A r \in Runs : attempt[r] =< 1

\* A cursor is behind what is done, or its run is not resumed.
CursorBehind(r) ==
  /\ at[r] # "none" => attempt[r] # 0
  /\ runs[r].cursor[1] # NoCommit =>
       IF Dated THEN Complete(runs[r].cursor[1]) ELSE attempt[r] # 0 /\ at[r] \notin Beginning

\* Where a walk stops all is done behind, or will be when the scan is.
StopBehind(r) ==
  at[r] \in {"unready", "prepare"} \cup Walking =>
    \/ scan[r].last = NoCommit \/ Complete(scan[r].last)
    \/ at[r] \in Walking /\ scan[r].last \in Reach({HeadOf(r)}, NoCommit)

\* What is not done is still to do, oldest first.
RestToDo(r) ==
  /\ at[r] \in Walking =>
       \A c \in Scanned(HeadOf(r), NoCommit) : Matched(c) \/ c \in ToSet(scan[r].todo)
  /\ at[r] \in Matchings =>
       /\ \A i, j \in DOMAIN scan[r].todo : i < j => Older(scan[r].todo[i], scan[r].todo[j])
       /\ ToSet(scan[r].todo) \subseteq Reach({HeadOf(r)}, NoCommit)
  /\ at[r] \in {"state_done"} \cup Rollings => scan[r].todo = <<>>

\* Between resolving a chunk and its cursor each of its patches is found or done.
ChunkFound(r) ==
  /\ at[r] \in {"commits", "matches", "insert"} =>
       \A c \in ToSet(Chunk(r)) : \A p \in Matching(c) :
         Given(p) \/ \E d \in Commits : <<p, d>> \in scan[r].found
  /\ at[r] = "save" => \A c \in ToSet(Chunk(r)) : Matched(c)

StateBehind == /\ state.head # NoCommit => Complete(state.head)
               /\ state.last # NoCommit => Complete(state.last)

WalkInv ==
  /\ kind # "mainline" => state.head = NoCommit
  /\ kind = "mainline" /\ Resumable =>
       /\ StateBehind
       /\ \A r \in Runs : CursorBehind(r) /\ StopBehind(r) /\ RestToDo(r) /\ ChunkFound(r)

\* The repository of a behaviour is one.
LEMMA HistoryKept ==
  ASSUME TypeInv, [Next]_vars
  PROVE  UNCHANGED history
BY TableMoves
   DEF scanVars, tableVars, repoVars, ScanForgets, Fetch, EnsureState, Unready, Prepare, Resolve, UpsertCommits,
       UnsetCanonical, InsertMatches, InsertRefused, SaveChunk, SumUp, WriteRollup, Publish, MarkState, ScanCancelled, ScanBreaks

\* So its walks are the same before and after a step.
LEMMA WalksKept ==
  ASSUME UNCHANGED history, NEW h, NEW s
  PROVE  Reach({h}, s)' = Reach({h}, s) /\ Scanned(h, s)' = Scanned(h, s)
<1>1. Reach({h}, s)' = Reach({h}, s)
  BY DEF Reach, Commits, Commit
<1> QED
  BY <1>1 DEF Scanned, Commits, Commit

\* A patch that was given a commit was given one ever after.
LEMMA GivenStays ==
  ASSUME TypeInv, FoundNew, [Next]_vars, NEW p \in Items, Given(p)
  PROVE  Given(p)'
<1>1. /\ UNCHANGED <<kind, slots>> /\ Commits' = Commits /\ NoCommit \notin Commits
      /\ matches \in [Items -> {NoCommit} \cup Commits]
  BY SetupKept, HistoryKept DEF Commits, TypeInv, ScanTypeOK, ScanInStep, Repository
<1>2. CASE matches' = matches /\ former' = former
  BY <1>1, <1>2 DEF Given
<1>3. ASSUME NEW r \in Runs, kind = "mainline", UnsetCanonical(r) PROVE Given(p)'
  <2> DEFINE found == {pc[1] : pc \in scan[r].found}
  <2>1. /\ matches' = [q \in Items |-> IF q \in found THEN NoCommit ELSE matches[q]]
        /\ former' = former \cup {<<q, matches[q]>> : q \in {q \in found : matches[q] # NoCommit}}
    BY <1>3 DEF UnsetCanonical
  <2>2. slots = 1 /\ matches[p] # NoCommit => p \notin found
    BY <1>3 DEF FoundNew, UnsetCanonical, HandlerStep
  <2> HIDE DEF found
  <2>3. CASE matches[p] # NoCommit /\ p \notin found
    BY <1>1, <2>1, <2>3 DEF Given
  <2>4. CASE matches[p] # NoCommit /\ p \in found
    <3>1. slots # 1 /\ matches[p] \in Commits /\ <<p, matches[p]>> \in former'
      BY <1>1, <2>1, <2>2, <2>4
    <3> QED
      BY <1>1, <3>1 DEF Given
  <2>5. CASE slots # 1 /\ \E d \in Commits : <<p, d>> \in former
    BY <1>1, <2>1, <2>5 DEF Given
  <2> QED
    BY <2>3, <2>4, <2>5 DEF Given
<1>4. ASSUME NEW r \in Runs, InsertMatches(r) PROVE Given(p)'
  <2>1. CASE \E c \in Commits : <<p, c>> \in scan[r].found
    <3>1. matches'[p] = CHOOSE c \in Commits : <<p, c>> \in scan[r].found
      BY <1>4, <2>1 DEF InsertMatches
    <3>2. matches'[p] # NoCommit
      BY <1>1, <2>1, <3>1
    <3> QED
      BY <3>2 DEF Given
  <2>2. CASE ~\E c \in Commits : <<p, c>> \in scan[r].found
    <3>1. matches'[p] = matches[p] /\ \A d \in Commits : <<p, d>> \in former => <<p, d>> \in former'
      BY <1>4, <2>2 DEF InsertMatches
    <3> QED
      BY <1>1, <3>1 DEF Given
  <2> QED
    BY <2>1, <2>2
<1> QED
  BY <1>2, <1>3, <1>4, MatchesMove

\* What is done stays done.
LEMMA CompleteStays ==
  ASSUME TypeInv, FoundNew, [Next]_vars, NEW c
  PROVE  /\ Matching(c)' = Matching(c)
         /\ Matched(c) => Matched(c)'
         /\ Complete(c) => Complete(c)'
<1>1. UNCHANGED history
  BY HistoryKept
<1>2. \A d : Matching(d)' = Matching(d) /\ Matching(d) \subseteq Items
  BY <1>1 DEF Matching, LinkMatches, PatchIdMatches, Commit
<1>3. \A d : Matched(d) => Matched(d)'
  BY <1>2, GivenStays DEF Matched
<1>4. Scanned(c, NoCommit)' = Scanned(c, NoCommit)
  BY <1>1, WalksKept
<1> QED
  BY <1>2, <1>3, <1>4 DEF Complete

\* An attempt is not taken back.
LEMMA ResumableBefore ==
  ASSUME TypeInv, [Next]_vars, Resumable'
  PROVE  Resumable /\ (Dated' <=> Dated)
<1>1. Dated' <=> Dated
  BY HistoryKept DEF Dated, Commits, Commit
<1>2. ASSUME NEW r \in Runs PROVE attempt[r] =< attempt'[r]
  <2>1. r \in Jobs /\ attempt[r] \in Nat
    BY JobSets DEF TypeInv, ControlTypeOK
  <2>2. attempt'[r] = attempt[r] \/ attempt'[r] = attempt[r] + 1
    BY <2>1, TaskMoves
  <2> QED
    BY <2>1, <2>2
<1>3. \A r \in Runs : attempt[r] \in Nat /\ attempt'[r] \in Nat
  BY JobSets, JobTypesStep DEF TypeInv, ControlTypeOK
<1> QED
  BY <1>1, <1>2, <1>3 DEF Resumable

\* A set of commits in order is all of it, oldest first.
LEMMA InOrderIs ==
  ASSUME Repository(history), NEW S \in SUBSET Commits
  PROVE  /\ ToSet(InOrder(S)) = S
         /\ \A i, j \in DOMAIN InOrder(S) : i < j => Older(InOrder(S)[i], InOrder(S)[j])
<1> DEFINE N == Cardinality(S)
           R == Age(S)
           q == InOrder(S)
<1>1. IsFiniteSet(S) /\ StrictOrder(R, S) /\ N \in Nat
  BY AgeOrders, FS_CardinalityType
<1>2. \A x \in S : Before(R, S, x) = {d \in S : Older(d, x)}
  BY DEF Before, Age
<1>3. q = [n \in 1..N |-> CHOOSE c \in S : Cardinality({d \in S : Older(d, c)}) = n - 1]
  BY DEF InOrder
<1> HIDE DEF q
<1>4. ASSUME NEW n \in 1..N PROVE q[n] \in S /\ Cardinality(Before(R, S, q[n])) = n - 1
  <2>1. PICK c \in S : Cardinality(Before(R, S, c)) = n - 1
    <3> HIDE DEF R
    <3> QED
      BY <1>1, Ranked
  <2>2. q[n] = CHOOSE x \in S : Cardinality({d \in S : Older(d, x)}) = n - 1
    BY <1>3
  <2>3. Cardinality({d \in S : Older(d, c)}) = n - 1
    BY <1>2, <2>1
  <2>4. q[n] \in S /\ Cardinality({d \in S : Older(d, q[n])}) = n - 1
    BY <2>2, <2>3
  <2> QED
    BY <1>2, <2>4
<1>5. DOMAIN q = 1..N
  BY <1>3
<1>6. ASSUME NEW x \in S, NEW y \in S, <<x, y>> \in R
      PROVE  Cardinality(Before(R, S, x)) < Cardinality(Before(R, S, y))
  <2> HIDE DEF R
  <2> QED
    BY <1>1, <1>6, RankGrows
<1>7. \A x, y \in S : x # y => <<x, y>> \in R \/ <<y, x>> \in R
  BY <1>1 DEF StrictOrder
<1>8. ASSUME NEW i \in 1..N, NEW j \in 1..N, i < j PROVE Older(q[i], q[j])
  <2> HIDE DEF R
  <2>1. q[i] # q[j] /\ <<q[j], q[i]>> \notin R
    BY <1>4, <1>6, <1>8
  <2>2. <<q[i], q[j]>> \in R
    BY <1>4, <1>7, <2>1
  <2> QED
    BY <2>2 DEF R, Age
<1>9. ASSUME NEW c \in S PROVE \E n \in 1..N : q[n] = c
  <2> DEFINE n == Cardinality(Before(R, S, c)) + 1
             B == Before(R, S, c)
  <2>1. B \subseteq S /\ c \notin B
    BY <1>1 DEF Before, StrictOrder
  <2>2. IsFiniteSet(B) /\ Cardinality(B) =< N /\ Cardinality(B) # N /\ Cardinality(B) \in Nat
    <3> HIDE DEF B
    <3> QED
      BY <1>1, <2>1, FS_Subset, FS_CardinalityType
  <2>3. n \in 1..N
    BY <1>1, <2>2
  <2>4. Cardinality(Before(R, S, q[n])) = Cardinality(Before(R, S, c)) /\ q[n] \in S
    BY <1>4, <2>2, <2>3
  <2>5. q[n] = c
    <3> HIDE DEF R, n
    <3>1. SUFFICES ASSUME q[n] # c PROVE FALSE
      OBVIOUS
    <3>2. <<q[n], c>> \in R \/ <<c, q[n]>> \in R
      BY <1>7, <2>4, <3>1
    <3>3. Cardinality(Before(R, S, c)) < Cardinality(Before(R, S, c))
      BY <1>6, <2>4, <3>2
    <3> QED
      BY <2>2, <3>3
  <2> QED
    BY <2>3, <2>5
<1>10. ToSet(q) = S
  BY <1>4, <1>5, <1>9 DEF ToSet
<1> QED
  BY <1>5, <1>8, <1>10 DEF q

\* A walk yields what it scans, oldest first.
LEMMA WalkIs ==
  ASSUME Repository(history), NEW h, NEW s
  PROVE  /\ Walk(h, s) \in Seq(Commits) /\ ToSet(Walk(h, s)) = Scanned(h, s)
         /\ \A i, j \in DOMAIN Walk(h, s) : i < j => Older(Walk(h, s)[i], Walk(h, s)[j])
<1>1. Scanned(h, s) \in SUBSET Commits
  BY DEF Scanned
<1> QED
  BY <1>1, InOrderIs, WalkType DEF Walk

\* A chunk and the rest of the walk.
LEMMA ChunkParts ==
  ASSUME TypeInv, NEW r \in Runs, scan[r].todo # <<>>
  PROVE  LET todo == scan[r].todo
             n    == Len(Chunk(r))
             rest == SubSeq(todo, n + 1, Len(todo))
         IN /\ n \in 1..Len(todo) /\ todo \in Seq(Commits) /\ n \in Nat
            /\ Last(Chunk(r)) = todo[n]
            /\ \A i \in 1..n : todo[i] \in ToSet(Chunk(r))
            /\ \A c \in ToSet(Chunk(r)) : \E i \in 1..n : c = todo[i]
            /\ DOMAIN rest = 1..(Len(todo) - n) /\ \A i \in DOMAIN rest : rest[i] = todo[i + n]
            /\ \A i \in (n + 1)..Len(todo) : todo[i] \in ToSet(rest)
<1> DEFINE todo == scan[r].todo
           k    == Min({ChunkSize, Len(todo)})
           n    == Len(Chunk(r))
           rest == SubSeq(todo, n + 1, Len(todo))
<1>1. todo \in Seq(Commits)
  BY DEF TypeInv, ScanTypeOK, ScanRow
<1>2. Len(todo) \in Nat \ {0}
  BY <1>1
<1>3. k \in 1..Len(todo)
  <2>1. {ChunkSize, Len(todo)} \in SUBSET Nat /\ {ChunkSize, Len(todo)} # {}
    BY <1>2, ChunkAssumption
  <2>2. k \in {ChunkSize, Len(todo)} /\ k =< Len(todo)
    BY <2>1, MinIn
  <2> QED
    BY <1>2, <2>2, ChunkAssumption
<1> HIDE DEF k, todo
<1>4. Chunk(r) = SubSeq(todo, 1, k)
  BY DEF Chunk, todo, k
<1>5. n = k /\ \A i \in 1..k : Chunk(r)[i] = todo[i]
  BY <1>1, <1>2, <1>3, <1>4
<1>6. DOMAIN Chunk(r) = 1..k
  BY <1>1, <1>2, <1>3, <1>4
<1>7. Last(Chunk(r)) = todo[n]
  BY <1>3, <1>5 DEF Last
<1>8. /\ \A i \in 1..n : todo[i] \in ToSet(Chunk(r))
      /\ \A c \in ToSet(Chunk(r)) : \E i \in 1..n : c = todo[i]
  BY <1>5, <1>6 DEF ToSet
<1> HIDE DEF n
<1>9. DOMAIN rest = 1..(Len(todo) - n) /\ \A i \in DOMAIN rest : rest[i] = todo[i + n]
  BY <1>1, <1>2, <1>3, <1>5
<1> HIDE DEF rest
<1>10. ASSUME NEW i \in (n + 1)..Len(todo) PROVE todo[i] \in ToSet(rest)
  <2>1. i - n \in DOMAIN rest /\ (i - n) + n = i
    BY <1>2, <1>3, <1>5, <1>9
  <2>2. rest[i - n] = todo[i]
    BY <1>9, <2>1
  <2> QED
    BY <2>1, <2>2 DEF ToSet
<1> QED
  BY <1>1, <1>2, <1>3, <1>5, <1>7, <1>8, <1>9, <1>10 DEF todo, n, rest

\* What a chunk matches is done, or found for its first commit that matches.
LEMMA FoundAll ==
  ASSUME TypeInv, NEW r \in Runs, scan[r].todo # <<>>, NEW c \in ToSet(Chunk(r)),
         NEW p \in Matching(c), matches[p] = NoCommit
  PROVE  \E d \in Commits : <<p, d>> \in NewMatches(Chunk(r))
<1> DEFINE D == {d \in ToSet(Chunk(r)) : p \in Matching(d)}
<1>1. ToSet(Chunk(r)) \subseteq Commits
  BY ChunkFacts
<1>2. Repository(history) /\ D \in SUBSET Commits /\ D # {} /\ p \in Items
  BY <1>1 DEF TypeInv, ScanInStep, Matching, LinkMatches, PatchIdMatches
<1>3. PICK d \in D : \A x \in D : x # d => Older(d, x)
  <2>1. IsFiniteSet(D) /\ StrictOrder(Age(D), D)
    BY <1>2, AgeOrders
  <2> HIDE DEF D
  <2>2. PICK d \in D : \A x \in D : x # d => <<d, x>> \in Age(D)
    BY <1>2, <2>1, LeastIn
  <2>3. \A x \in D : x # d => Older(d, x)
    BY <2>2 DEF Age
  <2> QED
    BY <2>3
<1>4. <<p, d>> \in NewMatches(Chunk(r))
  BY <1>2, <1>3 DEF NewMatches
<1> QED
  BY <1>1, <1>3, <1>4

\* A handler begins with a claim.
LEMMA BeginsWithClaim ==
  ASSUME TypeInv, [Next]_vars, kind = "mainline", NEW r \in Runs, at'[r] \in Beginning
  PROVE  at[r] \in Beginning \/ (job[r] = "waiting" /\ attempt'[r] = attempt[r] + 1)
<1>1. /\ at = [j \in Jobs |-> at[j]] /\ r \in Jobs /\ at[r] \in StepsOf(r)
      /\ at[r] # "none" => job[r] = "running"
  BY JobSets DEF TypeInv, AtTypes, JobsInStep
<1>2. SUFFICES ASSUME at[r] \notin Beginning, ~(job[r] = "waiting" /\ attempt'[r] = attempt[r] + 1) PROVE FALSE
  OBVIOUS
<1>3. at'[r] # at[r] /\ at[r] # "none"
  BY <1>1, <1>2, TaskMoves
<1>4. CASE at[r] \in RunSteps \ {"run_done"}
  <2>1. Scans(r) \/ ScanCancelled(r) \/ ScanBreaks(r) \/ InsertRefused(r)
    BY <1>3, <1>4, ScanGoesOn
  <2>2. ASSUME NEW s, at[r] # "state", at' = [at EXCEPT ![r] = s], s \notin Beginning PROVE FALSE
    BY <1>1, <2>2
  <2> QED
    BY <1>1, <1>2, <2>1
       DEF Scans, ScanCancelled, ScanBreaks, Breaks, StopForCancel, HandlerStep, EnsureState, Unready, Prepare,
           Resolve, UpsertCommits, UnsetCanonical, InsertMatches, InsertRefused, SaveChunk, SumUp,
           WriteRollup, Publish, MarkState, AfterChunks, Beginning, Returned
<1>5. CASE at[r] \in {"run_done"} \cup Returned
  <2>1. ASSUME NEW j, j # r, NEW s, at' = [at EXCEPT ![j] = s] PROVE FALSE
    BY <1>1, <1>3, <2>1
  <2>2. ASSUME UNCHANGED at PROVE FALSE
    BY <1>3, <2>2
  <2>3. ASSUME NEW s, s \notin Beginning, at' = [at EXCEPT ![r] = s] PROVE FALSE
    BY <1>1, <2>3
  <2>4. ASSUME NEW p \in Posters, Start(p) \/ Request(p) PROVE FALSE
    BY <2>2, <2>4 DEF Start, Request, Check, Create, EnqueueRun, Bind, jobVars
  <2>5. CASE RequestBreaks \/ Cancelling
    BY <2>2, <2>5 DEF RequestBreaks, Cancelling, EnqueueFails, PosterLost, CancelLost, CancelRead, CancelJob,
                      CancelMark, CancelDirect, jobVars
  <2>6. CASE Claims
    <3>1. PICK j \in Jobs : Claim(j)
      BY <2>6 DEF Claims
    <3> DEFINE s == IF cancel[j] THEN "cancelled" ELSE "load"
    <3>2. j # r /\ at' = [at EXCEPT ![j] = s]
      BY <1>1, <1>3, <3>1 DEF Claim
    <3> QED
      BY <2>1, <3>2
  <2>7. ASSUME NEW j \in Jobs, Ends(j) PROVE FALSE
    <3>1. UNCHANGED at \/ at' = [at EXCEPT ![j] = "none"]
      BY <2>7 DEF Ends, Finalize, Sweep
    <3> QED
      BY <2>1, <2>2, <2>3, <3>1 DEF Beginning
  <2>8. ASSUME NEW j \in Jobs, Broken(j) PROVE FALSE
    <3>1. \E s \in {"none", "retryable", "terminal"} : at' = [at EXCEPT ![j] = s]
      <4>1. CASE Refuse(j)
        BY <4>1 DEF Refuse
      <4>2. CASE ScanBreaks(j)
        <5> DEFINE s == IF at[j] \in Returned THEN "none" ELSE "retryable"
        <5>1. at' = [at EXCEPT ![j] = s] /\ s \in {"none", "retryable", "terminal"}
          BY <4>2 DEF ScanBreaks, Breaks
        <5> HIDE DEF s
        <5> QED
          BY <5>1
      <4> QED
        BY <2>8, <4>1, <4>2 DEF Broken
    <3> QED
      BY <2>1, <2>3, <3>1 DEF Beginning
  <2>9. CASE Fetch \/ UNCHANGED vars
    BY <2>2, <2>9 DEF Fetch, vars, controlVars, jobVars
  <2>10. ASSUME NEW j \in Jobs, Handle(j) PROVE FALSE
    <3>1. CASE SkipRun(j)
      BY <2>1, <2>3, <3>1 DEF SkipRun, HandlerStep, Beginning
    <3>2. CASE j \in Batches /\ BatchStep(j)
      <4>1. j # r /\ \E s : at' = [at EXCEPT ![j] = s]
        BY <3>2, JobSets DEF BatchStep, ReadInputs, UpsertVectors, BuildEmbedded, SubmitEmbedded, Submits,
                             StopForCancel, HandlerStep
      <4> QED
        BY <2>1, <4>1
    <3>3. CASE j \in Runs /\ ScanStep(j)
      <4>1. \E s : at' = [at EXCEPT ![j] = s]
        BY <3>3
           DEF ScanStep, LoadScan, EnsureState, Unready, Prepare, Resolve, UpsertCommits, UnsetCanonical,
               InsertMatches, InsertRefused, SaveChunk, SumUp, WriteRollup, Publish, MarkState, ScanSucceeds, ScanCancelled,
               LoadRun, Succeed, StopForCancel, HandlerStep
      <4>2. j = r
        BY <2>1, <4>1
      <4>3. ScanSucceeds(r)
        BY <1>5, <3>3, <4>2
           DEF ScanStep, LoadScan, EnsureState, Unready, Prepare, Resolve, UpsertCommits, UnsetCanonical,
               InsertMatches, InsertRefused, SaveChunk, SumUp, WriteRollup, Publish, MarkState, ScanCancelled,
               LoadRun, StopForCancel, HandlerStep, Returned
      <4> QED
        BY <2>3, <4>3 DEF ScanSucceeds, Succeed, HandlerStep, Beginning
    <3> QED
      BY <2>10, <3>1, <3>2, <3>3 DEF Handle, BootstrapStep, BackfillStep
  <2> QED
    BY <2>4, <2>5, <2>6, <2>7, <2>8, <2>9, <2>10 DEF Next, Pipeline
<1> QED
  BY <1>1, <1>2, <1>3, <1>4, <1>5 DEF StepsOf, Beginning

\* What one scan answers for.
Follows(r) == StopBehind(r) /\ RestToDo(r) /\ ChunkFound(r)

\* A step that leaves the walk of a scan alone keeps what is true of it.
LEMMA WalkStays ==
  ASSUME TypeInv, FoundNew, [Next]_vars, NEW r \in Runs, Follows(r),
         scan'[r].step = scan[r].step, scan'[r].todo = scan[r].todo, scan'[r].last = scan[r].last
  PROVE  /\ HeadOf(r)' = HeadOf(r) /\ Chunk(r)' = Chunk(r)
         /\ at'[r] = at[r] \/ (at[r] \in Walking /\ at'[r] \in Walking) => StopBehind(r)'
         /\ at[r] \in Walking =>
              \A c \in Scanned(HeadOf(r), NoCommit)' : Matched(c)' \/ c \in ToSet(scan[r].todo)
         /\ at[r] \in Matchings =>
              /\ \A i, j \in DOMAIN scan[r].todo : i < j => Older(scan[r].todo[i], scan[r].todo[j])'
              /\ ToSet(scan[r].todo) \subseteq Reach({HeadOf(r)}, NoCommit)'
<1>1. UNCHANGED history
  BY HistoryKept
<1>2. HeadOf(r)' = HeadOf(r) /\ Chunk(r)' = Chunk(r)
  BY <1>1 DEF HeadOf, Chunk
<1>3. \A c : (Matched(c) => Matched(c)') /\ (Complete(c) => Complete(c)')
  BY CompleteStays
<1>4. \A c, d : Older(c, d) => Older(c, d)'
  BY <1>1 DEF Older, Commit
<1>5. Reach({HeadOf(r)}, NoCommit)' = Reach({HeadOf(r)}, NoCommit)
      /\ Scanned(HeadOf(r), NoCommit)' = Scanned(HeadOf(r), NoCommit)
  BY <1>1, <1>2 DEF Scanned, Reach, Commits, Commit
<1>6. at'[r] = at[r] \/ (at[r] \in Walking /\ at'[r] \in Walking) => StopBehind(r)'
  BY <1>3, <1>5 DEF StopBehind, Follows, Walking, Matchings, Rollings
<1>7. at[r] \in Walking =>
        \A c \in Scanned(HeadOf(r), NoCommit)' : Matched(c)' \/ c \in ToSet(scan[r].todo)
  BY <1>3, <1>5 DEF Follows, RestToDo
<1>8. at[r] \in Matchings =>
        /\ \A i, j \in DOMAIN scan[r].todo : i < j => Older(scan[r].todo[i], scan[r].todo[j])'
        /\ ToSet(scan[r].todo) \subseteq Reach({HeadOf(r)}, NoCommit)'
  BY <1>4, <1>5 DEF Follows, RestToDo
<1> QED
  BY <1>2, <1>6, <1>7, <1>8

\* Nor does a step of someone else, or a return, disturb it.
LEMMA FollowsStill ==
  ASSUME TypeInv, FoundNew, [Next]_vars, NEW r \in Runs, Follows(r),
         scan'[r] = scan[r], at'[r] \in {at[r], "none", "load", "state"} \cup Returned
  PROVE  Follows(r)'
<1>1. CASE at'[r] = at[r]
  <2>1. StopBehind(r)'
    BY <1>1, WalkStays
  <2>2. RestToDo(r)'
    <3>1. /\ at[r] \in Walking =>
               \A c \in Scanned(HeadOf(r), NoCommit)' : Matched(c)' \/ c \in ToSet(scan[r].todo)
          /\ at[r] \in Matchings =>
               /\ \A i, j \in DOMAIN scan[r].todo : i < j => Older(scan[r].todo[i], scan[r].todo[j])'
               /\ ToSet(scan[r].todo) \subseteq Reach({HeadOf(r)}, NoCommit)'
      BY WalkStays
    <3> QED
      BY <1>1, <3>1 DEF RestToDo, Follows
  <2>3. ChunkFound(r)'
    <3>1. Chunk(r)' = Chunk(r)
      BY WalkStays
    <3>2. \A c : Matching(c)' = Matching(c) /\ (Matched(c) => Matched(c)')
      BY CompleteStays
    <3>3. \A c : \A p \in Matching(c) : Given(p) => Given(p)'
      BY GivenStays DEF Matching, LinkMatches, PatchIdMatches
    <3>4. Commits' = Commits
      BY HistoryKept DEF Commits
    <3> QED
      BY <1>1, <3>1, <3>2, <3>3, <3>4 DEF ChunkFound, Follows
  <2> QED
    BY <2>1, <2>2, <2>3 DEF Follows
<1>2. CASE at'[r] \in {"none", "load", "state"} \cup Returned
  BY <1>2 DEF Follows, StopBehind, RestToDo, ChunkFound, Walking, Matchings, Rollings, Returned
<1> QED
  BY <1>1, <1>2

\* A scan that begins takes the end of the last scan that was marked.
LEMMA BeginsFollow ==
  ASSUME TypeInv, FoundNew, [Next]_vars, NEW r \in Runs, Follows(r), StateBehind, EnsureState(r) \/ Unready(r)
  PROVE  Follows(r)'
<1>1. scan \in [Runs -> ScanRow] /\ at = [j \in Jobs |-> at[j]] /\ r \in Jobs
  BY FieldsOf
<1>2. at'[r] \in {"unready", "prepare"} /\ (scan'[r].last = state.last \/ (at[r] = "unready" /\ scan' = scan))
  <2>1. CASE EnsureState(r)
    <3>1. at'[r] = "unready" \/ at'[r] = "prepare"
      <4> DEFINE s == IF runs[r].mode = "bootstrap" THEN "unready" ELSE "prepare"
      <4>1. s = "unready" \/ s = "prepare"
        OBVIOUS
      <4> HIDE DEF s
      <4>2. at'[r] = s
        BY <1>1, <2>1 DEF EnsureState, HandlerStep, s
      <4> QED
        BY <4>1, <4>2
    <3>2. scan'[r].last = state.last
      <4>1. scan' = [scan EXCEPT ![r].ready = state.ready, ![r].last = state.last]
        BY <2>1 DEF EnsureState
      <4>2. scan[r] \in ScanRow /\ DOMAIN scan = Runs
        BY <1>1
      <4>3. "last" \in DOMAIN scan[r]
        BY <4>2 DEF ScanRow
      <4>4. scan'[r] = [scan[r] EXCEPT !.ready = state.ready, !.last = state.last]
        BY <4>1, <4>2
      <4> QED
        BY <4>3, <4>4
    <3> QED
      BY <3>1, <3>2
  <2>2. CASE Unready(r)
    BY <1>1, <2>2 DEF Unready, HandlerStep
  <2> QED
    BY <2>1, <2>2
<1>3. \A c : Complete(c) => Complete(c)'
  BY CompleteStays
<1>4. StopBehind(r)'
  BY <1>2, <1>3 DEF StopBehind, Follows, StateBehind, Walking, Matchings, Rollings
<1> QED
  BY <1>2, <1>4 DEF Follows, RestToDo, ChunkFound, Walking, Matchings, Rollings

\* Behind the commit the walk stops at all is done; so the walk leaves out nothing else.
LEMMA PrepareFollows ==
  ASSUME TypeInv, FoundNew, [Next]_vars, kind = "mainline", NEW r \in Runs, Follows(r), CursorBehind(r), Prepare(r)
  PROVE  Follows(r)'
<1> DEFINE h    == history.steps[step].head
           s    == Since(r)
           todo == Walk(h, s)
<1>1. scan \in [Runs -> ScanRow] /\ at = [j \in Jobs |-> at[j]] /\ r \in Jobs /\ UNCHANGED history
  BY FieldsOf, HistoryKept
<1>2. /\ at[r] = "prepare" /\ at'[r] \in {"chunk", "sum", "state_done"}
      /\ at'[r] \in {"sum", "state_done"} => todo = <<>>
      /\ scan'[r].step = step /\ scan'[r].todo = todo
      /\ scan'[r].last = IF runs[r].cursor[1] # NoCommit THEN runs[r].cursor[1] ELSE scan[r].last
  BY <1>1 DEF Prepare, HandlerStep, AfterChunks, ScanRow
<1>3. Repository(history) /\ h \in Commits /\ s \in {NoCommit} \cup Commits
  BY StepIs DEF TypeInv, ScanTypeOK, ScanInStep, ScanRow, Since
<1>4. (runs[r].cursor[1] # NoCommit => Complete(runs[r].cursor[1]))
      /\ (scan[r].last # NoCommit => Complete(scan[r].last))
  BY <1>2 DEF CursorBehind, Follows, StopBehind, Beginning, Walking, Matchings, Rollings
<1>5. s # NoCommit => Complete(s)
  BY <1>4 DEF Since
<1> HIDE DEF h, s
<1>6. /\ ToSet(todo) = Scanned(h, s)
      /\ \A i, j \in DOMAIN todo : i < j => Older(todo[i], todo[j])
  BY <1>3, WalkIs
<1>7. ASSUME NEW c \in Scanned(h, NoCommit) PROVE Matched(c) \/ c \in Scanned(h, s)
  <2>1. CASE s = NoCommit
    BY <2>1
  <2>2. CASE s # NoCommit
    <3>1. c \in Reach({h}, s) \/ c \in Reach({s}, NoCommit)
      BY <1>3, <2>2, WalkParts DEF Scanned
    <3> QED
      BY <1>5, <2>2, <3>1 DEF Scanned, Complete
  <2> QED
    BY <2>1, <2>2
<1>8. Scanned(h, s) \subseteq Reach({h}, NoCommit)
  <2>1. CASE s = NoCommit
    BY <2>1 DEF Scanned
  <2>2. CASE s # NoCommit
    BY <1>3, <2>2, WalkParts DEF Scanned
  <2> QED
    BY <2>1, <2>2
<1> HIDE DEF todo
<1>9. HeadOf(r)' = h
  BY <1>1, <1>2 DEF HeadOf, h
<1>10. Scanned(HeadOf(r), NoCommit)' = Scanned(h, NoCommit) /\ Reach({HeadOf(r)}, NoCommit)' = Reach({h}, NoCommit)
  BY <1>1, <1>9 DEF Scanned, Reach, Commits, Commit
<1>11. \A c : (Matched(c) => Matched(c)') /\ (Complete(c) => Complete(c)')
  BY CompleteStays
<1>12. \A c, d : Older(c, d) => Older(c, d)'
  BY <1>1 DEF Older, Commit
<1>13. StopBehind(r)'
  BY <1>2, <1>4, <1>11 DEF StopBehind
<1>14. RestToDo(r)'
  BY <1>2, <1>6, <1>7, <1>8, <1>10, <1>11, <1>12 DEF RestToDo, Matchings, Rollings
<1>15. ChunkFound(r)'
  BY <1>2 DEF ChunkFound
<1> QED
  BY <1>13, <1>14, <1>15 DEF Follows

\* What a chunk matches is found before its matches are written.
LEMMA ResolveFollows ==
  ASSUME TypeInv, FoundNew, [Next]_vars, kind = "mainline", NEW r \in Runs, Follows(r),
         Resolve(r) \/ UpsertCommits(r) \/ UnsetCanonical(r)
  PROVE  Follows(r)'
<1>1. scan \in [Runs -> ScanRow] /\ at = [j \in Jobs |-> at[j]] /\ r \in Jobs
  BY FieldsOf
<1>2. /\ scan'[r].step = scan[r].step /\ scan'[r].todo = scan[r].todo /\ scan'[r].last = scan[r].last
      /\ at[r] \in Matchings /\ at'[r] \in Matchings
  <2>1. CASE Resolve(r)
    BY <1>1, <2>1 DEF Resolve, HandlerStep, Matchings, ScanRow
  <2>2. CASE UpsertCommits(r)
    BY <1>1, <2>2 DEF UpsertCommits, HandlerStep, Matchings
  <2>3. CASE UnsetCanonical(r)
    BY <1>1, <2>3 DEF UnsetCanonical, HandlerStep, Matchings
  <2> QED
    BY <2>1, <2>2, <2>3
<1>3. /\ Chunk(r)' = Chunk(r) /\ StopBehind(r)'
      /\ \A c \in Scanned(HeadOf(r), NoCommit)' : Matched(c)' \/ c \in ToSet(scan[r].todo)
      /\ \A i, j \in DOMAIN scan[r].todo : i < j => Older(scan[r].todo[i], scan[r].todo[j])'
      /\ ToSet(scan[r].todo) \subseteq Reach({HeadOf(r)}, NoCommit)'
  BY <1>2, WalkStays DEF Walking
<1>4. RestToDo(r)'
  BY <1>2, <1>3 DEF RestToDo, Matchings, Rollings
<1>5. \A c : Matching(c)' = Matching(c)
  BY CompleteStays
<1>9. \A c : \A p \in Matching(c) : Given(p) => Given(p)'
  BY GivenStays DEF Matching, LinkMatches, PatchIdMatches
<1>6. UNCHANGED history
  BY HistoryKept
<1>7. CASE Resolve(r)
  <2>1. scan[r].todo # <<>>
    BY <1>7 DEF TypeInv, ScanInStep, Resolve, HandlerStep
  <2>2. /\ scan'[r].found = NewMatches(Chunk(r)) /\ at'[r] \in {"commits", "save"}
        /\ at'[r] = "save" => NewMatches(Chunk(r)) = {}
    BY <1>1, <1>7 DEF Resolve, HandlerStep, ScanRow
  <2>3. \A c \in ToSet(Chunk(r)) : \A p \in Matching(c) :
          Given(p) \/ \E d \in Commits : <<p, d>> \in NewMatches(Chunk(r))
    BY <2>1, FoundAll DEF Given
  <2>4. Commits' = Commits
    BY <1>6 DEF Commits
  <2>5. ChunkFound(r)'
    <3>1. CASE at'[r] = "commits"
      BY <1>3, <1>5, <1>9, <2>2, <2>3, <2>4, <3>1 DEF ChunkFound
    <3>2. CASE at'[r] = "save"
      BY <1>3, <1>5, <1>9, <2>2, <2>3, <3>2 DEF ChunkFound, Matched
    <3> QED
      BY <2>2, <3>1, <3>2
  <2> QED
    BY <1>3, <1>4, <2>5 DEF Follows
<1>8. CASE UpsertCommits(r) \/ UnsetCanonical(r)
  <2>1. /\ scan' = scan /\ at[r] \in {"commits", "matches"} /\ at'[r] \in {"matches", "insert"}
        /\ Commits' = Commits
    BY <1>1, <1>6, <1>8 DEF UpsertCommits, UnsetCanonical, HandlerStep, Commits
  <2>2. ChunkFound(r)'
    BY <1>3, <1>5, <1>9, <2>1 DEF ChunkFound, Follows
  <2> QED
    BY <1>3, <1>4, <2>2 DEF Follows
<1> QED
  BY <1>7, <1>8

\* And written as it was found.
LEMMA MatchesFollow ==
  ASSUME TypeInv, FoundNew, [Next]_vars, kind = "mainline", NEW r \in Runs, Follows(r), InsertMatches(r)
  PROVE  Follows(r)'
<1>1. scan \in [Runs -> ScanRow] /\ at = [j \in Jobs |-> at[j]] /\ r \in Jobs
  BY FieldsOf
<1>2. /\ scan'[r].step = scan[r].step /\ scan'[r].todo = scan[r].todo /\ scan'[r].last = scan[r].last
      /\ at[r] = "insert" /\ at'[r] = "save"
  BY <1>1 DEF InsertMatches, HandlerStep, ScanRow
<1>3. /\ Chunk(r)' = Chunk(r) /\ StopBehind(r)'
      /\ \A c \in Scanned(HeadOf(r), NoCommit)' : Matched(c)' \/ c \in ToSet(scan[r].todo)
      /\ \A i, j \in DOMAIN scan[r].todo : i < j => Older(scan[r].todo[i], scan[r].todo[j])'
      /\ ToSet(scan[r].todo) \subseteq Reach({HeadOf(r)}, NoCommit)'
  BY <1>2, WalkStays DEF Walking, Matchings
<1>4. RestToDo(r)'
  BY <1>2, <1>3 DEF RestToDo, Matchings, Rollings
<1>5. ASSUME NEW c \in ToSet(Chunk(r)), NEW p \in Matching(c) PROVE Given(p)'
  <2>1. p \in Items /\ NoCommit \notin Commits
    BY DEF Matching, LinkMatches, PatchIdMatches, TypeInv, ScanInStep, Repository, Commits
  <2>2. CASE Given(p)
    BY <2>1, <2>2, GivenStays
  <2>3. CASE \E d \in Commits : <<p, d>> \in scan[r].found
    <3>1. matches'[p] = CHOOSE d \in Commits : <<p, d>> \in scan[r].found
      BY <2>1, <2>3 DEF InsertMatches
    <3>2. matches'[p] # NoCommit
      BY <2>1, <2>3, <3>1
    <3> QED
      BY <3>2 DEF Given
  <2> QED
    BY <1>2, <2>2, <2>3 DEF Follows, ChunkFound
<1>6. \A c : Matching(c)' = Matching(c)
  BY CompleteStays
<1>7. ChunkFound(r)'
  BY <1>2, <1>3, <1>5, <1>6 DEF ChunkFound, Matched
<1> QED
  BY <1>3, <1>4, <1>7 DEF Follows

\* After a chunk the rest is what was to do, and its last commit is behind the head.
LEMMA SaveFollows ==
  ASSUME TypeInv, FoundNew, [Next]_vars, kind = "mainline", NEW r \in Runs, Follows(r), SaveChunk(r)
  PROVE  Follows(r)'
<1> DEFINE todo == scan[r].todo
           n    == Len(Chunk(r))
           rest == SubSeq(todo, n + 1, Len(todo))
<1>1. scan \in [Runs -> ScanRow] /\ at = [j \in Jobs |-> at[j]] /\ r \in Jobs /\ UNCHANGED history
  BY FieldsOf, HistoryKept
<1>2. /\ at[r] = "save" /\ at'[r] \in {"chunk", "sum", "state_done"}
      /\ at'[r] = "chunk" \/ rest = <<>>
      /\ scan'[r].step = scan[r].step /\ scan'[r].todo = rest /\ scan'[r].last = Last(Chunk(r))
  BY <1>1 DEF SaveChunk, HandlerStep, AfterChunks, ScanRow
<1>3. todo # <<>>
  BY <1>2 DEF TypeInv, ScanInStep
<1>4. /\ n \in 1..Len(todo) /\ n \in Nat /\ todo \in Seq(Commits) /\ Last(Chunk(r)) = todo[n]
      /\ \A i \in 1..n : todo[i] \in ToSet(Chunk(r))
      /\ DOMAIN rest = 1..(Len(todo) - n) /\ \A i \in DOMAIN rest : rest[i] = todo[i + n]
      /\ \A i \in (n + 1)..Len(todo) : todo[i] \in ToSet(rest)
  BY <1>3, ChunkParts
<1>5. /\ \A c \in Scanned(HeadOf(r), NoCommit) : Matched(c) \/ c \in ToSet(todo)
      /\ \A i, j \in DOMAIN todo : i < j => Older(todo[i], todo[j])
      /\ ToSet(todo) \subseteq Reach({HeadOf(r)}, NoCommit)
      /\ \A c \in ToSet(Chunk(r)) : Matched(c)
  BY <1>2 DEF Follows, RestToDo, ChunkFound, Walking, Matchings
<1> HIDE DEF todo, n, rest
<1>6. DOMAIN todo = 1..Len(todo) /\ Len(todo) \in Nat
  BY <1>4
<1>7. HeadOf(r)' = HeadOf(r)
  BY <1>1, <1>2 DEF HeadOf
<1>8. /\ Reach({HeadOf(r)}, NoCommit)' = Reach({HeadOf(r)}, NoCommit)
      /\ Scanned(HeadOf(r), NoCommit)' = Scanned(HeadOf(r), NoCommit)
  BY <1>1, <1>7 DEF Scanned, Reach, Commits, Commit
<1>9. \A c : Matched(c) => Matched(c)'
  BY CompleteStays
<1>10. \A c, d : Older(c, d) => Older(c, d)'
  BY <1>1 DEF Older, Commit
<1>11. ASSUME NEW c \in ToSet(todo) PROVE Matched(c) \/ c \in ToSet(rest)
  <2>1. PICK i \in DOMAIN todo : c = todo[i]
    BY DEF ToSet
  <2>2. i \in 1..n \/ i \in (n + 1)..Len(todo)
    BY <1>4, <1>6, <2>1
  <2> QED
    BY <1>4, <1>5, <2>1, <2>2
<1>12. ASSUME NEW i \in DOMAIN rest PROVE i + n \in DOMAIN todo /\ rest[i] = todo[i + n]
  BY <1>4, <1>6
<1>13. ToSet(rest) \subseteq ToSet(todo)
  BY <1>12 DEF ToSet
<1>14. \A i, j \in DOMAIN rest : i < j => Older(rest[i], rest[j])
  <2> SUFFICES ASSUME NEW i \in DOMAIN rest, NEW j \in DOMAIN rest, i < j PROVE Older(rest[i], rest[j])
    OBVIOUS
  <2>1. i \in Int /\ j \in Int /\ i + n < j + n
    BY <1>4, <1>6
  <2> QED
    BY <1>5, <1>12, <2>1
<1>15. Last(Chunk(r)) \in Reach({HeadOf(r)}, NoCommit)
  <2>1. todo[n] \in ToSet(todo)
    BY <1>4, <1>6 DEF ToSet
  <2> QED
    BY <1>4, <1>5, <2>1
<1>16. StopBehind(r)'
  BY <1>2, <1>8, <1>15 DEF StopBehind, Walking, Matchings, Rollings
<1>17. RestToDo(r)'
  BY <1>2, <1>5, <1>8, <1>9, <1>10, <1>11, <1>13, <1>14 DEF RestToDo, Matchings, Rollings
<1>18. ChunkFound(r)'
  BY <1>2 DEF ChunkFound
<1> QED
  BY <1>16, <1>17, <1>18 DEF Follows

\* The rollups leave the walk alone.
LEMMA RollupsFollowOn ==
  ASSUME TypeInv, FoundNew, [Next]_vars, kind = "mainline", NEW r \in Runs, Follows(r),
         SumUp(r) \/ WriteRollup(r) \/ Publish(r) \/ MarkState(r)
  PROVE  Follows(r)'
<1>1. scan \in [Runs -> ScanRow] /\ at = [j \in Jobs |-> at[j]] /\ r \in Jobs
  BY FieldsOf
<1>2. /\ scan'[r].step = scan[r].step /\ scan'[r].todo = scan[r].todo /\ scan'[r].last = scan[r].last
      /\ at[r] \in {"state_done"} \cup Rollings
      /\ at'[r] \in {"state_done", "run_done", "retryable"} \cup Rollings
  <2>1. CASE SumUp(r)
    BY <1>1, <2>1 DEF SumUp, HandlerStep, Rollings, ScanRow
  <2>2. CASE WriteRollup(r)
    BY <1>1, <2>2 DEF WriteRollup, HandlerStep, Rollings, ScanRow
  <2>3. CASE Publish(r)
    BY <1>1, <2>3 DEF Publish, HandlerStep, Rollings, ScanRow
  <2>4. CASE MarkState(r)
    BY <1>1, <2>4 DEF MarkState, HandlerStep, Rollings
  <2> QED
    BY <2>1, <2>2, <2>3, <2>4
<1>3. CASE at'[r] \in {"run_done", "retryable"}
  BY <1>3 DEF Follows, StopBehind, RestToDo, ChunkFound, Walking, Matchings, Rollings
<1>4. CASE at'[r] \in {"state_done"} \cup Rollings
  <2>1. at[r] \in Walking /\ at'[r] \in Walking /\ at'[r] \notin Matchings
    BY <1>2, <1>4 DEF Walking, Matchings, Rollings
  <2>2. /\ StopBehind(r)'
        /\ \A c \in Scanned(HeadOf(r), NoCommit)' : Matched(c)' \/ c \in ToSet(scan[r].todo)
    BY <1>2, <2>1, WalkStays
  <2>3. scan[r].todo = <<>>
    BY <1>2 DEF Follows, RestToDo
  <2>4. RestToDo(r)'
    BY <1>2, <1>4, <2>1, <2>2, <2>3 DEF RestToDo
  <2>5. ChunkFound(r)'
    BY <2>1 DEF ChunkFound, Matchings
  <2> QED
    BY <2>2, <2>4, <2>5 DEF Follows
<1> QED
  BY <1>2, <1>3, <1>4

\* No step disturbs what is true of a scan.
LEMMA FollowsStep ==
  ASSUME TypeInv, FoundNew, [Next]_vars, kind = "mainline", StateBehind, NEW r \in Runs, Follows(r), CursorBehind(r)
  PROVE  Follows(r)'
<1>1. CASE scan'[r] = scan[r] /\ at'[r] \in {at[r], "none", "load", "state"} \cup Returned
  BY <1>1, FollowsStill
<1>2. CASE at'[r] = "none"
  BY <1>2 DEF Follows, StopBehind, RestToDo, ChunkFound, Walking, Matchings, Rollings
<1> QED
  BY <1>1, <1>2, ScanAtMoves, BeginsFollow, PrepareFollows, ResolveFollows, MatchesFollow, SaveFollows,
     RollupsFollowOn

\* A cursor is moved behind a chunk: what is older than its last commit is in the chunk or was
\* done before, where dates are in order.
LEMMA CursorStep ==
  ASSUME TypeInv, FoundNew, [Next]_vars, kind = "mainline", Resumable', NEW r \in Runs, Follows(r), CursorBehind(r)
  PROVE  CursorBehind(r)'
<1>1. Resumable /\ (Dated' <=> Dated) /\ UNCHANGED history
  BY ResumableBefore, HistoryKept
<1>2. /\ attempt[r] \in Nat /\ attempt'[r] \in Nat /\ r \in Jobs /\ at = [j \in Jobs |-> at[j]]
      /\ runs \in [Runs -> RunRow]
      /\ attempt'[r] = attempt[r] \/ attempt'[r] = attempt[r] + 1
  <2>1. r \in Jobs /\ attempt[r] \in Nat
    BY JobSets DEF TypeInv, ControlTypeOK
  <2> QED
    BY <2>1, TaskMoves, FieldsOf
<1>3. at'[r] # "none" => attempt'[r] # 0
  BY <1>2, TaskMoves DEF CursorBehind
<1>4. CASE runs'[r].cursor = runs[r].cursor
  <2> SUFFICES ASSUME runs[r].cursor[1] # NoCommit
               PROVE  IF Dated THEN Complete(runs[r].cursor[1])' ELSE attempt'[r] # 0 /\ at'[r] \notin Beginning
    BY <1>1, <1>3, <1>4 DEF CursorBehind
  <2>1. CASE Dated
    <3>1. Complete(runs[r].cursor[1])
      BY <2>1 DEF CursorBehind
    <3>2. \A c : Complete(c) => Complete(c)'
      BY CompleteStays
    <3>3. runs'[r].cursor[1] = runs[r].cursor[1]
      BY <1>4
    <3>4. Complete(runs[r].cursor[1])'
      BY <3>1, <3>2, <3>3
    <3> QED
      BY <2>1, <3>4
  <2>2. CASE ~Dated
    <3>1. attempt[r] # 0 /\ at[r] \notin Beginning /\ attempt'[r] =< 1
      BY <1>1, <2>2 DEF CursorBehind, Resumable
    <3>2. at'[r] \notin Beginning
      BY <1>2, <3>1, BeginsWithClaim
    <3> QED
      BY <1>2, <2>2, <3>1, <3>2
  <2> QED
    BY <2>1, <2>2
<1>5. CASE runs'[r].cursor # runs[r].cursor
  <2> DEFINE todo == scan[r].todo
             n    == Len(Chunk(r))
  <2>1. SaveChunk(r)
    BY <1>5, CursorMoves
  <2>2. /\ at[r] = "save" /\ at'[r] \in {"chunk", "sum", "state_done"} /\ todo # <<>>
        /\ runs'[r].cursor[1] = Last(Chunk(r))
    <3>1. at[r] = "save" /\ at'[r] \in {"chunk", "sum", "state_done"}
      BY <1>2, <2>1 DEF SaveChunk, HandlerStep, AfterChunks
    <3>2. runs'[r].cursor[1] = Last(Chunk(r))
      <4>1. runs' = [runs EXCEPT ![r].cursor[1] = Last(Chunk(r))]
        BY <2>1 DEF SaveChunk
      <4>2. 1 \in DOMAIN runs[r].cursor
        BY <1>2 DEF RunRow
      <4> QED
        BY <1>2, <4>1, <4>2 DEF RunRow
    <3> QED
      BY <3>1, <3>2 DEF TypeInv, ScanInStep
  <2>a. PICK c : c = todo[n]
    OBVIOUS
  <2>3. /\ n \in 1..Len(todo) /\ n \in Nat /\ todo \in Seq(Commits) /\ Last(Chunk(r)) = c
        /\ \A i \in 1..n : todo[i] \in ToSet(Chunk(r))
    BY <2>2, <2>a, ChunkParts
  <2>4. /\ \A d \in Scanned(HeadOf(r), NoCommit) : Matched(d) \/ d \in ToSet(todo)
        /\ \A i, j \in DOMAIN todo : i < j => Older(todo[i], todo[j])
        /\ ToSet(todo) \subseteq Reach({HeadOf(r)}, NoCommit)
        /\ \A d \in ToSet(Chunk(r)) : Matched(d)
    BY <2>2 DEF Follows, RestToDo, ChunkFound, Walking, Matchings
  <2>5. Repository(history) /\ HeadOf(r) \in Commits
    <3>1. Repository(history) /\ scan[r].step \in 1..Len(history.steps)
      BY <2>2 DEF TypeInv, ScanTypeOK, ScanInStep, ScanRow
    <3> QED
      BY <3>1, StepIs DEF HeadOf
  <2> HIDE DEF todo, n
  <2>6. DOMAIN todo = 1..Len(todo) /\ Len(todo) \in Nat /\ n \in DOMAIN todo /\ c \in Commits
    BY <2>3, <2>a
  <2>7. CASE Dated
    <3>1. c \in Reach({HeadOf(r)}, NoCommit)
      BY <2>4, <2>6, <2>a DEF ToSet
    <3>2. ASSUME NEW d \in Scanned(c, NoCommit) PROVE Matched(d)
      <4>1. d \in Commits /\ d \in Reach({c}, NoCommit) /\ d \in Scanned(HeadOf(r), NoCommit)
        BY <2>5, <3>1, <3>2, WalkGoesOn DEF Scanned
      <4>2. SUFFICES ASSUME d \in ToSet(todo), d \notin ToSet(Chunk(r)) PROVE FALSE
        BY <2>4, <4>1
      <4>3. PICK i \in DOMAIN todo : d = todo[i]
        BY <4>2 DEF ToSet
      <4>4. n < i
        BY <2>3, <2>6, <4>2, <4>3
      <4>5. Older(c, d)
        BY <2>4, <2>6, <2>a, <4>3, <4>4
      <4>6. Commit(c).time \in Nat /\ Commit(d).time \in Nat /\ c \in Nat /\ d \in Nat
        BY <2>5, <2>6, <4>1 DEF Repository, Commits, Commit
      <4>7. d # c
        BY <4>5, <4>6 DEF Older
      <4>8. Older(d, c)
        BY <2>5, <2>6, <2>7, <4>1, <4>7, ReachOlder
      <4> QED
        BY <4>5, <4>6, <4>8 DEF Older
    <3>3. Complete(c)
      BY <3>2 DEF Complete
    <3>4. Complete(c)'
      BY <3>3, CompleteStays
    <3>5. runs'[r].cursor[1] = c
      BY <2>2, <2>3
    <3>6. Complete(runs[r].cursor[1])'
      BY <3>4, <3>5
    <3> QED
      BY <1>1, <1>3, <2>7, <3>6 DEF CursorBehind
  <2>8. CASE ~Dated
    BY <1>1, <1>2, <1>3, <2>2, <2>8 DEF CursorBehind, Beginning
  <2> QED
    BY <2>7, <2>8
<1> QED
  BY <1>4, <1>5

\* A scan that gets to its end has done all that is behind the head it walked from.
LEMMA StateStep ==
  ASSUME TypeInv, FoundNew, [Next]_vars, kind = "mainline", StateBehind, \A r \in Runs : Follows(r)
  PROVE  StateBehind'
<1>1. \A c : Complete(c) => Complete(c)'
  BY CompleteStays
<1>2. ASSUME state'.head = state.head, state'.last = state.last PROVE StateBehind'
  BY <1>1, <1>2 DEF StateBehind
<1>3. ASSUME NEW r \in Runs, MarkState(r) PROVE StateBehind'
  <2>1. at[r] = "state_done" /\ Follows(r)
    BY <1>3 DEF MarkState, HandlerStep
  <2>2. /\ state'.head = HeadOf(r)
        /\ state'.last = scan[r].last \/ state'.last = state.last
        /\ scan[r].last = NoCommit => state'.last = state.last
    BY <1>3 DEF MarkState, HeadOf
  <2>3. scan[r].todo = <<>> /\ \A c \in Scanned(HeadOf(r), NoCommit) : Matched(c) \/ c \in ToSet(scan[r].todo)
    BY <2>1 DEF Follows, RestToDo, Walking
  <2>4. \A c \in Scanned(HeadOf(r), NoCommit) : Matched(c)
    BY <2>3 DEF ToSet
  <2>5. Complete(HeadOf(r))
    BY <2>4 DEF Complete
  <2>6. Repository(history) /\ HeadOf(r) \in Commits
    <3>1. Repository(history) /\ scan[r].step \in 1..Len(history.steps)
      BY <2>1 DEF TypeInv, ScanTypeOK, ScanInStep, ScanRow
    <3> QED
      BY <3>1, StepIs DEF HeadOf
  <2>7. CASE scan[r].last \in Reach({HeadOf(r)}, NoCommit)
    <3>1. Reach({scan[r].last}, NoCommit) \subseteq Reach({HeadOf(r)}, NoCommit)
      BY <2>6, <2>7, WalkGoesOn
    <3>2. Scanned(scan[r].last, NoCommit) \subseteq Scanned(HeadOf(r), NoCommit)
      BY <3>1 DEF Scanned
    <3>3. Complete(scan[r].last)
      BY <2>4, <3>2 DEF Complete
    <3> QED
      BY <1>1, <2>2, <2>5, <3>3 DEF StateBehind
  <2>8. CASE scan[r].last = NoCommit \/ Complete(scan[r].last)
    BY <1>1, <2>2, <2>5, <2>8 DEF StateBehind
  <2> QED
    BY <2>1, <2>7, <2>8 DEF Follows, StopBehind, Walking
<1>4. ASSUME NEW r \in Runs, Unready(r) PROVE state'.head = state.head /\ state'.last = state.last
  BY <1>4, FieldsOf DEF Unready
<1>5. ASSUME NEW r \in Runs,
             \/ EnsureState(r) \/ Prepare(r) \/ Resolve(r) \/ UpsertCommits(r) \/ UnsetCanonical(r)
             \/ InsertMatches(r) \/ InsertRefused(r) \/ SaveChunk(r) \/ SumUp(r) \/ WriteRollup(r) \/ Publish(r)
             \/ ScanCancelled(r) \/ ScanBreaks(r)
      PROVE  state' = state
  BY <1>5 DEF tableVars, EnsureState, Prepare, Resolve, UpsertCommits, UnsetCanonical, InsertMatches,
              InsertRefused, SaveChunk, SumUp, WriteRollup, Publish, ScanCancelled, ScanBreaks
<1>6. ASSUME UNCHANGED scanVars \/ Fetch \/ \E j \in Jobs : ScanForgets(j) PROVE state' = state
  BY <1>6 DEF scanVars, tableVars, Fetch, ScanForgets
<1>7. state' = state => StateBehind'
  BY <1>2
<1> QED
  BY <1>2, <1>3, <1>4, <1>5, <1>6, <1>7, TableMoves

\* The invariant is inductive, over TypeInv.
LEMMA WalkStep ==
  ASSUME TypeInv, FoundNew, [Next]_vars, WalkInv
  PROVE  WalkInv'
<1>1. kind' = kind
  BY SetupKept
<1>2. CASE kind # "mainline"
  <2>1. state' = state
    BY <1>2, TableMoves DEF scanVars, tableVars, ScanForgets
  <2> QED
    BY <1>1, <1>2, <2>1 DEF WalkInv
<1>3. CASE kind = "mainline"
  <2> SUFFICES ASSUME Resumable'
               PROVE  StateBehind' /\ \A r \in Runs : CursorBehind(r)' /\ Follows(r)'
    BY <1>1, <1>3 DEF WalkInv, Follows
  <2>1. Resumable
    BY ResumableBefore
  <2>2. StateBehind /\ \A r \in Runs : CursorBehind(r) /\ Follows(r)
    BY <1>3, <2>1 DEF WalkInv, Follows
  <2>3. StateBehind'
    BY <1>3, <2>2, StateStep
  <2>4. \A r \in Runs : Follows(r)'
    BY <1>3, <2>2, FollowsStep
  <2>5. \A r \in Runs : CursorBehind(r)'
    BY <1>3, <2>2, CursorStep
  <2> QED
    BY <2>3, <2>4, <2>5
<1> QED
  BY <1>2, <1>3

\* And holds before the first scan.
LEMMA WalkFromStart == Init => WalkInv
<1> SUFFICES ASSUME Init PROVE WalkInv
  OBVIOUS
<1>1. state.head = NoCommit /\ state.last = NoCommit
  BY DEF Init, ScanInit
<1>2. \A j \in Jobs : at[j] = "none"
  BY DEF Init, ControlInit
<1>3. \A r \in Runs : at[r] = "none" /\ runs[r].cursor[1] = NoCommit
  BY <1>2, JobSets DEF Init, ControlInit, NewRun, NoCommit
<1> QED
  BY <1>1, <1>3
     DEF WalkInv, StateBehind, CursorBehind, StopBehind, RestToDo, ChunkFound, Walking, Matchings, Rollings

\* NothingMissed (the walk, chunks and cursors of mainline.rs): once a scan was marked, every patch
\* that a commit behind the scanned head matches was given a commit, whatever was cut short and
\* resumed before, for every repository; where some commit is not dated after its parents, that is
\* so as long as no scan was resumed.  With one slot the commit is canonical.  With more it was
\* when it was given, and its row is still there; the UPDATE another scan begins its writing of
\* matches with may have made it one that is not canonical.
THEOREM ScansMissNone == Spec => []NothingMissed
<1>1. TypeInv /\ WalkInv => NothingMissed
  BY DEF WalkInv, NothingMissed, Resumable, StateBehind, Complete, Matched
<1>2. TypeInv /\ FoundNew /\ WalkInv /\ [Next]_vars => WalkInv'
  BY WalkStep
<1> QED
  BY <1>1, <1>2, OneSlot, WalkFromStart, PTL DEF Spec

=============================================================================
