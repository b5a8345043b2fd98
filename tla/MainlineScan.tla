---------------------------- MODULE MainlineScan ----------------------------
(***************************************************************************)
(* The mainline scan: which mailed patches were merged, and as which       *)
(* commit (pipeline/mainline.rs and nexus-db/mainline.rs).                 *)
(*                                                                         *)
(* A scan walks the commits of the repository chunk by chunk, oldest       *)
(* first, gives every patch it recognises a canonical commit, saves a      *)
(* cursor after each chunk, and at the end sums the matches up for each    *)
(* patch series and rewrites its search document.                          *)
(*                                                                         *)
(* A commit is a number; numbers are in the order of the object ids.  The  *)
(* repository is `history`: commits [parents, time, links, pid, subject]   *)
(* and the steps [head, tags] a fetch takes it through, a tag being a pair *)
(* <<sort key, commit>>.  All mail is stored before the first scan.        *)
(***************************************************************************)
EXTENDS OperatorRuns, FiniteSetsExt, SequencesExt

CONSTANTS
  Patches,    \* [item -> [msg, pid, subject]]: the patch items
  Versions,   \* [series -> <<v1, v2, ..>>], each the patch items of a version
  ChunkSize   \* mainline.commit_window_size

Items == DOMAIN Patches
Series == DOMAIN Versions

ASSUME ChunkAssumption == ChunkSize \in Nat \ {0}
ASSUME SeriesAssumption == /\ IsFiniteSet(Items) /\ Series \subseteq Nat
                           /\ \A s \in Series : Versions[s] \in Seq(SUBSET Items) \ {<<>>}
NoCommit == 0
NoTag == 0

VARIABLES
  history,    \* the git repository
  step,       \* which of its steps it is at
  matches,    \* patch_item_mainline_matches where is_canonical
  former,     \* its other rows, pairs <<patch, commit>>
  commitTag,  \* mainline_commits.first_containing_tag, its sort key
  rollup,     \* the mainline_* columns of patch_series
  published,  \* the same, as the series' search document has them
  state,      \* mainline_scan_state
  scan,       \* the variables of each scan in execution
  lost        \* history: series whose rollup a broken incremental scan left out

repoVars == <<history, step>>
tableVars == <<matches, former, commitTag, rollup, published, state>>
scanVars == <<repoVars, tableVars, scan, lost>>

Commits == DOMAIN history.commits
Commit(c) == history.commits[c]

NoSummary == [state |-> "unknown", matched |-> 0, total |-> 0, version |-> 0, tag |-> NoTag]
NoScan == [step |-> 0, todo |-> <<>>, last |-> NoCommit, ready |-> FALSE,
           found |-> {}, affected |-> {}, left |-> {}, sum |-> NoSummary]

\* A repository: its commits are finitely many, and every step has a head.
Repository(h) ==
  LET commits == DOMAIN h.commits
  IN /\ IsFiniteSet(commits) /\ commits \subseteq Nat \ {NoCommit}
     /\ \A c \in commits : h.commits[c].parents \subseteq commits /\ h.commits[c].time \in Nat
     /\ h.steps # <<>>
     /\ h.steps \in Seq([head : commits, tags : {T \in SUBSET (Nat \X commits) : IsFiniteSet(T)}])

SummaryRow == [state : {"unknown", "unmerged", "partial", "merged"},
               matched : Nat, total : Nat, version : Nat, tag : Nat]
ScanRow == [step : 0..Len(history.steps), todo : Seq(Commits), last : {NoCommit} \cup Commits,
            ready : BOOLEAN, found : SUBSET (Items \X Commits),
            affected : SUBSET Series, left : SUBSET Series, sum : SummaryRow]

ScanTypeOK ==
  /\ step \in 1..Len(history.steps)
  /\ matches \in [Items -> {NoCommit} \cup Commits]
  /\ former \subseteq Items \X Commits
  /\ commitTag \in [Commits -> Nat]
  /\ rollup \in [Series -> SummaryRow] /\ published \in [Series -> SummaryRow]
  /\ state \in [head : {NoCommit} \cup Commits, last : {NoCommit} \cup Commits,
                ready : BOOLEAN, bootstrapped : BOOLEAN]
  /\ scan \in [Runs -> ScanRow]
  /\ lost \subseteq Series

ScanInit(histories) ==
  /\ history \in histories
  /\ step = 1
  /\ matches = [p \in Items |-> NoCommit]
  /\ former = {}
  /\ commitTag = [c \in Commits |-> NoTag]
  /\ rollup = [s \in Series |-> NoSummary]
  /\ published = [s \in Series |-> NoSummary]
  /\ state = [head |-> NoCommit, last |-> NoCommit, ready |-> FALSE, bootstrapped |-> FALSE]
  /\ scan = [r \in Runs |-> NoScan]
  /\ lost = {}

-----------------------------------------------------------------------------
(* The walk. *)

\* The commits a walk from `heads` meets that does not go past `stop`.
Reach(heads, stop) ==
  LET met[n \in 0..Cardinality(Commits)] ==
        IF n = 0 THEN heads \ {stop}
        ELSE met[n - 1] \cup ((UNION {Commit(c).parents : c \in met[n - 1]}) \ {stop})
  IN met[Cardinality(Commits)]

\* Merges are walked through and not scanned.
Scanned(head, stop) == {c \in Commits : c \in Reach({head}, stop) /\ Cardinality(Commit(c).parents) =< 1}

\* Mutant of Older: the order the walk yields.
OlderReversed(c, d) == \/ Commit(c).time > Commit(d).time
                       \/ Commit(c).time = Commit(d).time /\ c > d

Older(c, d) == \/ Commit(c).time < Commit(d).time
               \/ Commit(c).time = Commit(d).time /\ c < d

\* The commits of a set, oldest first.
InOrder(S) == [n \in 1..Cardinality(S) |-> CHOOSE c \in S : Cardinality({d \in S : Older(d, c)}) = n - 1]

Walk(head, stop) == InOrder(Scanned(head, stop))

\* assign_release_tags: the lowest tag a commit is contained in.
TagOf(c, n) ==
  LET holding == {t \in history.steps[n].tags : c \in Reach({t[2]}, NoCommit)}
  IN IF holding = {} THEN NoTag ELSE Min({t[1] : t \in holding})

-----------------------------------------------------------------------------
(* The matches of a chunk: resolve_commit_batch_matches. *)

\* Patches whose message a Link: trailer names; if they are not all of one
\* subject, those that have the commit's.
LinkMatches(c) ==
  LET named == {p \in Items : Patches[p].msg \in Commit(c).links}
  IN IF Cardinality({Patches[p].subject : p \in named}) =< 1 THEN named
     ELSE {p \in named : Patches[p].subject = Commit(c).subject}

\* Patches with the commit's patch id; of several, those that have its subject.
PatchIdMatches(c) ==
  LET same == {p \in Items : Patches[p].pid = Commit(c).pid}
  IN IF Cardinality(same) =< 1 THEN same
     ELSE {p \in same : Patches[p].subject = Commit(c).subject}

Matching(c) == LinkMatches(c) \cup PatchIdMatches(c)

\* Mutant of NewMatches: a patch that has its commit is matched again.
NewMatchesAgain(chunk) ==
  {pc \in Items \X ToSet(chunk) :
     /\ pc[1] \in Matching(pc[2])
     /\ \A d \in ToSet(chunk) : pc[1] \in Matching(d) => d = pc[2] \/ Older(pc[2], d)}

\* A patch goes to the first commit of the chunk that matches it, unless it
\* has its canonical commit already.
NewMatches(chunk) ==
  {pc \in Items \X ToSet(chunk) :
     /\ pc[1] \in Matching(pc[2]) /\ matches[pc[1]] = NoCommit
     /\ \A d \in ToSet(chunk) : pc[1] \in Matching(d) => d = pc[2] \/ Older(pc[2], d)}

-----------------------------------------------------------------------------
(* recompute_rollups. *)

Merged(items) == {p \in items : matches[p] # NoCommit}

MergeState(items) == IF Merged(items) = {} THEN "unmerged"
                     ELSE IF Merged(items) = items THEN "merged" ELSE "partial"

\* The latest tag among the patches of a version: it was not merged before.
MergedIn(items) == Max({NoTag} \cup {commitTag[matches[p]] : p \in Merged(items)})

\* The version a series is summed up by: the latest merged one, else the
\* partial one with most patches merged, else the latest.
Chosen(s) ==
  LET merge(v) == MergeState(Versions[s][v])
      merged == {v \in DOMAIN Versions[s] : merge(v) = "merged"}
      partial == {v \in DOMAIN Versions[s] : merge(v) = "partial"}
      size(v) == <<Cardinality(Merged(Versions[s][v])), Cardinality(Versions[s][v])>>
      below(v, w) == \/ size(v)[1] < size(w)[1]
                     \/ size(v)[1] = size(w)[1] /\ size(v)[2] < size(w)[2]
                     \/ size(v) = size(w) /\ v =< w
  IN IF merged # {} THEN Max(merged)
     ELSE IF partial # {} THEN CHOOSE w \in partial : \A v \in partial : below(v, w)
     ELSE Max(DOMAIN Versions[s])

Summary(s) ==
  LET items == Versions[s][Chosen(s)]
  IN [state |-> MergeState(items), matched |-> Cardinality(Merged(items)),
      total |-> Cardinality(items),
      version |-> IF MergeState(items) = "merged" THEN Chosen(s) ELSE 0,
      tag |-> IF MergeState(items) = "merged" THEN MergedIn(items) ELSE NoTag]

-----------------------------------------------------------------------------
(* The handler, handle_mainline_scan_run. *)

\* git fetch of the operator's clone, at any time.
Fetch ==
  /\ step < Len(history.steps)
  /\ step' = step + 1
  /\ UNCHANGED <<controlVars, history, tableVars, scan, lost>>

LoadScan(r) ==
  /\ LoadRun(r, "state")
  /\ UNCHANGED scanVars

\* ensure_state returns the row as it is before a bootstrap takes readiness back.
EnsureState(r) ==
  /\ HandlerStep(r, "state", IF runs[r].mode = "bootstrap" THEN "unready" ELSE "prepare")
  /\ scan' = [scan EXCEPT ![r].ready = state.ready, ![r].last = state.last]
  /\ UNCHANGED <<runs, job, repoVars, tableVars, lost>>

\* set_public_filter_ready(false).
Unready(r) ==
  /\ HandlerStep(r, "unready", "prepare")
  /\ state' = [state EXCEPT !.ready = FALSE]
  /\ UNCHANGED <<runs, job, repoVars, matches, former, commitTag, rollup, published, scan, lost>>

\* The commit the walk stops at: the run's cursor, or the last scan's end.
Since(r) == IF runs[r].cursor[1] # NoCommit THEN runs[r].cursor[1]
            ELSE IF runs[r].mode = "incremental" THEN scan[r].last ELSE NoCommit

\* What is left for the rollups after the last chunk.
ToRollUp(r, affected) == IF runs[r].mode = "bootstrap" THEN Series ELSE affected

AfterChunks(todo, left) == IF todo # <<>> THEN "chunk" ELSE IF left # {} THEN "sum" ELSE "state_done"

\* prepare_mainline_scan: head, walk and tags as the clone has them now.
Prepare(r) ==
  LET todo == Walk(history.steps[step].head, Since(r))
      left == IF todo = <<>> THEN ToRollUp(r, {}) ELSE {}
  IN /\ HandlerStep(r, "prepare", AfterChunks(todo, left))
     /\ scan' = [scan EXCEPT ![r].step = step, ![r].todo = todo, ![r].affected = {}, ![r].left = left,
                ![r].last = IF runs[r].cursor[1] # NoCommit THEN runs[r].cursor[1] ELSE @]
     /\ UNCHANGED <<runs, job, repoVars, tableVars, lost>>

Chunk(r) == SubSeq(scan[r].todo, 1, Min({ChunkSize, Len(scan[r].todo)}))

\* A chunk without matches writes nothing but the cursor.
Resolve(r) ==
  LET found == NewMatches(Chunk(r))
  IN /\ ~cancel[r]
     /\ HandlerStep(r, "chunk", IF found = {} THEN "save" ELSE "commits")
     /\ scan' = [scan EXCEPT ![r].found = found]
     /\ UNCHANGED <<runs, job, repoVars, tableVars, lost>>

\* upsert_mainline_commits.
UpsertCommits(r) ==
  /\ HandlerStep(r, "commits", "matches")
  /\ commitTag' = [c \in Commits |-> IF \E p \in Items : <<p, c>> \in scan[r].found
                                     THEN TagOf(c, scan[r].step) ELSE commitTag[c]]
  /\ UNCHANGED <<runs, job, repoVars, matches, former, rollup, published, state, scan, lost>>

\* Mutant of Affects: the first version of the series only.
AffectsFirst(p, s) == p \in Versions[s][1]

Affects(p, s) == \E v \in DOMAIN Versions[s] : p \in Versions[s][v]

\* replace_canonical_matches is two statements, each committed on its own.  The
\* first takes from the patches found the canonical commits they have by now.
UnsetCanonical(r) ==
  LET found == {pc[1] : pc \in scan[r].found}
  IN /\ HandlerStep(r, "matches", "insert")
     /\ matches' = [p \in Items |-> IF p \in found THEN NoCommit ELSE matches[p]]
     /\ former' = former \cup {<<p, matches[p]>> : p \in {q \in found : matches[q] # NoCommit}}
     /\ UNCHANGED <<runs, job, repoVars, commitTag, rollup, published, state, scan, lost>>

\* Another scan has given a patch found a commit of its own since.
Taken(r) == \E pc \in scan[r].found : matches[pc[1]] \notin {NoCommit, pc[2]}

\* The second gives the patches found their commits.
InsertMatches(r) ==
  LET found == scan[r].found
  IN /\ HandlerStep(r, "insert", "save")
     /\ ~Taken(r)
     /\ matches' = [p \in Items |-> IF \E c \in Commits : <<p, c>> \in found
                                    THEN CHOOSE c \in Commits : <<p, c>> \in found ELSE matches[p]]
     /\ former' = former \ found
     /\ scan' = [scan EXCEPT ![r].found = {},
                ![r].affected = @ \cup {s \in Series : \E pc \in found : Affects(pc[1], s)}]
     /\ UNCHANGED <<runs, job, repoVars, commitTag, rollup, published, state, lost>>

\* update_run_progress.
SaveChunk(r) ==
  LET chunk == Chunk(r)
      todo == SubSeq(scan[r].todo, Len(chunk) + 1, Len(scan[r].todo))
      left == IF todo = <<>> THEN ToRollUp(r, scan[r].affected) ELSE {}
  IN /\ HandlerStep(r, "save", AfterChunks(todo, left))
     /\ runs' = [runs EXCEPT ![r].cursor[1] = Last(chunk)]
     /\ scan' = [scan EXCEPT ![r].todo = todo, ![r].left = left, ![r].last = Last(chunk)]
     /\ UNCHANGED <<job, repoVars, tableVars, lost>>

\* recompute_rollups reads, a series at a time here, and then writes.
SumUp(r) ==
  /\ HandlerStep(r, "sum", "rollup")
  /\ scan' = [scan EXCEPT ![r].sum = Summary(Min(scan[r].left))]
  /\ UNCHANGED <<runs, job, repoVars, tableVars, lost>>

WriteRollup(r) ==
  /\ HandlerStep(r, "rollup", "publish")
  /\ rollup' = [rollup EXCEPT ![Min(scan[r].left)] = scan[r].sum]
  /\ scan' = [scan EXCEPT ![r].sum = NoSummary]
  /\ UNCHANGED <<runs, job, repoVars, matches, former, commitTag, published, state, lost>>

\* The series whose rollup an execution that breaks off here does not write:
\* a bootstrap begins its rollups anew, an incremental scan has forgotten them.
Forgotten(r) == IF runs[r].mode = "bootstrap" THEN {}
                ELSE IF at[r] \in {"sum", "rollup", "publish"} THEN scan[r].left
                ELSE IF at[r] \in {"chunk", "commits", "matches", "insert", "save"} THEN scan[r].affected
                ELSE {}

\* A patch has one canonical row at most, and the index that keeps it so fails
\* the insert of a second.
InsertRefused(r) ==
  /\ HandlerStep(r, "insert", "retryable")
  /\ Taken(r)
  /\ lost' = lost \cup Forgotten(r)
  /\ UNCHANGED <<runs, job, repoVars, tableVars, scan>>

\* upsert_meili_docs_inline: the document goes out, and the wait for it to be
\* indexed gives up when a cancel is requested.
Publish(r) ==
  LET s == Min(scan[r].left)
      left == scan[r].left \ {s}
  IN /\ HandlerStep(r, "publish",
                    IF cancel[r] THEN "retryable" ELSE IF left # {} THEN "sum" ELSE "state_done")
     /\ published' = [published EXCEPT ![s] = rollup[s]]
     /\ scan' = [scan EXCEPT ![r].left = left]
     /\ lost' = IF cancel[r] /\ runs[r].mode = "incremental" THEN lost \cup left ELSE lost
     /\ UNCHANGED <<runs, job, repoVars, matches, former, commitTag, rollup, state>>

\* mark_state_succeeded; readiness is what the state had when the scan began.
MarkState(r) ==
  /\ HandlerStep(r, "state_done", "run_done")
  /\ state' = [head |-> history.steps[scan[r].step].head,
               last |-> IF scan[r].last # NoCommit THEN scan[r].last ELSE state.last,
               ready |-> runs[r].mode = "bootstrap" \/ scan[r].ready,
               bootstrapped |-> state.bootstrapped \/ runs[r].mode = "bootstrap"]
  /\ UNCHANGED <<runs, job, repoVars, matches, former, commitTag, rollup, published, scan, lost>>

ScanSucceeds(r) ==
  /\ Succeed(r, "run_done")
  /\ UNCHANGED scanVars

\* A cancel seen while preparing, or before a chunk.
ScanCancelled(r) ==
  /\ \E from \in {"prepare", "chunk"} : StopForCancel(r, from)
  /\ lost' = lost \cup Forgotten(r)
  /\ UNCHANGED <<repoVars, tableVars, scan>>

ScanBreaks(r) ==
  /\ Breaks(r)
  /\ lost' = lost \cup Forgotten(r)
  /\ UNCHANGED <<repoVars, tableVars, scan>>

\* The variables of an execution are gone with it.
ScanForgets(j) ==
  /\ scan' = IF j \in Runs THEN [scan EXCEPT ![j] = NoScan] ELSE scan
  /\ UNCHANGED <<repoVars, tableVars, lost>>

ScanStep(r) ==
  \/ LoadScan(r) \/ EnsureState(r) \/ Unready(r) \/ Prepare(r)
  \/ Resolve(r) \/ UpsertCommits(r) \/ UnsetCanonical(r) \/ InsertMatches(r)
  \/ InsertRefused(r) \/ SaveChunk(r)
  \/ SumUp(r) \/ WriteRollup(r) \/ Publish(r)
  \/ MarkState(r) \/ ScanSucceeds(r) \/ ScanCancelled(r)

=============================================================================
