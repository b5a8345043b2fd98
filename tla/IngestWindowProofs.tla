------------------------- MODULE IngestWindowProofs -------------------------
(***************************************************************************)
(* Theorems about IngestWindow, for any epochs, messages, chunk size and   *)
(* bounds.                                                                 *)
(***************************************************************************)
EXTENDS IngestWindow, SequenceTheorems, FiniteSetTheorems, WellFoundedInduction, TLAPS

\* A queued job has a claim left, and one that was never enqueued was never claimed.
Budget ==
    \A s \in Stages : /\ job[s] = "none" => attempt[s] = 0
                      /\ job[s] = "queued" => attempt[s] < MaxAttempts

\* Rows are of commits that carry a mail.
RowsCarryMail == \A i \in instances : Len(i.commit) > 0 /\ Mail(i.commit) # NoMail

\* The mail of the first n commits of the stream's tip is in the store.
Covered(n) == \A k \in 1..n : head[k] # NoMail => Ancestor(head, k) \in Stored(repo)

\* What the stream has behind it is in the store, and after a write its chunk is, too.
StreamCovered == /\ at = "chunk" => Covered(read)
                 /\ at = "mark" => Covered(chunkEnd)

TypeInv  == TypeOK /\ Budget /\ RowsCarryMail
StoreInv == StoredBehindWatermark /\ OneInstancePerCommit /\ StreamCovered

-----------------------------------------------------------------------------
\* The ancestors of a commit are its prefixes, and theirs are its own.
LEMMA AncestorFacts ==
  ASSUME NEW c \in Seq(Content), NEW n \in 0..Len(c)
  PROVE  /\ Ancestor(c, n) \in Seq(Content) /\ Len(Ancestor(c, n)) = n
         /\ \A k \in 1..n : Ancestor(c, n)[k] = c[k]
         /\ \A k \in 1..n : Ancestor(Ancestor(c, n), k) = Ancestor(c, k)
<1>1. \A i \in 1..n : c[i] \in Content
  OBVIOUS
<1>2. /\ Ancestor(c, n) \in Seq(Content) /\ Len(Ancestor(c, n)) = n
      /\ \A k \in 1..n : Ancestor(c, n)[k] = c[k]
  BY <1>1, SubSeqProperties DEF Ancestor
<1>3. ASSUME NEW k \in 1..n PROVE Ancestor(Ancestor(c, n), k) = Ancestor(c, k)
  BY <1>3, SubSeqOfSubSeq DEF Ancestor
<1> QED
  BY <1>2, <1>3

\* The mail a prefix ends with.
LEMMA AncestorMail ==
  ASSUME NEW c \in Commits, NEW n \in 1..Len(c)
  PROVE  Ancestor(c, n) \in Commits /\ Mail(Ancestor(c, n)) = c[n]
<1>1. c \in Seq(Content) /\ Len(c) =< MaxCommits /\ n \in 0..Len(c) /\ n \in 1..n
  BY DEF Commits
<1>2. /\ Ancestor(c, n) \in Seq(Content) /\ Len(Ancestor(c, n)) = n
      /\ Ancestor(c, n)[n] = c[n]
  BY <1>1, AncestorFacts
<1>3. n =< MaxCommits
  BY <1>1, LimitAssumption
<1> QED
  BY <1>2, <1>3 DEF Commits, Mail

\* What is behind a commit, said of its positions.
LEMMA ReachableStored ==
  ASSUME NEW c \in Commits, NEW e
  PROVE  (\A d \in Reachable(c) : Mail(d) # NoMail => d \in Stored(e))
         <=> (\A n \in 1..Len(c) : c[n] # NoMail => Ancestor(c, n) \in Stored(e))
BY AncestorMail DEF Reachable

\* New rows are rows.
LEMMA NewRows ==
  ASSUME TypeOK, repo \in Epochs, NEW a \in 0..MaxAttempts,
         NEW lo \in Nat, NEW hi \in 0..Len(head),
         NEW i \in NewInstances(repo, {Ancestor(head, n) : n \in lo + 1..hi}, a)
  PROVE  /\ i \in [repo : Epochs, commit : Commits, seen : 0..MaxAttempts]
         /\ Len(i.commit) > 0 /\ Mail(i.commit) # NoMail
<1>1. PICK n \in lo + 1..hi : /\ i = [repo |-> repo, commit |-> Ancestor(head, n), seen |-> a]
                              /\ Mail(Ancestor(head, n)) # NoMail
  BY DEF NewInstances
<1>2. head \in Commits /\ n \in 1..Len(head) /\ head \in Seq(Content)
  BY DEF TypeOK, Commits
<1>3. Ancestor(head, n) \in Commits /\ Len(Ancestor(head, n)) = n
  BY <1>2, AncestorMail, AncestorFacts
<1> QED
  BY <1>1, <1>2, <1>3

\* The window shows messages, and the planned windows are sets of epochs.
LEMMA WindowFacts ==
  ASSUME TypeInv
  PROVE  /\ \A es : InWindow(es) \subseteq Messages
         /\ ThreadingWindows \subseteq SUBSET Epochs
<1>1. ASSUME NEW i \in instances PROVE Mail(i.commit) \in Messages
  <2>1. i.commit \in Seq(Content) /\ Len(i.commit) > 0
    BY DEF TypeInv, TypeOK, RowsCarryMail, Commits
  <2>2. Mail(i.commit) \in Content
    BY <2>1 DEF Mail
  <2> QED
    BY <2>2 DEF TypeInv, RowsCarryMail, Content
<1>2. ThreadingWindows \subseteq SUBSET Epochs
  BY DEF ThreadingWindows, WindowsOf, EpochWindows, Scoped, Neighbours
<1> QED
  BY <1>1, <1>2 DEF InWindow

LEMMA InitType == Init => TypeInv
<1> SUFFICES ASSUME Init PROVE TypeInv
  OBVIOUS
<1>1. <<>> \in Commits /\ Len(<<>>) = 0
  BY LimitAssumption DEF Commits
<1>2. tip \in [Epochs -> Commits] /\ watermark \in [Epochs -> Commits]
  BY <1>1 DEF Init
<1> QED
  BY <1>1, <1>2, LimitAssumption
     DEF Init, TypeInv, TypeOK, Budget, RowsCarryMail, Stages, Lowest

\* One step per action; the steps that leave the rows, the jobs and the git side alone
\* share one.
LEMMA NextType == TypeInv /\ [Next]_vars => TypeInv'
<1> SUFFICES ASSUME TypeInv, [Next]_vars PROVE TypeInv'
  OBVIOUS
<1> USE LimitAssumption DEF TypeInv, queueVars, ingestVars, streamVars
<1>0. <<>> \in Commits /\ Len(<<>>) = 0
  BY DEF Commits
<1>1. ASSUME NEW e \in Epochs, Push(e) PROVE TypeInv'
  <2>1. PICK m \in Content : tip' = [tip EXCEPT ![e] = Append(@, m)]
    BY <1>1 DEF Push, Content
  <2>2. Append(tip[e], m) \in Commits
    BY <1>1, <2>1 DEF Push, Commits, TypeOK
  <2>3. tip' \in [Epochs -> Commits]
    BY <2>1, <2>2 DEF TypeOK
  <2> QED
    BY <1>1, <2>3 DEF Push, TypeOK, Budget, RowsCarryMail
<1>2. ASSUME NEW e \in Epochs, Purge(e) PROVE TypeInv'
  <2>1. PICK n \in 1..Len(tip[e]) : tip' = [tip EXCEPT ![e][n] = NoMail]
    BY <1>2 DEF Purge
  <2>2. [tip[e] EXCEPT ![n] = NoMail] \in Commits
    BY <2>1 DEF Commits, TypeOK, Content
  <2>3. tip' \in [Epochs -> Commits]
    BY <2>1, <2>2 DEF TypeOK
  <2> QED
    BY <1>2, <2>3 DEF Purge, TypeOK, Budget, RowsCarryMail
<1>3. ASSUME NEW e \in Epochs, ResetWatermark(e) PROVE TypeInv'
  BY <1>0, <1>3 DEF ResetWatermark, TypeOK, Budget, RowsCarryMail
<1>4. ASSUME NewRun PROVE TypeInv'
  <2>1. /\ instances' \subseteq [repo : Epochs, commit : Commits, seen : 0..MaxAttempts]
        /\ RowsCarryMail'
    <3>1. ASSUME NEW k \in instances'
          PROVE  /\ k \in [repo : Epochs, commit : Commits, seen : 0..MaxAttempts]
                 /\ Len(k.commit) > 0 /\ Mail(k.commit) # NoMail
      <4>1. PICK i \in instances : k = [i EXCEPT !.seen = 0]
        BY <1>4 DEF NewRun
      <4>2. i \in [repo : Epochs, commit : Commits, seen : 0..MaxAttempts]
        BY DEF TypeOK
      <4>3. k \in [repo : Epochs, commit : Commits, seen : 0..MaxAttempts] /\ k.commit = i.commit
        BY <4>1, <4>2
      <4> QED
        BY <4>3 DEF RowsCarryMail
    <3> QED
      BY <3>1 DEF RowsCarryMail
  <2> QED
    BY <1>4, <2>1 DEF NewRun, TypeOK, Budget, Stages
<1>5. ASSUME NEW s \in Stages, Claim(s) PROVE TypeInv'
  <2>1. attempt[s] + 1 \in 0..MaxAttempts
    BY <1>5 DEF Claim, Budget, TypeOK
  <2>2. Budget' /\ RowsCarryMail'
    BY <1>5, <2>1 DEF Claim, Budget, RowsCarryMail, TypeOK
  <2>3. /\ job' \in [Stages -> {"none", "queued", "running", "succeeded", "failed"}]
        /\ attempt' \in [Stages -> 0..MaxAttempts]
    BY <1>5, <2>1 DEF Claim, TypeOK
  <2>4. task' \in {0} \cup Stages
    BY <1>5 DEF Claim, TypeOK
  <2>5. at' \in {"idle", "repo", "chunk", "mark", "window", "enqueue", "return", "query", "thread"}
    BY <1>5 DEF Claim, TypeOK
  <2>6. repo' \in Epochs /\ head' = <<>> /\ read' = 0 /\ chunkEnd' = 0 /\ left' = {}
    BY <1>5 DEF Claim, NoStream, Lowest
  <2>7. UNCHANGED <<tip, watermark, instances, run, window, done, breaks, handedOver>>
    BY <1>5 DEF Claim
  <2> QED
    BY <1>0, <2>2, <2>3, <2>4, <2>5, <2>6, <2>7 DEF TypeOK
<1>6. ASSUME BreakOff PROVE TypeInv'
  <2>1. task \in Stages
    BY <1>6 DEF BreakOff, TypeOK
  <2>2. Budget' /\ RowsCarryMail'
    <3>1. PICK last \in BOOLEAN :
             /\ attempt[task] >= MaxAttempts => last
             /\ job' = [job EXCEPT ![task] = IF last THEN "failed" ELSE "queued"]
      BY <1>6 DEF BreakOff
    <3>2. ~last => attempt[task] < MaxAttempts
      BY <2>1, <3>1 DEF TypeOK
    <3>3. UNCHANGED <<attempt, instances>>
      BY <1>6 DEF BreakOff
    <3>4. ASSUME NEW s \in Stages
          PROVE  /\ job'[s] = "none" => attempt[s] = 0
                 /\ job'[s] = "queued" => attempt[s] < MaxAttempts
      <4>1. CASE s = task
        BY <2>1, <3>1, <3>2, <4>1 DEF TypeOK
      <4>2. CASE s # task
        BY <2>1, <3>1, <4>2 DEF Budget, TypeOK
      <4> QED
        BY <4>1, <4>2
    <3>5. Budget'
      BY <3>3, <3>4 DEF Budget
    <3> QED
      BY <3>3, <3>5 DEF RowsCarryMail
  <2>3. TypeOK'
    <3>1. /\ job' \in [Stages -> {"none", "queued", "running", "succeeded", "failed"}]
          /\ run' \in {"none", "running", "succeeded", "failed"}
      BY <1>6, <2>1 DEF BreakOff, TypeOK
    <3>2. breaks' \in 0..MaxBreaks
      BY <1>6 DEF BreakOff, TypeOK
    <3>3. task' = 0 /\ at' = "idle" /\ head' = <<>> /\ read' = 0 /\ chunkEnd' = 0 /\ left' = {}
      BY <1>6 DEF BreakOff, NoStream
    <3>4. UNCHANGED <<tip, watermark, instances, window, attempt, repo, done, handedOver>>
      BY <1>6 DEF BreakOff
    <3> QED
      BY <1>0, <3>1, <3>2, <3>3, <3>4 DEF TypeOK
  <2> QED
    BY <2>2, <2>3
<1>7. ASSUME ScanRepo PROVE TypeInv'
  <2>1. head' = tip[repo] /\ read' \in 0..Len(tip[repo]) /\ chunkEnd' = 0
    BY <1>7 DEF ScanRepo, StreamStart
  <2>2. tip[repo] \in Commits /\ Len(tip[repo]) \in Nat
    BY DEF TypeOK, Commits
  <2> QED
    BY <1>7, <2>1, <2>2 DEF ScanRepo, TypeOK, Budget, RowsCarryMail
<1>8. ASSUME WriteChunk PROVE TypeInv'
  <2>1. head \in Seq(Content) /\ Len(head) \in Nat /\ read \in Nat /\ attempt[1] \in 0..MaxAttempts
    BY DEF TypeOK, Commits, Stages
  <2>2. chunkEnd' \in 0..Len(head)
    BY <1>8, <2>1, ChunkAssumption DEF WriteChunk
  <2>3. instances' = instances \cup
          NewInstances(repo, {Ancestor(head, n) : n \in read + 1..chunkEnd'}, attempt[1])
    BY <1>8 DEF WriteChunk
  <2>4. \A i \in instances' : /\ i \in [repo : Epochs, commit : Commits, seen : 0..MaxAttempts]
                              /\ Len(i.commit) > 0 /\ Mail(i.commit) # NoMail
    <3> DEFINE hi == chunkEnd'
    <3>1. hi \in 0..Len(head)
      BY <2>2
    <3> HIDE DEF hi
    <3>2. \A i \in NewInstances(repo, {Ancestor(head, n) : n \in read + 1..hi}, attempt[1]) :
             /\ i \in [repo : Epochs, commit : Commits, seen : 0..MaxAttempts]
             /\ Len(i.commit) > 0 /\ Mail(i.commit) # NoMail
      BY <2>1, <3>1, NewRows DEF TypeOK
    <3> QED
      BY <2>3, <3>2 DEF TypeOK, RowsCarryMail, hi
  <2> QED
    BY <1>8, <2>2, <2>4 DEF WriteChunk, TypeOK, Budget, RowsCarryMail
<1>9. ASSUME MarkWatermark PROVE TypeInv'
  <2>1. /\ head \in Seq(Content) /\ Len(head) \in Nat /\ Len(head) =< MaxCommits
        /\ chunkEnd \in 0..Len(head)
    BY DEF TypeOK, Commits
  <2>2. Ancestor(head, chunkEnd) \in Commits
    BY <2>1, AncestorFacts DEF Commits
  <2>3. watermark' \in [Epochs -> Commits]
    BY <1>9, <2>2 DEF MarkWatermark, TypeOK
  <2>4. read' = chunkEnd /\ at' = "chunk" /\ UNCHANGED <<tip, instances, queueVars, window, task,
           repo, head, chunkEnd, left, done, handedOver>>
    BY <1>9 DEF MarkWatermark
  <2> QED
    BY <2>1, <2>3, <2>4 DEF TypeOK, Budget, RowsCarryMail
<1>10. ASSUME NextRepo PROVE TypeInv'
  BY <1>0, <1>10 DEF NextRepo, NoStream, Lowest, TypeOK, Budget, RowsCarryMail
<1>11. ASSUME SetWindow \/ EnqueueThreading \/ IngestReturns PROVE TypeInv'
  <2>0. 1 \in Stages /\ 2 \in Stages /\ attempt[1] \in 0..MaxAttempts
    BY DEF Stages, TypeOK
  <2>1. CASE SetWindow
    BY <2>0, <2>1 DEF SetWindow, TypeOK, Budget, RowsCarryMail
  <2>2. CASE EnqueueThreading
    <3>1. handedOver' \in 0..MaxAttempts
      BY <2>0, <2>2 DEF EnqueueThreading, TypeOK
    <3>2. job' \in [Stages -> {"none", "queued", "running", "succeeded", "failed"}] /\ Budget'
      BY <2>0, <2>2 DEF EnqueueThreading, Enqueued, TypeOK, Budget
    <3> QED
      BY <2>2, <3>1, <3>2 DEF EnqueueThreading, TypeOK, RowsCarryMail
  <2>3. CASE IngestReturns
    BY <2>0, <2>3 DEF IngestReturns, TypeOK, Budget, RowsCarryMail
  <2> QED
    BY <1>11, <2>1, <2>2, <2>3
<1>12. ASSUME PlanThreading \/ ThreadingDone PROVE TypeInv'
  BY <1>12, WindowFacts DEF PlanThreading, ThreadingDone, TypeOK, Budget, RowsCarryMail
<1>13. ASSUME ThreadWindow PROVE TypeInv'
  <2>1. PICK w \in left : done' = [done EXCEPT ![2] = @ \cup InWindow(w)] /\ left' = left \ {w}
    BY <1>13 DEF ThreadWindow, FirstWindows
  <2>2. done' \in [Stages -> SUBSET Messages]
    BY <2>1, WindowFacts DEF TypeOK, Stages
  <2>3. left' \subseteq SUBSET Epochs
    BY <2>1 DEF TypeOK
  <2> QED
    BY <1>13, <2>2, <2>3 DEF ThreadWindow, TypeOK, Budget, RowsCarryMail
<1>14. ASSUME ExtractLineage \/ UpsertDocuments PROVE TypeInv'
  <2>1. done' \in [Stages -> SUBSET Messages]
    BY <1>14, WindowFacts DEF ExtractLineage, UpsertDocuments, Stages, TypeOK
  <2> QED
    BY <1>14, <2>1 DEF ExtractLineage, UpsertDocuments, TypeOK, Budget, RowsCarryMail
<1>15. ASSUME StageReturns PROVE TypeInv'
  <2> DEFINE States == {"none", "queued", "running", "succeeded", "failed"}
             Ended  == [job EXCEPT ![task] = "succeeded"]
  <2>1. task \in Stages /\ job \in [Stages -> States]
    BY <1>15 DEF StageReturns, Stages, TypeOK
  <2>2. task' = 0 /\ at' = "idle" /\ UNCHANGED <<tip, watermark, instances, attempt, breaks, window,
           ingestVars, left, done, handedOver>>
    BY <1>15 DEF StageReturns
  <2>3. \/ job' = Ended /\ run' = "succeeded"
        \/ task + 1 \in Stages /\ job' = Enqueued(Ended, task + 1) /\ UNCHANGED run
    BY <1>15 DEF StageReturns, Stages
  <2>4. /\ Ended \in [Stages -> States]
        /\ \A s \in Stages : Ended[s] = "none" \/ Ended[s] = "queued" => Ended[s] = job[s]
    BY <2>1
  <2>5. job' \in [Stages -> States]
    BY <2>3, <2>4 DEF Enqueued
  <2>6. ASSUME NEW s \in Stages
        PROVE  \/ job'[s] = job[s]
               \/ job'[s] = "succeeded"
               \/ job[s] = "none" /\ job'[s] = "queued"
    BY <2>1, <2>3, <2>4 DEF Enqueued
  <2>7. Budget'
    <3> SUFFICES ASSUME NEW s \in Stages
                 PROVE  /\ job'[s] = "none" => attempt[s] = 0
                        /\ job'[s] = "queued" => attempt[s] < MaxAttempts
      BY <2>2 DEF Budget
    <3>1. 0 < MaxAttempts
      BY LimitAssumption
    <3> QED
      BY <2>6, <3>1 DEF Budget
  <2>8. run' \in {"none", "running", "succeeded", "failed"}
    BY <2>3 DEF TypeOK
  <2>9. RowsCarryMail'
    BY <2>2 DEF RowsCarryMail
  <2> HIDE DEF Ended
  <2> QED
    BY <2>2, <2>5, <2>7, <2>8, <2>9 DEF TypeOK, ingestVars, streamVars
<1>16. CASE UNCHANGED vars
  BY <1>16 DEF vars, TypeOK, Budget, RowsCarryMail
<1> QED
  BY <1>1, <1>2, <1>3, <1>4, <1>5, <1>6, <1>7, <1>8, <1>9, <1>10, <1>11, <1>12, <1>13, <1>14,
     <1>15, <1>16 DEF Next, IngestStep, StageStep

-----------------------------------------------------------------------------
(* The store *)

\* Rows keep their repo and commit, so that no commit leaves the store, and one row per
\* commit stays one row.
LEMMA NewRunRows ==
  ASSUME TypeInv, OneInstancePerCommit, NewRun
  PROVE  /\ \A e : Stored(e)' = Stored(e)
         /\ OneInstancePerCommit'
<1> DEFINE Old(i) == [i EXCEPT !.seen = 0]
<1>1. ASSUME NEW i \in instances PROVE Old(i).repo = i.repo /\ Old(i).commit = i.commit
  BY DEF TypeInv, TypeOK
<1>2. instances' = {Old(i) : i \in instances}
  BY DEF NewRun
<1> HIDE DEF Old
<1>3. ASSUME NEW e PROVE Stored(e)' = Stored(e)
  <2>1. ASSUME NEW c \in Stored(e) PROVE c \in Stored(e)'
    <3>1. PICK i \in instances : i.repo = e /\ i.commit = c
      BY DEF Stored
    <3>2. Old(i) \in instances' /\ Old(i).repo = e /\ Old(i).commit = c
      BY <1>1, <1>2, <3>1
    <3> QED
      BY <3>2 DEF Stored
  <2>2. ASSUME NEW c \in Stored(e)' PROVE c \in Stored(e)
    <3>1. PICK k \in instances' : k.repo = e /\ k.commit = c
      BY DEF Stored
    <3>2. PICK i \in instances : k = Old(i)
      BY <1>2
    <3> QED
      BY <1>1, <3>1, <3>2 DEF Stored
  <2> QED
    BY <2>1, <2>2
<1>4. OneInstancePerCommit'
  <2> SUFFICES ASSUME NEW k \in instances', NEW l \in instances', k.repo = l.repo, k.commit = l.commit
               PROVE  k = l
    BY DEF OneInstancePerCommit
  <2>1. PICK i \in instances, j \in instances : k = Old(i) /\ l = Old(j)
    BY <1>2
  <2>2. i = j
    BY <1>1, <2>1 DEF OneInstancePerCommit
  <2> QED
    BY <2>1, <2>2
<1> QED
  BY <1>3, <1>4

\* A chunk's rows: each of its mails is in the store, and none has two rows.
LEMMA WriteRows ==
  ASSUME TypeInv, OneInstancePerCommit, NEW cs, NEW a, repo' = repo,
         instances' = instances \cup NewInstances(repo, cs, a)
  PROVE  /\ \A e : Stored(e) \subseteq Stored(e)'
         /\ \A c \in cs : Mail(c) # NoMail => c \in Stored(repo)'
         /\ OneInstancePerCommit'
<1>1. ASSUME NEW e PROVE Stored(e) \subseteq Stored(e)'
  BY DEF Stored
<1>2. ASSUME NEW c \in cs, Mail(c) # NoMail
      PROVE  \E i \in instances' : i.repo = repo /\ i.commit = c
  <2>1. CASE c \in Stored(repo)
    BY <2>1 DEF Stored
  <2>2. CASE c \notin Stored(repo)
    <3>1. [repo |-> repo, commit |-> c, seen |-> a] \in NewInstances(repo, cs, a)
      BY <1>2, <2>2 DEF NewInstances
    <3> QED
      BY <3>1
  <2> QED
    BY <2>1, <2>2
<1>3. ASSUME NEW i \in NewInstances(repo, cs, a)
      PROVE  /\ i = [repo |-> repo, commit |-> i.commit, seen |-> a]
             /\ i.commit \notin Stored(repo)
  BY DEF NewInstances
<1>4. ASSUME NEW i \in instances', NEW j \in instances', i.repo = j.repo, i.commit = j.commit
      PROVE  i = j
  <2>1. CASE i \in instances /\ j \in instances
    BY <1>4, <2>1 DEF OneInstancePerCommit
  <2>2. CASE i \notin instances /\ j \notin instances
    BY <1>3, <1>4, <2>2
  <2>3. CASE i \in instances /\ j \notin instances
    BY <1>3, <1>4, <2>3 DEF Stored
  <2>4. CASE i \notin instances /\ j \in instances
    BY <1>3, <1>4, <2>4 DEF Stored
  <2> QED
    BY <2>1, <2>2, <2>3, <2>4
<1>5. \A c \in cs : Mail(c) # NoMail => c \in Stored(repo)'
  BY <1>2 DEF Stored
<1> QED
  BY <1>1, <1>4, <1>5 DEF OneInstancePerCommit

\* The first n commits of the stream's tip are the first n behind what since reaches.
LEMMA StreamStarts ==
  ASSUME TypeInv, StoredBehindWatermark, repo \in Epochs, NEW since \in Since(repo),
         NEW n \in StreamStart(repo, since), NEW k \in 1..n, tip[repo][k] # NoMail
  PROVE  Ancestor(tip[repo], k) \in Stored(repo)
<1> DEFINE t == tip[repo]
           w == watermark[repo]
<1>1. t \in Commits /\ w \in Commits /\ t \in Seq(Content) /\ w \in Seq(Content)
  BY DEF TypeInv, TypeOK, Commits
<1>2. n \in 1..Len(t) /\ Ancestor(t, n) \in Reachable(since)
  BY <1>1 DEF StreamStart
<1>3. since = w
  <2>1. Reachable(<<>>) = {}
    BY DEF Reachable
  <2> QED
    BY <1>2, <2>1 DEF Since
<1>4. PICK m \in 1..Len(w) : Ancestor(t, n) = Ancestor(w, m)
  BY <1>2, <1>3 DEF Reachable
<1> HIDE DEF t, w
<1>5. Len(Ancestor(t, n)) = n /\ Len(Ancestor(w, m)) = m
  BY <1>1, <1>2, <1>4, AncestorFacts
<1>6. n = m
  BY <1>4, <1>5
<1>7. n \in 0..Len(t) /\ n \in 0..Len(w) /\ k \in 1..Len(w)
  BY <1>1, <1>2, <1>4, <1>6
<1>8. Ancestor(t, k) = Ancestor(w, k) /\ t[k] = w[k]
  <2>1. Ancestor(t, n) = Ancestor(w, n)
    BY <1>4, <1>6
  <2>2. /\ Ancestor(Ancestor(t, n), k) = Ancestor(t, k) /\ Ancestor(t, n)[k] = t[k]
    BY <1>1, <1>7, AncestorFacts
  <2>3. /\ Ancestor(Ancestor(w, n), k) = Ancestor(w, k) /\ Ancestor(w, n)[k] = w[k]
    BY <1>1, <1>7, AncestorFacts
  <2> QED
    BY <2>1, <2>2, <2>3
<1>9. \A d \in Reachable(w) : Mail(d) # NoMail => d \in Stored(repo)
  BY DEF StoredBehindWatermark, w
<1>10. w[k] # NoMail => Ancestor(w, k) \in Stored(repo)
  BY <1>1, <1>7, <1>9, ReachableStored
<1> QED
  BY <1>8, <1>10 DEF t

LEMMA InitStore == Init => StoreInv
BY DEF Init, StoreInv, StoredBehindWatermark, OneInstancePerCommit, StreamCovered, Covered, Reachable

\* Steps that touch neither rows, watermarks nor the stream.
LEMMA Elsewhere ==
  ASSUME StoreInv, UNCHANGED <<watermark, instances>>,
         \/ UNCHANGED <<at, repo, head, read, chunkEnd>>
         \/ at' \notin {"chunk", "mark"}
         \/ read' = 0 /\ chunkEnd' = 0
  PROVE  StoreInv'
<1>1. \A e : Stored(e)' = Stored(e)
  BY DEF Stored
<1>2. StoredBehindWatermark' /\ OneInstancePerCommit'
  BY <1>1 DEF StoreInv, StoredBehindWatermark, OneInstancePerCommit
<1>3. StreamCovered'
  <2>1. CASE UNCHANGED <<at, repo, head, read, chunkEnd>>
    BY <1>1, <2>1 DEF StoreInv, StreamCovered, Covered, Stored
  <2>2. CASE at' \notin {"chunk", "mark"}
    BY <2>2 DEF StreamCovered
  <2>3. CASE read' = 0 /\ chunkEnd' = 0
    BY <2>3 DEF StreamCovered, Covered
  <2> QED
    BY <2>1, <2>2, <2>3
<1> QED
  BY <1>2, <1>3 DEF StoreInv

\* A run, the four ingest statements that move rows and marks, and everything else.
LEMMA NextStore == TypeInv /\ StoreInv /\ [Next]_vars => StoreInv'
<1> SUFFICES ASSUME TypeInv, StoreInv, [Next]_vars PROVE StoreInv'
  OBVIOUS
<1> USE DEF queueVars, ingestVars, streamVars
<1>1. ASSUME NEW e \in Epochs, Push(e) \/ Purge(e) PROVE StoreInv'
  BY <1>1, Elsewhere DEF Push, Purge
<1>2. ASSUME NEW e \in Epochs, ResetWatermark(e) PROVE StoreInv'
  <2>1. StoredBehindWatermark'
    <3>1. Reachable(<<>>) = {}
      BY DEF Reachable
    <3>2. \A f \in Epochs : watermark'[f] \in {watermark[f], <<>>} /\ Stored(f)' = Stored(f)
      BY <1>2 DEF ResetWatermark, Stored, TypeInv, TypeOK
    <3> QED
      BY <3>1, <3>2 DEF StoreInv, StoredBehindWatermark
  <2> QED
    BY <1>2, <2>1 DEF ResetWatermark, StoreInv, OneInstancePerCommit, StreamCovered, Covered, Stored
<1>3. ASSUME NewRun PROVE StoreInv'
  <2>1. (\A e : Stored(e)' = Stored(e)) /\ OneInstancePerCommit'
    BY <1>3, NewRunRows DEF StoreInv
  <2>2. UNCHANGED <<watermark, at, repo, head, read, chunkEnd>>
    BY <1>3 DEF NewRun
  <2>3. Stored(repo)' = Stored(repo)
    BY <2>1, <2>2 DEF Stored
  <2> QED
    BY <2>1, <2>2, <2>3 DEF StoreInv, StoredBehindWatermark, StreamCovered, Covered
<1>4. ASSUME NEW s \in Stages, Claim(s) PROVE StoreInv'
  BY <1>4, Elsewhere DEF Claim, NoStream
<1>5. ASSUME BreakOff PROVE StoreInv'
  BY <1>5, Elsewhere DEF BreakOff, NoStream
<1>6. ASSUME ScanRepo PROVE StoreInv'
  <2>1. /\ UNCHANGED <<watermark, instances, repo>> /\ head' = tip[repo] /\ at' = "chunk"
        /\ \E since \in Since(repo) : read' \in StreamStart(repo, since)
    BY <1>6 DEF ScanRepo
  <2>2. \A k \in 1..read' : tip[repo][k] # NoMail => Ancestor(tip[repo], k) \in Stored(repo)
    BY <2>1, StreamStarts DEF TypeInv, TypeOK, StoreInv
  <2>3. StreamCovered'
    BY <2>1, <2>2 DEF StreamCovered, Covered, Stored
  <2> QED
    BY <2>1, <2>3 DEF StoreInv, StoredBehindWatermark, OneInstancePerCommit, Stored
<1>7. ASSUME WriteChunk PROVE StoreInv'
  <2> DEFINE cs == {Ancestor(head, n) : n \in read + 1..chunkEnd'}
  <2>1. /\ at = "chunk" /\ at' = "mark" /\ UNCHANGED <<watermark, repo, head, read>>
        /\ instances' = instances \cup NewInstances(repo, cs, attempt[1])
    BY <1>7 DEF WriteChunk, Ingesting
  <2>2. /\ \A e : Stored(e) \subseteq Stored(e)'
        /\ \A c \in cs : Mail(c) # NoMail => c \in Stored(repo)'
        /\ OneInstancePerCommit'
    <3> HIDE DEF cs
    <3> QED
      BY <2>1, WriteRows DEF StoreInv
  <2>3. StoredBehindWatermark'
    BY <2>1, <2>2 DEF StoreInv, StoredBehindWatermark
  <2>4. ASSUME NEW k \in 1..chunkEnd', head[k] # NoMail
        PROVE  Ancestor(head, k) \in Stored(repo)'
    <3>1. head \in Commits /\ read \in Nat /\ Len(head) \in Nat
      BY DEF TypeInv, TypeOK, Commits
    <3>2. CASE k =< read
      <4>1. Ancestor(head, k) \in Stored(repo)
        BY <2>1, <2>4, <3>1, <3>2 DEF StoreInv, StreamCovered, Covered
      <4> QED
        BY <2>1, <2>2, <4>1 DEF Stored
    <3>3. CASE read < k
      <4>1. chunkEnd' \in 0..Len(head)
        BY <1>7, <3>1, ChunkAssumption DEF WriteChunk
      <4>2. Mail(Ancestor(head, k)) # NoMail /\ Ancestor(head, k) \in cs
        BY <2>4, <3>1, <3>3, <4>1, AncestorMail
      <4> QED
        BY <2>2, <4>2
    <3> QED
      BY <3>1, <3>2, <3>3
  <2>5. StreamCovered'
    BY <2>1, <2>4 DEF StreamCovered, Covered
  <2> QED
    BY <2>2, <2>3, <2>5 DEF StoreInv
<1>8. ASSUME MarkWatermark PROVE StoreInv'
  <2> DEFINE c == Ancestor(head, chunkEnd)
  <2>1. /\ at = "mark" /\ at' = "chunk" /\ read' = chunkEnd
        /\ UNCHANGED <<instances, repo, head>> /\ watermark' = [watermark EXCEPT ![repo] = c]
    BY <1>8 DEF MarkWatermark, Ingesting
  <2>2. /\ head \in Seq(Content) /\ Len(head) =< MaxCommits /\ chunkEnd \in 0..Len(head)
        /\ Len(head) \in Nat
    BY DEF TypeInv, TypeOK, Commits
  <2>3. /\ c \in Commits /\ Len(c) = chunkEnd
        /\ \A k \in 1..chunkEnd : c[k] = head[k] /\ Ancestor(c, k) = Ancestor(head, k)
    BY <2>2, LimitAssumption, AncestorFacts DEF Commits
  <2>4. Covered(chunkEnd)
    BY <2>1 DEF StoreInv, StreamCovered
  <2> HIDE DEF c
  <2>5. \A d \in Reachable(c) : Mail(d) # NoMail => d \in Stored(repo)
    BY <2>3, <2>4, ReachableStored DEF Covered
  <2>6. StoredBehindWatermark'
    BY <2>1, <2>5 DEF StoreInv, StoredBehindWatermark, Stored, TypeInv, TypeOK
  <2>7. StreamCovered'
    BY <2>1, <2>4 DEF StreamCovered, Covered, Stored
  <2> QED
    BY <2>1, <2>6, <2>7 DEF StoreInv, OneInstancePerCommit
<1>9. ASSUME NextRepo \/ SetWindow \/ EnqueueThreading \/ IngestReturns PROVE StoreInv'
  BY <1>9, Elsewhere DEF NextRepo, SetWindow, EnqueueThreading, IngestReturns, NoStream
<1>10. ASSUME StageStep PROVE StoreInv'
  BY <1>10, Elsewhere
     DEF StageStep, PlanThreading, ThreadWindow, ThreadingDone, ExtractLineage, UpsertDocuments,
         StageReturns
<1>11. CASE UNCHANGED vars
  BY <1>11, Elsewhere DEF vars
<1> QED
  BY <1>1, <1>2, <1>3, <1>4, <1>5, <1>6, <1>7, <1>8, <1>9, <1>10, <1>11 DEF Next, IngestStep

LEMMA Inductive == Spec => [](TypeInv /\ StoreInv)
<1>1. Init => TypeInv /\ StoreInv
  BY InitType, InitStore
<1>2. TypeInv /\ StoreInv /\ [Next]_vars => TypeInv' /\ StoreInv'
  BY NextType, NextStore
<1> QED
  BY <1>1, <1>2, PTL DEF Spec

-----------------------------------------------------------------------------
\* In every reachable state the variables have their types, and no job of a run is
\* claimed more often than its attempts allow (claim_jobs, requeue_stuck_jobs).
THEOREM TypeCorrect == Spec => []TypeOK
<1>1. TypeInv => TypeOK
  BY DEF TypeInv
<1> QED
  BY <1>1, Inductive, PTL

\* No mail behind a watermark is missing from the store, whatever the chunk size, the
\* interruptions, rewrites and resets (handle_pipeline_ingest).
THEOREM NothingSkipped == Spec => []StoredBehindWatermark
<1>1. StoreInv => StoredBehindWatermark
  BY DEF StoreInv
<1> QED
  BY <1>1, Inductive, PTL

\* A commit never has two rows: reading it again is harmless (ingest_messages_copy_batch).
THEOREM NoSecondRow == Spec => []OneInstancePerCommit
<1>1. StoreInv => OneInstancePerCommit
  BY DEF StoreInv
<1> QED
  BY <1>1, Inductive, PTL

-----------------------------------------------------------------------------
(* What the window holds is processed *)

\* A set of numbers has a least one.
LEMMA LeastOf ==
  ASSUME NEW T \in SUBSET Nat, T # {}
  PROVE  \E m \in T : \A n \in T : m =< n
<1> DEFINE Below == {p \in Nat \X Nat : p[1] < p[2]}
<1>1. IsWellFoundedOn(Below, Nat)
  BY NatLessThanWellFounded DEF OpToRel
<1>2. PICK m \in T : \A n \in T : <<n, m>> \notin Below
  <2> HIDE DEF Below
  <2> QED
    BY <1>1, WFMin
<1>3. ASSUME NEW n \in T PROVE m =< n
  <2>1. m \in Nat /\ n \in Nat /\ <<n, m>> \notin Below
    BY <1>2
  <2> QED
    BY <2>1
<1> QED
  BY <1>3

\* However the epochs lie, each touched one is in a window (build_threading_epoch_windows).
LEMMA EveryTouchedHasWindow ==
  ASSUME NEW touched \in SUBSET Epochs, NEW e \in touched
  PROVE  \E w \in WindowsOf(touched) : e \in w
<1> DEFINE scoped == Scoped(touched)
<1>1. e \in scoped /\ scoped \subseteq Nat /\ IsFiniteSet(scoped)
  <2>1. e \in scoped /\ scoped \subseteq Epochs
    BY EpochsAssumption DEF Scoped
  <2> QED
    BY <2>1, EpochsAssumption, FS_Subset
<1>2. WindowsOf(touched) = EpochWindows(touched)
  BY DEF WindowsOf
<1>3. CASE Cardinality(scoped) = 1
  BY <1>1, <1>2, <1>3 DEF EpochWindows
<1>4. CASE Cardinality(scoped) # 1
  <2> HIDE DEF scoped
  <2>1. PICK f \in scoped : f # e
    <3>1. scoped # {e}
      BY <1>4, FS_Singleton
    <3> QED
      BY <1>1, <3>1
  <2>2. \E p \in Neighbours(scoped) : e \in {p[1], p[2]}
    <3>1. CASE e < f
      <4> DEFINE above == {g \in scoped : e < g}
      <4>1. PICK g \in above : \A h \in above : g =< h
        <5>1. above \in SUBSET Nat /\ above # {}
          BY <1>1, <2>1, <3>1
        <5> HIDE DEF above
        <5> QED
          BY <5>1, LeastOf
      <4>2. <<e, g>> \in Neighbours(scoped)
        BY <1>1, <4>1 DEF Neighbours
      <4> QED
        BY <4>2
    <3>2. CASE f < e
      <4> DEFINE back == {d \in Nat : 0 < d /\ e - d \in scoped}
      <4>1. PICK d \in back : \A h \in back : d =< h
        <5>1. e - f \in back /\ back \in SUBSET Nat
          BY <1>1, <2>1, <3>2
        <5> HIDE DEF back
        <5> QED
          BY <5>1, LeastOf
      <4>2. \A h \in scoped : ~(e - d < h /\ h < e)
        <5> SUFFICES ASSUME NEW h \in scoped, e - d < h, h < e PROVE FALSE
          OBVIOUS
        <5>1. e \in Nat /\ h \in Nat /\ d \in Nat
          BY <1>1, <4>1
        <5>2. e - h \in back /\ e - h < d
          BY <5>1
        <5> QED
          BY <4>1, <5>1, <5>2
      <4>3. <<e - d, e>> \in Neighbours(scoped)
        BY <1>1, <4>1, <4>2 DEF Neighbours
      <4> QED
        BY <4>3
    <3> QED
      BY <1>1, <2>1, <3>1, <3>2
  <2>3. EpochWindows(touched) = {{p[1], p[2]} : p \in Neighbours(scoped)}
    BY <1>4 DEF EpochWindows, scoped
  <2> QED
    BY <1>2, <2>2, <2>3
<1> QED
  BY <1>3, <1>4

\* The rows of the execution that handed the run over, processed by stage s.
Processed(s) == \A i \in instances : i.seen = handedOver => Mail(i.commit) \in done[s]

\* The same, but for the windows that are still to be threaded.
Threaded ==
    \A i \in instances : i.seen = handedOver =>
        Mail(i.commit) \in done[2] \/ \E w \in left : i.repo \in w

\* The ingest job was not claimed again after it had enqueued threading.
Undisturbed == handedOver # 0 /\ handedOver = attempt[1]

\* One stage at a time, each enqueued by the one before it.
HandOver ==
    /\ task # 0 => run = "running" /\ job[task] = "running"
    /\ task = 1 => 0 < attempt[1]
    /\ handedOver =< attempt[1]
    /\ task = 1 /\ at # "return" => handedOver = 0 \/ handedOver < attempt[1]
    /\ task = 1 /\ at = "enqueue" => window = attempt[1]
    /\ job[2] # "none" <=> handedOver # 0
    /\ \A s \in 3..4 : job[s] # "none" => handedOver # 0
    /\ run = "succeeded" => handedOver # 0

\* What an undisturbed run has processed: each stage works on the window of that execution,
\* and comes after the stages before it have done so.
StagesKeepUp ==
    Undisturbed =>
        /\ window = handedOver
        /\ \A s \in 3..4 : job[s] # "none" => \A t \in 2..s - 1 : Processed(t)
        /\ task \in 2..4 /\ at = "return" => Processed(task)
        /\ task = 2 /\ at = "thread" => Threaded
        /\ run = "succeeded" => \A s \in 2..4 : Processed(s)

HandInv == HandOver /\ StagesKeepUp

\* What was processed stays processed.
LEMMA ProcessedStays ==
  ASSUME UNCHANGED <<instances, handedOver>>, NEW s, done[s] \subseteq done'[s], Processed(s)
  PROVE  Processed(s)'
BY DEF Processed

\* A row of the window shows its mail there.
LEMMA RowInWindow ==
  ASSUME NEW i \in instances, i.seen = window, NEW es, i.repo \in es
  PROVE  Mail(i.commit) \in InWindow(es)
BY DEF InWindow

LEMMA HandOverStep ==
  ASSUME TypeInv, HandOver, [Next]_vars
  PROVE  HandOver'
<1> USE DEF queueVars
<1>0. /\ attempt \in [Stages -> Nat] /\ 1 \in Stages /\ 2 \in Stages /\ 3 \in Stages /\ 4 \in Stages
      /\ job \in [Stages -> {"none", "queued", "running", "succeeded", "failed"}]
      /\ handedOver \in Nat /\ task \in {0} \cup Stages /\ Stages = 1..4
  BY LimitAssumption DEF TypeInv, TypeOK, Stages
<1>1. ASSUME NEW e \in Epochs, Push(e) \/ Purge(e) \/ ResetWatermark(e) PROVE HandOver'
  BY <1>1 DEF Push, Purge, ResetWatermark, HandOver
<1>2. ASSUME NewRun PROVE HandOver'
  BY <1>0, <1>2 DEF NewRun, HandOver
<1>3. ASSUME NEW s \in Stages, Claim(s) PROVE HandOver'
  BY <1>0, <1>3 DEF Claim, HandOver
<1>4. ASSUME BreakOff PROVE HandOver'
  <2>1. /\ task \in Stages /\ task' = 0 /\ UNCHANGED <<attempt, handedOver, window>>
        /\ run = "running" /\ run' # "succeeded"
        /\ \E end \in {"failed", "queued"} : job' = [job EXCEPT ![task] = end]
    BY <1>0, <1>4 DEF BreakOff, HandOver
  <2> QED
    BY <1>0, <1>4, <2>1 DEF HandOver
<1>5. ASSUME ScanRepo \/ WriteChunk \/ MarkWatermark \/ NextRepo \/ SetWindow PROVE HandOver'
  BY <1>0, <1>5 DEF ScanRepo, WriteChunk, MarkWatermark, NextRepo, SetWindow, Ingesting, HandOver
<1>6. ASSUME EnqueueThreading PROVE HandOver'
  BY <1>0, <1>6 DEF EnqueueThreading, Enqueued, Ingesting, HandOver
<1>7. ASSUME IngestReturns PROVE HandOver'
  BY <1>0, <1>7 DEF IngestReturns, Ingesting, HandOver
<1>8. ASSUME PlanThreading \/ ThreadWindow \/ ThreadingDone \/ ExtractLineage \/ UpsertDocuments
      PROVE  HandOver'
  BY <1>8 DEF PlanThreading, ThreadWindow, ThreadingDone, ExtractLineage, UpsertDocuments, HandOver
<1>9. ASSUME StageReturns PROVE HandOver'
  <2>1. /\ task \in 2..4 /\ task' = 0 /\ UNCHANGED <<attempt, handedOver, window>>
        /\ job[task] = "running"
    BY <1>9 DEF StageReturns, HandOver
  <2>2. handedOver # 0
    BY <2>1 DEF HandOver
  <2>3. job'[2] # "none" <=> job[2] # "none"
    BY <1>0, <1>9, <2>1 DEF StageReturns, Enqueued
  <2> QED
    BY <2>1, <2>2, <2>3 DEF HandOver
<1>10. CASE UNCHANGED vars
  BY <1>10 DEF vars, HandOver
<1> QED
  BY <1>1, <1>2, <1>3, <1>4, <1>5, <1>6, <1>7, <1>8, <1>9, <1>10 DEF Next, IngestStep, StageStep

LEMMA KeepUpStep ==
  ASSUME TypeInv, HandInv, [Next]_vars
  PROVE  StagesKeepUp'
<1> USE DEF HandInv, queueVars
<1>0. /\ attempt \in [Stages -> Nat] /\ 1 \in Stages /\ 2 \in Stages /\ 3 \in Stages /\ 4 \in Stages
      /\ job \in [Stages -> {"none", "queued", "running", "succeeded", "failed"}]
      /\ done \in [Stages -> SUBSET Messages]
      /\ handedOver \in Nat /\ task \in {0} \cup Stages /\ Stages = 1..4
  BY LimitAssumption DEF TypeInv, TypeOK, Stages
<1>1. ASSUME NEW e \in Epochs, Push(e) \/ Purge(e) \/ ResetWatermark(e) PROVE StagesKeepUp'
  BY <1>1 DEF Push, Purge, ResetWatermark, StagesKeepUp, Undisturbed, Processed, Threaded
<1>2. ASSUME NewRun PROVE StagesKeepUp'
  BY <1>2 DEF NewRun, StagesKeepUp, Undisturbed
<1>3. ASSUME NEW s \in Stages, Claim(s) PROVE StagesKeepUp'
  <2>1. CASE s = 1
    BY <1>0, <1>3, <2>1 DEF Claim, HandOver, StagesKeepUp, Undisturbed
  <2>2. CASE s # 1
    <3>1. /\ UNCHANGED <<instances, run, window, done, handedOver>> /\ attempt'[1] = attempt[1]
          /\ task = 0 /\ (task' = 0 \/ at' \in {"repo", "query"})
          /\ \A t \in Stages : job'[t] # "none" => job[t] # "none"
      BY <1>0, <1>3, <2>2 DEF Claim
    <3> QED
      BY <1>0, <3>1 DEF StagesKeepUp, Undisturbed, Processed
  <2> QED
    BY <2>1, <2>2
<1>4. ASSUME BreakOff PROVE StagesKeepUp'
  <2>1. /\ UNCHANGED <<instances, window, done, handedOver, attempt>>
        /\ task \in Stages /\ task' = 0 /\ run' # "succeeded"
    BY <1>0, <1>4 DEF BreakOff, HandOver
  <2>2. \A t \in Stages : job'[t] # "none" => job[t] # "none"
    BY <1>0, <1>4, <2>1 DEF BreakOff, HandOver
  <2> QED
    BY <1>0, <2>1, <2>2 DEF StagesKeepUp, Undisturbed, Processed
<1>5. ASSUME ScanRepo \/ WriteChunk \/ MarkWatermark \/ NextRepo \/ SetWindow PROVE StagesKeepUp'
  <2>1. ~Undisturbed /\ UNCHANGED <<attempt, handedOver>>
    BY <1>0, <1>5
       DEF ScanRepo, WriteChunk, MarkWatermark, NextRepo, SetWindow, Ingesting, HandOver, Undisturbed
  <2> QED
    BY <2>1 DEF StagesKeepUp, Undisturbed
<1>6. ASSUME EnqueueThreading PROVE StagesKeepUp'
  <2>1. CASE job[2] = "none"
    <3>1. /\ window' = handedOver' /\ task' = 1 /\ run' = "running"
          /\ job'[3] = "none" /\ job'[4] = "none"
      BY <1>0, <1>6, <2>1 DEF EnqueueThreading, Enqueued, Ingesting, HandOver
    <3> QED
      BY <3>1 DEF StagesKeepUp
  <2>2. CASE job[2] # "none"
    <3>1. ~Undisturbed /\ UNCHANGED <<attempt, handedOver>>
      BY <1>0, <1>6, <2>2 DEF EnqueueThreading, Ingesting, HandOver, Undisturbed
    <3> QED
      BY <3>1 DEF StagesKeepUp, Undisturbed
  <2> QED
    BY <2>1, <2>2
<1>7. ASSUME IngestReturns PROVE StagesKeepUp'
  BY <1>0, <1>7 DEF IngestReturns, Ingesting, HandOver, StagesKeepUp, Undisturbed, Processed
<1>8. ASSUME PlanThreading PROVE StagesKeepUp'
  <2>1. /\ task' = 2 /\ at' = "thread" /\ left' = WindowsOf(Touched)
        /\ UNCHANGED <<instances, run, window, job, attempt, done, handedOver>>
    BY <1>8 DEF PlanThreading, ThreadingWindows
  <2>2. ASSUME Undisturbed PROVE Threaded'
    <3>1. window = handedOver
      BY <2>2 DEF StagesKeepUp
    <3>2. Touched \in SUBSET Epochs
      BY DEF Touched, TypeInv, TypeOK
    <3>3. \A i \in instances : i.seen = handedOver => i.repo \in Touched
      BY <3>1 DEF Touched
    <3> QED
      BY <2>1, <3>2, <3>3, EveryTouchedHasWindow DEF Threaded
  <2> QED
    BY <2>1, <2>2 DEF StagesKeepUp, Undisturbed, Processed
<1>9. ASSUME ThreadWindow PROVE StagesKeepUp'
  <2>1. PICK w \in left : done' = [done EXCEPT ![2] = @ \cup InWindow(w)] /\ left' = left \ {w}
    BY <1>9 DEF ThreadWindow, FirstWindows
  <2>2. /\ task = 2 /\ at = "thread"
        /\ UNCHANGED <<instances, run, window, job, attempt, task, at, handedOver>>
    BY <1>9 DEF ThreadWindow
  <2>3. \A s \in Stages : done[s] \subseteq done'[s]
    BY <1>0, <2>1
  <2>4. ASSUME Undisturbed PROVE Threaded'
    <3>1. window = handedOver /\ Threaded
      BY <2>2, <2>4 DEF StagesKeepUp
    <3>2. \A i \in instances : i.seen = handedOver /\ i.repo \in w => Mail(i.commit) \in done'[2]
      BY <1>0, <2>1, <3>1, RowInWindow
    <3> QED
      BY <1>0, <2>1, <2>2, <2>3, <3>1, <3>2 DEF Threaded
  <2>5. \A s \in Stages : Processed(s) => Processed(s)'
    BY <2>2, <2>3, ProcessedStays
  <2> QED
    BY <1>0, <2>2, <2>4, <2>5 DEF StagesKeepUp, Undisturbed
<1>10. ASSUME ThreadingDone PROVE StagesKeepUp'
  BY <1>10 DEF ThreadingDone, StagesKeepUp, Undisturbed, Processed, Threaded
<1>11. ASSUME ExtractLineage \/ UpsertDocuments PROVE StagesKeepUp'
  <2>1. /\ task \in 3..4 /\ at' = "return"
        /\ UNCHANGED <<instances, run, window, job, attempt, task, handedOver>>
    BY <1>11 DEF ExtractLineage, UpsertDocuments
  <2>2. /\ \A s \in Stages : done[s] \subseteq done'[s]
        /\ \A m \in InWindow(Epochs) : (\A t \in 2..task - 1 : m \in done[t]) => m \in done'[task]
    <3>1. CASE ExtractLineage
      <4>1. task = 3 /\ 2 \in 2..3 - 1
        BY <3>1 DEF ExtractLineage
      <4> QED
        BY <1>0, <3>1, <4>1 DEF ExtractLineage
    <3>2. CASE UpsertDocuments
      <4>1. task = 4 /\ 2 \in 2..4 - 1 /\ 3 \in 2..4 - 1
        BY <3>2 DEF UpsertDocuments
      <4> QED
        BY <1>0, <3>2, <4>1 DEF UpsertDocuments
    <3> QED
      BY <1>11, <3>1, <3>2
  <2>3. \A s \in Stages : Processed(s) => Processed(s)'
    BY <2>1, <2>2, ProcessedStays
  <2>4. ASSUME Undisturbed PROVE Processed(task)'
    <3>1. window = handedOver /\ \A t \in 2..task - 1 : Processed(t)
      BY <2>1, <2>4 DEF StagesKeepUp, HandOver
    <3>2. ASSUME NEW i \in instances, i.seen = handedOver PROVE Mail(i.commit) \in done'[task]
      <4>1. Mail(i.commit) \in InWindow(Epochs)
        BY <3>1, <3>2, RowInWindow DEF TypeInv, TypeOK
      <4>2. \A t \in 2..task - 1 : Mail(i.commit) \in done[t]
        BY <3>1, <3>2 DEF Processed
      <4> QED
        BY <2>2, <4>1, <4>2
    <3> QED
      BY <2>1, <3>2 DEF Processed
  <2> QED
    BY <1>0, <2>1, <2>3, <2>4 DEF StagesKeepUp, Undisturbed
<1>12. ASSUME StageReturns PROVE StagesKeepUp'
  <2>1. /\ task \in 2..4 /\ at = "return" /\ task' = 0 /\ job[task] = "running"
        /\ UNCHANGED <<instances, attempt, window, done, handedOver>>
        /\ run = "running"
    BY <1>12 DEF StageReturns, HandOver
  <2>2. \A s \in Stages : job'[s] # "none" => job[s] # "none" \/ s = task + 1
    BY <1>0, <1>12, <2>1 DEF StageReturns, Enqueued
  <2>3. run' = "succeeded" => task = 4
    BY <1>12, <2>1 DEF StageReturns
  <2>4. ASSUME Undisturbed PROVE \A t \in 2..task : Processed(t)
    BY <2>1, <2>4 DEF StagesKeepUp
  <2> QED
    BY <1>0, <2>1, <2>2, <2>3, <2>4 DEF StagesKeepUp, Undisturbed, Processed
<1>13. CASE UNCHANGED vars
  BY <1>13 DEF vars, ingestVars, StagesKeepUp, Undisturbed, Processed, Threaded
<1> QED
  BY <1>1, <1>2, <1>3, <1>4, <1>5, <1>6, <1>7, <1>8, <1>9, <1>10, <1>11, <1>12, <1>13
     DEF Next, IngestStep, StageStep

\* Whatever breaks off, is claimed again or is rewritten, a run that succeeds has processed the
\* rows of the execution that handed it over, if no later ingest execution moved its window
\* (handle_pipeline_threading, _lineage and _lexical).
THEOREM WindowProcessed == Spec => []HandedOverIsProcessed
<1>1. Init => HandInv
  BY DEF Init, HandInv, HandOver, StagesKeepUp, Undisturbed, Stages
<1>2. HandInv => HandedOverIsProcessed
  BY DEF HandInv, HandOver, StagesKeepUp, Undisturbed, Processed, HandedOverIsProcessed, Stages
<1>3. TypeInv /\ HandInv /\ [Next]_vars => HandInv'
  BY HandOverStep, KeepUpStep DEF HandInv
<1> QED
  BY <1>1, <1>2, <1>3, Inductive, PTL DEF Spec

-----------------------------------------------------------------------------
(* Watermarks advance *)

\* d is what became of c: some of its mails may be purged, and more commits have come.
Older(c, d) == Len(c) =< Len(d) /\ \A k \in 1..Len(c) : d[k] \in {c[k], NoMail}

\* A watermark was once on its branch; the stream's tip is older than the branch and newer than
\* the watermark, which, unless rewritten, lies behind the stream.
MarkInv ==
    /\ \A e \in Epochs : Older(watermark[e], tip[e])
    /\ at \in {"chunk", "mark"} =>
         /\ Older(head, tip[repo]) /\ Older(watermark[repo], head)
         /\ watermark[repo] \in Reachable(head) => Len(watermark[repo]) =< read
    /\ at = "mark" => read =< chunkEnd
    /\ task = 0 => at = "idle"

LEMMA OlderFacts ==
  /\ \A c \in Commits : Older(c, c) /\ Older(<<>>, c)
  /\ \A c, d, f \in Commits : Older(c, d) /\ Older(d, f) => Older(c, f)
BY DEF Older, Commits

\* What is reachable is the ancestor of its length.
LEMMA ReachableIs ==
  ASSUME NEW c \in Commits, NEW d \in Commits
  PROVE  d \in Reachable(c) <=> Len(d) \in 1..Len(c) /\ \A k \in 1..Len(d) : d[k] = c[k]
<1>1. /\ c \in Seq(Content) /\ d \in Seq(Content) /\ Len(c) \in Nat /\ Len(d) \in Nat
  BY DEF Commits
<1>2. ASSUME d \in Reachable(c)
      PROVE  Len(d) \in 1..Len(c) /\ \A k \in 1..Len(d) : d[k] = c[k]
  <2>1. PICK n \in 1..Len(c) : d = Ancestor(c, n)
    BY <1>2 DEF Reachable
  <2>2. Len(d) = n /\ \A k \in 1..n : d[k] = c[k]
    BY <1>1, <2>1, AncestorFacts
  <2> QED
    BY <2>1, <2>2
<1>3. ASSUME Len(d) \in 1..Len(c), \A k \in 1..Len(d) : d[k] = c[k]
      PROVE  d \in Reachable(c)
  <2> DEFINE a == Ancestor(c, Len(d))
  <2>1. a \in Seq(Content) /\ Len(a) = Len(d) /\ \A k \in 1..Len(d) : a[k] = c[k]
    BY <1>1, <1>3, AncestorFacts
  <2>2. a = d
    <3> HIDE DEF a
    <3> QED
      BY <1>1, <1>3, <2>1, SeqEqual
  <2> QED
    BY <1>3, <2>2 DEF Reachable
<1> QED
  BY <1>2, <1>3

\* A commit that is still on a branch was on all its histories since.
LEMMA ReachableBetween ==
  ASSUME NEW c \in Commits, NEW d \in Commits, NEW f \in Commits,
         Older(c, d), Older(d, f), c \in Reachable(f)
  PROVE  c \in Reachable(d)
<1>1. Len(c) \in Nat /\ Len(d) \in Nat /\ Len(f) \in Nat
  BY DEF Commits
<1>2. Len(c) \in 1..Len(f) /\ \A k \in 1..Len(c) : c[k] = f[k]
  BY ReachableIs
<1>3. \A k \in 1..Len(c) : d[k] \in {c[k], NoMail} /\ f[k] \in {d[k], NoMail}
  BY <1>1 DEF Older
<1>4. Len(c) \in 1..Len(d) /\ \A k \in 1..Len(c) : c[k] = d[k]
  BY <1>1, <1>2, <1>3 DEF Older
<1> QED
  BY <1>4, ReachableIs

LEMMA MarkStep ==
  ASSUME TypeInv, MarkInv, [Next]_vars
  PROVE  MarkInv'
<1> USE DEF queueVars, ingestVars, streamVars
<1>0. /\ tip \in [Epochs -> Commits] /\ watermark \in [Epochs -> Commits] /\ head \in Commits
      /\ repo \in Epochs /\ read \in Nat /\ chunkEnd \in 0..Len(head) /\ Len(head) \in Nat
  BY DEF TypeInv, TypeOK, Commits
<1>t. /\ tip' \in [Epochs -> Commits] /\ watermark' \in [Epochs -> Commits] /\ head' \in Commits
      /\ repo' \in Epochs
  BY NextType DEF TypeInv, TypeOK
\* A branch gets older, and nothing else moves.
<1>1. ASSUME NEW e \in Epochs, Push(e) \/ Purge(e) PROVE MarkInv'
  <2>1. \A f \in Epochs : Older(tip[f], tip'[f])
    <3>1. CASE Push(e)
      <4>1. PICK m : tip' = [tip EXCEPT ![e] = Append(@, m)]
        BY <3>1 DEF Push
      <4>2. tip[e] \in Seq(Content)
        BY <1>0 DEF Commits
      <4>3. Older(tip[e], Append(tip[e], m))
        BY <4>2 DEF Older
      <4> QED
        BY <1>0, <4>1, <4>3, OlderFacts
    <3>2. CASE Purge(e)
      <4>1. PICK n \in 1..Len(tip[e]) : tip' = [tip EXCEPT ![e][n] = NoMail]
        BY <3>2 DEF Purge
      <4>2. tip[e] \in Seq(Content)
        BY <1>0 DEF Commits
      <4>3. Older(tip[e], [tip[e] EXCEPT ![n] = NoMail])
        BY <4>2 DEF Older
      <4> QED
        BY <1>0, <4>1, <4>3, OlderFacts
    <3> QED
      BY <1>1, <3>1, <3>2
  <2>2. UNCHANGED <<watermark, task, at, repo, head, read, chunkEnd>>
    BY <1>1 DEF Push, Purge
  <2> QED
    BY <1>0, <1>t, <2>1, <2>2, OlderFacts DEF MarkInv
<1>2. ASSUME NEW e \in Epochs, ResetWatermark(e) PROVE MarkInv'
  <2>1. /\ \A f \in Epochs : watermark'[f] \in {watermark[f], <<>>}
        /\ UNCHANGED <<tip, task, at, repo, head, read, chunkEnd>>
    BY <1>0, <1>2 DEF ResetWatermark
  <2>2. Len(<<>>) = 0
    OBVIOUS
  <2> QED
    BY <1>0, <2>1, <2>2, OlderFacts DEF MarkInv
<1>3. ASSUME UNCHANGED <<tip, watermark>>,
             at' \notin {"chunk", "mark"} \/ UNCHANGED <<at, repo, head, read, chunkEnd>>,
             UNCHANGED <<task, at>> \/ task' # 0 \/ at' = "idle"
      PROVE  MarkInv'
  BY <1>3 DEF MarkInv
<1>4. ASSUME NewRun PROVE MarkInv'
  BY <1>3, <1>4 DEF NewRun
<1>5. ASSUME NEW s \in Stages, Claim(s) PROVE MarkInv'
  <2>1. /\ UNCHANGED <<tip, watermark>> /\ at' \notin {"chunk", "mark"}
        /\ UNCHANGED <<task, at>> \/ task' # 0
    BY <1>5 DEF Claim, MarkInv, Stages
  <2> QED
    BY <1>3, <2>1
<1>6. ASSUME ScanRepo PROVE MarkInv'
  <2>1. /\ head' = tip[repo] /\ at' = "chunk" /\ task' = 1
        /\ UNCHANGED <<tip, watermark, repo>>
        /\ \E since \in Since(repo) : read' \in StreamStart(repo, since)
    BY <1>6 DEF ScanRepo, Ingesting
  <2> DEFINE w == watermark[repo]
             t == tip[repo]
  <2>2. ASSUME w \in Reachable(t) PROVE Len(w) =< read'
    <3>1. read' \in StreamStart(repo, w)
      BY <2>1, <2>2 DEF Since
    <3>2. w \in Commits /\ t \in Commits /\ Len(w) \in Nat /\ Len(t) \in Nat
      BY <1>0 DEF Commits
    <3>3. PICK n \in 1..Len(t) : w = Ancestor(t, n)
      BY <2>2 DEF Reachable
    <3>4. Len(w) = n /\ w \in Reachable(w)
      <4>1. t \in Seq(Content)
        BY <1>0 DEF Commits
      <4> HIDE DEF w, t
      <4>2. Len(w) = n
        BY <3>3, <4>1, AncestorFacts
      <4> QED
        BY <3>2, <4>2, ReachableIs
    <3>5. \A m \in read' + 1..Len(t) : Ancestor(t, m) \notin Reachable(w)
      BY <3>1 DEF StreamStart
    <3>6. read' \in Nat
      BY <3>1, <3>2 DEF StreamStart
    <3> HIDE DEF w, t
    <3>7. n \in Nat /\ n =< Len(t) /\ Len(t) \in Nat
      BY <3>2
    <3>8. ASSUME read' < n PROVE FALSE
      <4>1. \A a, b, c \in Nat : a < b /\ b =< c => b \in a + 1..c
        OBVIOUS
      <4>2. n \in read' + 1..Len(t)
        BY <3>6, <3>7, <3>8, <4>1
      <4> QED
        BY <3>3, <3>4, <3>5, <4>2
    <3>9. n =< read'
      BY <3>6, <3>7, <3>8
    <3> QED
      BY <3>4, <3>9
  <2> QED
    BY <1>0, <2>1, <2>2, OlderFacts DEF MarkInv
<1>7. ASSUME WriteChunk PROVE MarkInv'
  <2>1. /\ at = "chunk" /\ at' = "mark" /\ UNCHANGED <<tip, watermark, repo, head, read>>
        /\ read =< chunkEnd' /\ task' = 1
    BY <1>0, <1>7, ChunkAssumption DEF WriteChunk, Ingesting
  <2> QED
    BY <2>1 DEF MarkInv
<1>8. ASSUME MarkWatermark PROVE MarkInv'
  <2> DEFINE c == Ancestor(head, chunkEnd)
  <2>1. /\ at = "mark" /\ at' = "chunk" /\ read' = chunkEnd /\ task' = 1
        /\ UNCHANGED <<tip, repo, head, chunkEnd>>
        /\ watermark' = [watermark EXCEPT ![repo] = c]
    BY <1>8 DEF MarkWatermark, Ingesting
  <2>2. Len(c) = chunkEnd /\ \A k \in 1..chunkEnd : c[k] = head[k]
    BY <1>0, AncestorFacts DEF Commits
  <2>3. Older(c, head)
    BY <1>0, <2>2 DEF Older
  <2>4. c \in Commits
    BY <1>0, <1>t, <2>1
  <2> HIDE DEF c
  <2>5. Older(c, tip[repo])
    BY <1>0, <2>1, <2>3, <2>4, OlderFacts DEF MarkInv
  <2> QED
    BY <1>0, <2>1, <2>2, <2>3, <2>5 DEF MarkInv
<1>9. ASSUME \/ NextRepo \/ SetWindow \/ EnqueueThreading \/ IngestReturns \/ BreakOff
             \/ PlanThreading \/ ThreadWindow \/ ThreadingDone \/ ExtractLineage \/ UpsertDocuments
             \/ StageReturns
      PROVE  MarkInv'
  <2>1. CASE NextRepo
    BY <1>3, <2>1 DEF NextRepo, Ingesting
  <2>2. CASE SetWindow \/ EnqueueThreading \/ IngestReturns \/ BreakOff
    BY <1>3, <2>2 DEF SetWindow, EnqueueThreading, IngestReturns, BreakOff, Ingesting
  <2>3. CASE PlanThreading \/ ThreadWindow \/ ThreadingDone \/ ExtractLineage \/ UpsertDocuments
    BY <1>3, <2>3 DEF PlanThreading, ThreadWindow, ThreadingDone, ExtractLineage, UpsertDocuments
  <2>4. CASE StageReturns
    BY <1>3, <2>4 DEF StageReturns
  <2> QED
    BY <1>9, <2>1, <2>2, <2>3, <2>4
<1>10. CASE UNCHANGED vars
  BY <1>3, <1>10 DEF vars
<1> QED
  BY <1>1, <1>2, <1>4, <1>5, <1>6, <1>7, <1>8, <1>9, <1>10 DEF Next, IngestStep, StageStep

\* What a statement may do to a watermark.
LEMMA AdvanceStep ==
  ASSUME TypeInv, MarkInv, [Next]_vars, NEW e \in Epochs
  PROVE  \/ watermark'[e] \in {watermark[e], <<>>}
         \/ watermark[e] \in Reachable(watermark'[e]) \cup {<<>>}
         \/ watermark[e] \notin Reachable(tip[e])
<1> USE DEF queueVars, ingestVars, streamVars
<1>0. /\ tip \in [Epochs -> Commits] /\ watermark \in [Epochs -> Commits] /\ head \in Commits
      /\ repo \in Epochs /\ read \in Nat /\ chunkEnd \in 0..Len(head) /\ Len(head) \in Nat
  BY DEF TypeInv, TypeOK, Commits
<1>1. CASE \E f \in Epochs : ResetWatermark(f)
  BY <1>0, <1>1 DEF ResetWatermark
<1>2. CASE MarkWatermark
  <2> DEFINE w == watermark[e]
             c == Ancestor(head, chunkEnd)
  <2>1. at = "mark" /\ watermark' = [watermark EXCEPT ![repo] = c]
    BY <1>2 DEF MarkWatermark, Ingesting
  <2>2. w \in Commits /\ c \in Commits /\ Len(c) = chunkEnd /\ \A k \in 1..chunkEnd : c[k] = head[k]
    <3>1. watermark' \in [Epochs -> Commits]
      BY NextType DEF TypeInv, TypeOK
    <3> QED
      BY <1>0, <2>1, <3>1, AncestorFacts DEF Commits
  <2>3. CASE e = repo /\ w \in Reachable(tip[e])
    <3>1. w \in Reachable(head) /\ Len(w) =< chunkEnd
      <4>1. w \in Reachable(head)
        BY <1>0, <2>1, <2>3, ReachableBetween DEF MarkInv
      <4>2. Len(w) =< read /\ read =< chunkEnd
        BY <2>1, <2>3, <4>1 DEF MarkInv
      <4>3. Len(w) \in Nat
        BY <2>2 DEF Commits
      <4> QED
        BY <1>0, <4>1, <4>2, <4>3
    <3> HIDE DEF w, c
    <3>2. Len(w) \in 1..Len(head) /\ \A k \in 1..Len(w) : w[k] = head[k]
      BY <1>0, <2>2, <3>1, ReachableIs
    <3>3. Len(w) \in 1..Len(c) /\ \A k \in 1..Len(w) : w[k] = c[k]
      BY <1>0, <2>2, <3>1, <3>2
    <3>4. w \in Reachable(c)
      BY <2>2, <3>3, ReachableIs
    <3> QED
      BY <1>0, <2>1, <2>3, <3>4 DEF w
  <2>4. CASE e # repo
    BY <1>0, <2>1, <2>4
  <2> QED
    BY <2>3, <2>4
<1>3. UNCHANGED watermark \/ MarkWatermark \/ \E f \in Epochs : ResetWatermark(f)
  BY DEF Next, vars, Push, Purge, NewRun, Claim, BreakOff, IngestStep, ScanRepo, WriteChunk, NextRepo,
         SetWindow, EnqueueThreading, IngestReturns, StageStep, PlanThreading, ThreadWindow,
         ThreadingDone, ExtractLineage, UpsertDocuments, StageReturns
<1> QED
  BY <1>1, <1>2, <1>3

\* A watermark never goes back on its branch but to be reset, whatever is fetched, purged,
\* retried or reset between the start of a stream and its marks (update_watermark).
THEOREM WatermarkMovesOn == Spec => WatermarkAdvances
<1>1. Init => MarkInv
  BY OlderFacts, LimitAssumption DEF Init, MarkInv, Older, Commits
<1>2. TypeInv /\ MarkInv /\ [Next]_vars =>
        [\A e \in Epochs : \/ watermark'[e] \in {watermark[e], <<>>}
                           \/ watermark[e] \in Reachable(watermark'[e]) \cup {<<>>}
                           \/ watermark[e] \notin Reachable(tip[e])]_vars
  BY AdvanceStep
<1> QED
  BY <1>1, <1>2, MarkStep, Inductive, PTL DEF Spec, WatermarkAdvances

=============================================================================
