------------------------------ MODULE Lineage ------------------------------
(***************************************************************************)
(* Patch lineage: how the mail of threads becomes series, versions, items, *)
(* assembled views and logical slots (process_patch_extract_threads and    *)
(* process_patch_enrichment_batch in nexus-jobs/src/lineage, the tables of *)
(* nexus-db/src/lineage).                                                  *)
(*                                                                         *)
(* Every statement commits on its own, so that a pass over threads may     *)
(* break off between any two, and is then repeated from the start.  Mail   *)
(* keeps arriving in threads that were processed before.  One pass runs at *)
(* a time: it is a stage of the one active pipeline run.                   *)
(***************************************************************************)
EXTENDS Integers, SequencesExt

CONSTANTS
  Mail,        \* what each message with a patch tag says, by its place in sort order
  None,        \* NULL
  PassBound,   \* bounds: passes of the lineage stage,
  BreakBound   \*   and how many of them break off

(* What the parser and the ingest facts say of a message. *)
Letters == [thread : Nat, sent : Nat, author : STRING, subject : STRING,
            kind : {"cover", "patch", "other"}, version : Nat, ordinal : Nat, total : Nat,
            explicit : BOOLEAN, rfc : BOOLEAN, resend : BOOLEAN, facts : BOOLEAN,
            patch : STRING \cup {None}, change : STRING \cup {None}, refs : Seq(Nat)]

ASSUME MailAssumption  == Mail \in Seq(Letters)
ASSUME BoundAssumption == PassBound \in Nat /\ BreakBound \in Nat

Threads == {Mail[m].thread : m \in DOMAIN Mail}

VARIABLES
  arrived,    \* the mail that is stored and threaded
  series,     \* patch_series, by id
  versions,   \* patch_series_versions, by id
  items,      \* patch_items of a version, by ordinal (0 is the cover)
  view,       \* patch_series_version_assembled_items of a version, by ordinal
  slots,      \* patch_logical of a series: titles by slot
  mapping,    \* patch_logical_versions of a series: items by slot and version number
  worker,     \* the pass: where it is, the candidates left, the rows of the current one
  breaks,     \* passes that broke off: the version each left without its items, or 0
  passes,     \* passes begun
  results     \* history: the tables at the end of each whole pass over the mail there is

tables == <<series, versions, items, view, slots, mapping>>
vars   == <<arrived, tables, worker, breaks, passes, results>>

Idle == [at |-> "idle", todo |-> <<>>, series |-> 0, version |-> 0, plan |-> <<>>,
         left |-> {}, written |-> {}, made |-> {}, whole |-> FALSE]

(* ------------------------- candidate versions -------------------------- *)

In(t) == {m \in arrived : Mail[m].thread = t}

(* A subject without a version number takes that of a message it refers to. *)
Version(m) ==
  LET refs  == Mail[m].refs
      named == {i \in DOMAIN refs : refs[i] \in In(Mail[m].thread) /\ Mail[refs[i]].explicit}
  IN  IF Mail[m].explicit \/ named = {} THEN Mail[m].version
      ELSE Mail[refs[Min(named)]].version

Covers(m) == {c \in In(Mail[m].thread) :
                /\ Mail[c].kind = "cover"
                /\ Mail[c].version = Version(m)
                /\ Mail[c].rfc = Mail[m].rfc}

Subject(m) == IF Covers(m) = {} THEN Mail[m].subject ELSE Mail[Min(Covers(m))].subject

(* Patches of a numbered series without a cover are kept together by their total. *)
Group(m) == <<Mail[m].thread, Version(m), Mail[m].rfc,
              IF Covers(m) = {} /\ Mail[m].total > 1 THEN <<"thread", Mail[m].total>>
              ELSE <<Subject(m)>> >>

(* What extraction knows of the diff: its id, if ingest left a patch fact. *)
KnownPatch(m) == IF Mail[m].facts THEN Mail[m].patch ELSE None

Candidate(g, group) ==
  LET first    == Min(group)
      changes  == {m \in group : Mail[m].change # None}
      linked   == {m \in group : Mail[m].refs # <<>>}
      ordinals == {Mail[m].ordinal : m \in group}
      best(o)  == Min({m \in group : Mail[m].ordinal = o})
  IN  [thread  |-> g[1], version |-> g[2],
       subject |-> Subject(first), author |-> Mail[first].author,
       resend  |-> Mail[first].resend,
       sent    |-> Min({Mail[m].sent : m \in group}),
       change  |-> IF changes = {} THEN None ELSE Mail[Min(changes)].change,
       refs    |-> IF linked = {} THEN {} ELSE Range(Mail[Min(linked)].refs),
       items   |-> [o \in ordinals |->
                      [mail  |-> best(o), title |-> Mail[best(o)].subject,
                       patch |-> IF o = 0 THEN None ELSE KnownPatch(best(o)),
                       total |-> IF o = 0 THEN Mail[best(o)].total
                                 ELSE Max({Mail[best(o)].total} \cup ordinals)]]]

Patches(c) == DOMAIN c.items \ {0}

(* Lexicographic order of tuples of numbers. *)
Precedes(a, b) == \E i \in DOMAIN a : a[i] < b[i] /\ \A j \in 1..(i - 1) : a[j] = b[j]

Sorted(S, Key(_)) ==
  [i \in 1..Cardinality(S) |->
     CHOOSE x \in S : Cardinality({y \in S : Precedes(Key(y), Key(x))}) = i - 1]

FirstMail(c) == Min({c.items[o].mail : o \in DOMAIN c.items})

(* Mutant of Rank: a chunk is processed thread by thread. *)
RankByThread(c) == <<c.thread, c.version, c.sent, FirstMail(c)>>

(* The candidates of a chunk are processed by date, whatever their threads. *)
Rank(c) == <<c.sent, c.thread, c.version, FirstMail(c)>>

(* A message is a cover or a patch; anything else, a reply, say, is no source. *)
Candidates(threads) ==
  LET sources == {m \in arrived : Mail[m].thread \in threads /\ Mail[m].kind # "other"}
      made    == {Candidate(g, {m \in sources : Group(m) = g}) :
                    g \in {Group(m) : m \in sources}}
  IN  Sorted({c \in made : Patches(c) # {}}, Rank)

(* version_fingerprint: a hash of the patches, in order. *)
Fingerprint(c) == {<<o, c.items[o].patch, c.items[o].title>> : o \in Patches(c)}

(* --------------------- the series of a candidate ----------------------- *)

First(S, Before(_, _)) == CHOOSE x \in S : \A y \in S \ {x} : Before(x, y)

(* ORDER BY version_num DESC, sent_at DESC, id DESC *)
Newer(v, w) == \/ versions[v].num > versions[w].num
               \/ /\ versions[v].num = versions[w].num
                  /\ \/ versions[v].sent > versions[w].sent
                     \/ (versions[v].sent = versions[w].sent /\ v > w)

VersionsOf(s) == {v \in DOMAIN versions : versions[v].series = s}

LatestPatches(s) ==
  LET rows == IF VersionsOf(s) = {} THEN <<>> ELSE items[First(VersionsOf(s), Newer)]
  IN  {rows[o].patch : o \in DOMAIN rows \ {0}} \ {None}

(* find_similarity_candidates: by subject, seen between two days around the mail. *)
Similar(c, back, ahead) ==
  {s \in DOMAIN series : /\ series[s].subject = c.subject
                         /\ series[s].seen \in (c.sent - back)..(c.sent + ahead)}

LastSeen(s, r) == 
  series[s].seen > series[r].seen \/ (series[s].seen = series[r].seen /\ s < r)

SameAuthor(S, c) == {s \in S : series[s].author = c.author}

CandidatePatches(c) == {c.items[o].patch : o \in Patches(c)} \ {None}
Common(c, s)        == Cardinality(CandidatePatches(c) \cap LatestPatches(s))
United(c, s)        == Cardinality(CandidatePatches(c) \cup LatestPatches(s))

(* At least 0.40 for the author of the series, 0.85 for someone else's resend. *)
Alike(c, s) ==
  /\ United(c, s) > 0
  /\ IF series[s].author = c.author THEN 100 * Common(c, s) >= 40 * United(c, s)
     ELSE c.resend /\ 100 * Common(c, s) >= 85 * United(c, s)

Closer(c, s, r) ==
  LET a == Common(c, s) * United(c, r)
      b == Common(c, r) * United(c, s)
  IN  a > b \/ (a = b /\ LastSeen(s, r))

(* resolve_series_id and the fallback after it; 0 if a series has to be made. *)
ByChange(c) == {s \in DOMAIN series : c.change # None /\ series[s].change = c.change}
ByRefs(c)   == {versions[v].series : v \in {v \in DOMAIN versions :
                  \E o \in DOMAIN items[v] : items[v][o].mail \in c.refs}}
ByPatches(c) == {s \in Similar(c, 180, 1) : Alike(c, s)}
BySubject(c) == IF c.version > 1 \/ c.resend THEN SameAuthor(Similar(c, 180, 1), c) ELSE {}

(* Mutant of Fallback: the first posting of a series always makes one. *)
NoFallback(c) == {}

(* Before a series is made: one of the author, of this subject, seen within ten years. *)
Fallback(c) == SameAuthor(Similar(c, 3650, 3650), c)

Pick(S, Before(_, _)) == IF S = {} THEN 0 ELSE First(S, Before)

Resolve(c) ==
  LET Lower(s, r) == s < r
      Nearer(s, r) == Closer(c, s, r)
  IN  IF ByChange(c) # {} THEN First(ByChange(c), Lower)
      ELSE IF ByRefs(c) # {} THEN First(ByRefs(c), Lower)
      ELSE IF ByPatches(c) # {} THEN First(ByPatches(c), Nearer)
      ELSE IF BySubject(c) # {} THEN First(BySubject(c), LastSeen)
      ELSE Pick(Fallback(c), LastSeen)

(* -------------------- assembled view and logical slots ------------------ *)

(* Mutant of Inherited: any series will do. *)
InheritedFromAny(s, num, o) ==
  Pick({v \in DOMAIN versions : versions[v].num < num /\ o \in DOMAIN items[v]}, Newer)

(* The newest lower version that has a patch of this ordinal; 0 if none. *)
Inherited(s, num, o) ==
  Pick({v \in VersionsOf(s) : versions[v].num < num /\ o \in DOMAIN items[v]}, Newer)

(* What the ordinals of version v stand for, given the rows `own` just written. *)
Assembled(v, own) ==
  LET top     == Max({items[v][o].total : o \in own \ {0}})
      from(o) == IF o \in own THEN v ELSE Inherited(versions[v].series, versions[v].num, o)
  IN  [o \in (own \cap {0}) \cup {o \in 1..top : from(o) # 0} |-> <<from(o), o>>]

(* Assembled items by version number and ordinal; SQL leaves open in which order those
   of two versions with one number come. *)
Rows(s, newestFirst) ==
  LET Place(p) == <<versions[p[1]].num, p[2], IF newestFirst THEN -p[1] ELSE p[1]>>
  IN  Sorted(UNION {{<<v, o>> : o \in DOMAIN view[v]} : v \in VersionsOf(s)}, Place)

At(f, x) == IF x \in DOMAIN f THEN f[x] ELSE 0

(* One turn of the loop over assembled items: the slot of the same patch, or of the
   same title, or of the ordinal, if this version has not used it; else a new slot. *)
TakeSlot(acc, row) ==
  LET num  == versions[row[1]].num
      item == view[row[1]][row[2]]
      it   == items[item[1]][item[2]]
      used == IF num = acc.num THEN acc.used ELSE {}
      free == SelectSeq(<<At(acc.byPatch, it.patch), At(acc.byTitle, it.title), row[2]>>,
                        LAMBDA k : k > 0 /\ k \notin used)
      slot == IF free = <<>> THEN acc.next ELSE Head(free)
  IN  [num     |-> num,
       used    |-> used \cup {slot},
       next    |-> IF free = <<>> THEN acc.next + 1 ELSE acc.next,
       byPatch |-> IF it.patch = None THEN acc.byPatch ELSE (it.patch :> slot) @@ acc.byPatch,
       byTitle |-> (it.title :> slot) @@ acc.byTitle,
       titles  |-> acc.titles @@ (slot :> it.title),
       map     |-> (<<slot, num>> :> item) @@ acc.map]

(* Mutant of NextSlot: the slots the series has already do not count. *)
NextSlotFromOne(s) == 1

NextSlot(s) == Max({0} \cup DOMAIN slots[s]) + 1

Plan(s, newestFirst) ==
  FoldLeft(TakeSlot,
    [num |-> 0, used |-> {}, next |-> NextSlot(s), byPatch |-> <<>>,
     byTitle |-> <<>>, titles |-> <<>>, map |-> <<>>], Rows(s, newestFirst))

(* ------------------------------ the pass ------------------------------- *)

Init ==
  /\ arrived = {}
  /\ series = <<>> /\ versions = <<>> /\ items = <<>> /\ view = <<>>
  /\ slots = <<>> /\ mapping = <<>>
  /\ worker = Idle
  /\ breaks = <<>> /\ passes = 0
  /\ results = {}

(* Ingest stores a message and threading puts it in its thread; a pass reads its mail
   once, so that mail arriving during one is as mail arriving after it. *)
Arrive(m) ==
  /\ worker.at = "idle" /\ m \notin arrived
  /\ arrived' = arrived \cup {m}
  /\ results' = {}
  /\ UNCHANGED <<tables, worker, breaks, passes>>

(* A chunk of threads is loaded; without a candidate there is nothing to do. *)
Begin(threads) ==
  /\ worker.at = "idle" /\ passes < PassBound
  /\ Candidates(threads) # <<>>
  /\ passes' = passes + 1
  /\ worker' = [Idle EXCEPT !.at = "series", !.todo = Candidates(threads),
                            !.whole = {Mail[m].thread : m \in arrived} \subseteq threads]
  /\ UNCHANGED <<arrived, tables, breaks, results>>

Step(from, to) == worker.at = from /\ worker' = [worker EXCEPT !.at = to]
Candidate1     == Head(worker.todo)

FindSeries ==
  /\ worker.at = "series"
  /\ LET c == Candidate1
         s == Resolve(c)
     IN  /\ worker' = [worker EXCEPT !.at = "version",
                                     !.series = IF s # 0 THEN s ELSE Len(series) + 1]
         /\ IF s # 0 THEN UNCHANGED <<series, slots, mapping>>
            ELSE /\ series' = Append(series, [subject |-> c.subject, author |-> c.author,
                                  change |-> c.change, seen |-> c.sent, latest |-> 0])
                 /\ slots' = Append(slots, <<>>)
                 /\ mapping' = Append(mapping, <<>>)
  /\ UNCHANGED <<arrived, versions, items, view, breaks, passes, results>>

(* Mutant of SameVersions: the row is always inserted. *)
NoSameVersions(s, c) == {}

(* The unique key of patch_series_versions. *)
SameVersions(s, c) ==
  {v \in VersionsOf(s) : versions[v].num = c.version /\ versions[v].finger = Fingerprint(c)}

(* upsert_series_version: one row for a number and a fingerprint. *)
WriteVersion ==
  /\ worker.at = "version"
  /\ LET c    == Candidate1
         same == SameVersions(worker.series, c)
         v    == IF same = {} THEN Len(versions) + 1 ELSE Min(same)
     IN  /\ worker' = [worker EXCEPT !.at = "items", !.version = v, !.made = @ \cup {v}]
         /\ IF same # {}
            THEN /\ versions' = [versions EXCEPT ![v].sent = Min({@, c.sent})]
                 /\ UNCHANGED <<items, view>>
            ELSE /\ versions' = Append(versions, [series |-> worker.series, num |-> c.version,
                                   finger |-> Fingerprint(c), sent |-> c.sent, partial |-> FALSE])
                 /\ items' = Append(items, <<>>)
                 /\ view' = Append(view, <<>>)
  /\ UNCHANGED <<arrived, series, slots, mapping, breaks, passes, results>>

(* upsert_patch_items_batch: a row that is there keeps a patch id the new one lacks. *)
WriteItems ==
  /\ Step("items", "view")
  /\ LET v   == worker.version
         new == Candidate1.items
         Row(o) == IF o \notin DOMAIN new THEN items[v][o]
                   ELSE [new[o] EXCEPT !.patch =
                           IF @ = None /\ o \in DOMAIN items[v] THEN items[v][o].patch ELSE @]
     IN  items' = [items EXCEPT ![v] = [o \in DOMAIN new \cup DOMAIN items[v] |-> Row(o)]]
  /\ UNCHANGED <<arrived, series, versions, view, slots, mapping, breaks, passes, results>>

(* apply_assembled_view: the view is replaced in one transaction, *)
WriteView ==
  /\ Step("view", "flag")
  /\ view' = [view EXCEPT ![worker.version] =
                Assembled(worker.version, DOMAIN Candidate1.items)]
  /\ UNCHANGED <<arrived, series, versions, items, slots, mapping, breaks, passes, results>>

(* and the flag set after it. *)
FlagPartial ==
  /\ Step("flag", "plan")
  /\ LET v == worker.version
     IN  versions' = [versions EXCEPT ![v].partial = \E o \in DOMAIN view[v] : view[v][o][1] # v]
  /\ UNCHANGED <<arrived, series, items, view, slots, mapping, breaks, passes, results>>

(* recompute_logical_mapping reads every view and slot of the series, *)
PlanSlots(newestFirst) ==
  /\ worker.at = "plan"
  /\ LET plan == Plan(worker.series, newestFirst)
     IN  worker' = [worker EXCEPT !.at = "slots", !.plan = plan, !.left = DOMAIN plan.titles]
  /\ UNCHANGED <<arrived, tables, breaks, passes, results>>

(* upserts the slots it uses one by one, keeping the title of one that is there, *)
WriteSlot ==
  /\ worker.at = "slots" /\ worker.left # {}
  /\ LET k == Min(worker.left)
     IN  /\ worker' = [worker EXCEPT !.left = @ \ {k}]
         /\ slots' = [slots EXCEPT ![worker.series] = @ @@ (k :> worker.plan.titles[k])]
  /\ UNCHANGED <<arrived, series, versions, items, view, mapping, breaks, passes, results>>

(* and replaces the mapping in one transaction. *)
WriteMapping ==
  /\ worker.left = {} /\ Step("slots", "touch")
  /\ mapping' = [mapping EXCEPT ![worker.series] = worker.plan.map]
  /\ UNCHANGED <<arrived, series, versions, items, view, slots, breaks, passes, results>>

(* Mutant of Leads: the version that was processed last is the latest. *)
LeadsAlways(v, w) == TRUE

(* A latest version is replaced by one of the same number or a higher one. *)
Leads(v, w) == w = 0 \/ versions[v].num >= versions[w].num

(* touch_series_seen; then the next candidate, or the enrichment of the chunk. *)
Touch ==
  /\ worker.at = "touch"
  /\ LET c    == Candidate1
         v    == worker.version
     IN  /\ series' = [series EXCEPT ![worker.series].seen = Max({@, c.sent}),
                                     ![worker.series].latest = IF Leads(v, @) THEN v ELSE @]
         /\ worker' = [Idle EXCEPT
                !.at = IF Len(worker.todo) = 1 THEN "enrich" ELSE "series",
                !.todo = Tail(worker.todo), !.whole = worker.whole, !.made = worker.made,
                !.written = worker.written \cup {<<v, o>> : o \in Patches(c)}]
  /\ UNCHANGED <<arrived, versions, items, view, slots, mapping, breaks, passes, results>>

(* Patch ids of the items the pass wrote, of mail with the facts of ingest or without them. *)
PatchIds(facts) ==
  [v \in DOMAIN items |-> [o \in DOMAIN items[v] |->
     IF <<v, o>> \in worker.written /\ Mail[items[v][o].mail].facts = facts
     THEN [items[v][o] EXCEPT !.patch = Mail[items[v][o].mail].patch]
     ELSE items[v][o]]]

(* process_patch_enrichment_batch: patch ids come from the facts, *)
Hydrate ==
  /\ Step("enrich", "diffs")
  /\ items' = PatchIds(TRUE)
  /\ UNCHANGED <<arrived, series, versions, view, slots, mapping, breaks, passes, results>>

(* and of the mail without facts from the diffs.  The pass is over. *)
ComputePatchIds ==
  /\ worker.at = "diffs"
  /\ items' = PatchIds(FALSE)
  /\ worker' = [Idle EXCEPT !.made = worker.made]
  /\ UNCHANGED <<arrived, series, versions, view, slots, mapping, breaks, passes>>
  /\ results' = IF worker.whole THEN results \cup {tables'} ELSE results

(* An error, a dead worker or a cancel, before any statement. *)
Break ==
  /\ worker.at # "idle" /\ Len(breaks) < BreakBound
  /\ breaks' = Append(breaks, IF worker.at = "items" /\ DOMAIN items[worker.version] = {}
                              THEN worker.version ELSE 0)
  /\ worker' = Idle
  /\ UNCHANGED <<arrived, tables, passes, results>>

Next ==
  \/ \E m \in DOMAIN Mail : Arrive(m)
  \/ \E threads \in SUBSET Threads : Begin(threads)
  \/ FindSeries \/ WriteVersion \/ WriteItems \/ WriteView \/ FlagPartial
  \/ \E newestFirst \in BOOLEAN : PlanSlots(newestFirst)
  \/ WriteSlot \/ WriteMapping \/ Touch \/ Hydrate \/ ComputePatchIds
  \/ Break

Spec == Init /\ [][Next]_vars

-----------------------------------------------------------------------------

(* Rows refer to rows that are there, and a view only to versions of its own series: it
   inherits no patch of a series that happens to have the same ordinals. *)
TypeOK ==
  /\ arrived \subseteq DOMAIN Mail
  /\ Len(breaks) \in 0..BreakBound /\ Range(breaks) \subseteq {0} \cup DOMAIN versions
  /\ passes \in 0..PassBound
  /\ DOMAIN slots = DOMAIN series /\ DOMAIN mapping = DOMAIN series
  /\ DOMAIN items = DOMAIN versions /\ DOMAIN view = DOMAIN versions
  /\ \A s \in DOMAIN series : series[s].latest \in {0} \cup VersionsOf(s)
  /\ \A v \in DOMAIN versions :
       /\ versions[v].series \in DOMAIN series
       /\ versions[v].partial \in BOOLEAN
       /\ \A o \in DOMAIN items[v] : items[v][o].mail \in arrived
       /\ \A p \in Range(view[v]) :
            p[1] \in VersionsOf(versions[v].series) /\ p[2] \in DOMAIN items[p[1]]

(* An author has one series of a subject: neither a retry of a pass that broke off after
   the series was made, nor versions that come in any order, in other threads, without a
   change id or after a resend by someone else, make a second one.  resolve_series_id
   reads and upsert_series writes in two statements, and no unique index helps. *)
NoTwinSeries ==
  \A s, r \in DOMAIN series :
    series[s].subject = series[r].subject /\ series[s].author = series[r].author => s = r

(* After a whole pass, a version that the pass wrote shows each ordinal as it is in the
   newest version, up to its own, that has it, and is partial if one is inherited: no older
   version of the same chunk came too late for it, and no mail read before, break or retry
   left a view behind.  (An older version that is dated later is processed later; so may be
   one whose row a broken pass left without items, if its mail was regrouped since.) *)
ViewsComplete ==
  worker.at = "idle" => \A v \in worker.made :
    LET row     == versions[v]
        older   == {w \in VersionsOf(row.series) : versions[w].num < row.num}
        top     == Max({items[v][o].total : o \in DOMAIN items[v] \ {0}})
        from(o) == IF o \in DOMAIN items[v] THEN v
                   ELSE Pick({w \in older : o \in DOMAIN items[w]}, Newer)
    IN  (\A w \in older : versions[w].sent < row.sent /\ w \notin Range(breaks)) =>
          /\ DOMAIN view[v] \ {0} = {o \in 1..top : from(o) # 0}
          /\ \A o \in DOMAIN view[v] \ {0} : view[v][o] = <<from(o), o>>
          /\ row.partial = (\E o \in 1..top : from(o) \notin {0, v})

(* Between passes, no version of a series is newer than its latest one, in whatever order
   versions came and were processed again.  (A pass that broke off may leave one behind.) *)
LatestIsNewest ==
  breaks = <<>> /\ worker.at = "idle" => \A v \in DOMAIN versions :
    LET latest == series[versions[v].series].latest
    IN  latest # 0 /\ versions[latest].num >= versions[v].num

(* After a whole pass, each patch that a view of the series shows has a slot, at each
   version: recompute_logical_mapping gives no slot to two patches of one version.  After a
   break it may: slots were made for views that have changed since. *)
MappedUnlessBroken ==
  breaks = <<>> /\ worker.at = "idle" => \A v \in worker.made :
    \A w \in VersionsOf(versions[v].series) :
      Range(view[w]) \subseteq Range(mapping[versions[v].series])

(* A pass over all the mail there is, repeated, finds the series, versions, items and views
   as the last one left them, whatever was processed in which order before and wherever it
   broke off (tests.rs: "idempotent").  Not so for mail that a series got by the patches of
   someone else's resend, or by a change id that came in a second thread. *)
OwnMail == \A m, n \in arrived : Mail[m].resend => Mail[n].author = Mail[m].author
OneThreadPerChange ==
  \A m, n \in arrived :
    Mail[m].change = Mail[n].change /\ Mail[m].change # None => Mail[m].thread = Mail[n].thread
RepeatsItself ==
  OwnMail /\ OneThreadPerChange =>
    \A r, q \in results : <<r[1], r[2], r[3], r[4]>> = <<q[1], q[2], q[3], q[4]>>
=============================================================================
