------------------------------ MODULE Threads ------------------------------
(***************************************************************************)
(* The threads of one list: the forest that build_threads makes of a set   *)
(* of messages, and the two jobs that keep the thread tables up to date    *)
(* from what is new, the threading stage of a pipeline run and the         *)
(* threading rebuild.  A job goes through the epoch windows of its         *)
(* messages; of each window it reads the messages it takes to be           *)
(* concerned, builds their forest in memory, and writes it in one          *)
(* transaction.                                                            *)
(*                                                                         *)
(* A mail is a record: id (message_id_primary), refs (its reference chain: *)
(* References, or else the first In-Reply-To), date, subject               *)
(* (subject_norm, 0 for empty), reply (subject_raw starts with Re: or the  *)
(* like) and epoch (its repository).  The key of a node is <<id, 0>> for   *)
(* the message or dummy of an id, <<id, m>> for a further message m of it. *)
(***************************************************************************)
EXTENDS Sequences, SequencesExt, ThreadWindows

CONSTANTS Mailboxes,  \* what the list's mail may be: functions from messages.id to mails
          Slots,      \* jobs that run at a time, over all workers
          MaxRebuilds, MaxBreaks   \* bounds: rebuilds, executions that break off

ASSUME SlotsAssumption == Slots \in Nat \ {0} /\ {MaxRebuilds, MaxBreaks} \subseteq Nat

VARIABLES mail,        \* the list's mail, ingested or still to come
          seen,        \* seen[m]: the run whose ingest stage stored m, 0 for none
          threads,     \* threads with their thread_nodes and thread_messages
          nextId,      \* the sequence of threads.id
          task,        \* task[j]: the execution of job j
          rebuilds, breaks,   \* against their bounds
          overlapped,  \* history: both jobs ran at one time
          abandoned    \* history: a job ended in the middle of its windows

tables  == <<seen, threads, nextId>>
history == <<rebuilds, breaks, overlapped, abandoned>>
vars    == <<mail, tables, task, history>>

Jobs     == {"stage", "rebuild"}
Root     == <<0, 0>>      \* parent_node_key NULL
Messages == DOMAIN mail
Ingested == {m \in Messages : seen[m] > 0}
LatestRun == Max({seen[m] : m \in Messages})

\* The members of S in the order Before.
Ordered(S, Before(_, _)) ==
    [i \in 1..Cardinality(S) |-> CHOOSE x \in S : Cardinality({y \in S : Before(y, x)}) = i - 1]

Less(s, t) == \E i \in DOMAIN s : s[i] < t[i] /\ \A j \in 1..i - 1 : s[j] = t[j]

-----------------------------------------------------------------------------
(* build_threads *)

\* The order messages are taken in.
Earlier(m, n) ==
    Less(<<mail[m].date, mail[m].subject, m>>, <<mail[n].date, mail[n].subject, n>>)

\* The first message of an id has the id's node, the others get one of their own.
Key(S, m) ==
    IF \E n \in S : mail[n].id = mail[m].id /\ Earlier(n, m)
    THEN <<mail[m].id, m>>
    ELSE <<mail[m].id, 0>>

\* The nodes of the messages and of what they refer to.
Nodes(S) ==
    {Key(S, m) : m \in S} \cup UNION {{<<r, 0>> : r \in ToSet(mail[m].refs)} : m \in S}

\* The message at a node, if it is no dummy.
At(S, k) == {m \in S : Key(S, m) = k}
Mail(S, k) == mail[CHOOSE m \in At(S, k) : TRUE]

\* sort_tuple: a dummy has the first of all dates and no subject.
Tuple(S, k) ==
    IF At(S, k) = {} THEN <<0, 0>> \o k ELSE <<Mail(S, k).date, Mail(S, k).subject>> \o k

\* The steps of the reference chains, each a parent and a child, message by message.
Links(S) ==
    LET chain(m) == [i \in 1..Len(mail[m].refs) |-> <<mail[m].refs[i], 0>>] \o <<Key(S, m)>>
        steps(m) == [i \in 1..Len(mail[m].refs) |-> <<chain(m)[i], chain(m)[i + 1]>>]
        messages == Ordered(S, Earlier)
    IN  FlattenSeq([i \in 1..Len(messages) |-> steps(messages[i])])

\* What introduces_cycle meets on its way up from a node.
Above(parent, key) ==
    LET up[n \in 0..Cardinality(DOMAIN parent)] ==
          IF n = 0 THEN {key} ELSE up[n - 1] \cup {parent[k] : k \in up[n - 1] \ {Root}}
    IN  up[Cardinality(DOMAIN parent)] \ {Root}

\* Mutant of Attach: a node may go under what hangs below it.
AttachAnywhere(parent, link) ==
    IF parent[link[2]] = Root /\ link[1] # link[2]
    THEN [parent EXCEPT ![link[2]] = link[1]]
    ELSE parent

\* try_attach_parent: the first parent stays, and no cycle is closed.
Attach(parent, link) ==
    IF parent[link[2]] = Root /\ link[2] \notin Above(parent, link[1])
    THEN [parent EXCEPT ![link[2]] = link[1]]
    ELSE parent

\* apply_subject_fallback: a reply without a parent goes under a root of its subject, one
\* that is no reply if there is any.
Fallback(S, parent) ==
    LET before(k, l) == Less(Tuple(S, k), Tuple(S, l))
        better(k, l) == IF Mail(S, k).reply = Mail(S, l).reply THEN before(k, l)
                        ELSE Mail(S, l).reply
        roots == Ordered({k \in DOMAIN parent : parent[k] = Root /\ At(S, k) # {}}, before)
        candidates(p, k) ==
            {c \in ToSet(roots) \ {k} : p[c] = Root /\ Mail(S, c).subject = Mail(S, k).subject}
        adopt(p, k) ==
            IF Mail(S, k).reply /\ Mail(S, k).subject # 0 /\ candidates(p, k) # {}
            THEN Attach(p, <<Ordered(candidates(p, k), better)[1], k>>)
            ELSE p
    IN  FoldLeft(adopt, parent, roots)

Forest(S) == Fallback(S, FoldLeft(Attach, [k \in Nodes(S) |-> Root], Links(S)))

\* One component: its nodes with their parents, its messages, and what membership_hash is
\* made of: the ids of its messages in preorder.
Component(S, parent, root) ==
    LET before(k, l) == Less(Tuple(S, k), Tuple(S, l))
        walk[k \in DOMAIN parent] ==
            LET children == Ordered({c \in DOMAIN parent : parent[c] = k}, before)
            IN  <<k>> \o FlattenSeq([i \in 1..Len(children) |-> walk[children[i]]])
        real == SelectSeq(walk[root], LAMBDA k : At(S, k) # {})
    IN  [root    |-> root,
         hash    |-> [i \in 1..Len(real) |-> real[i][1]],
         nodes   |-> {<<k, parent[k]>> : k \in ToSet(walk[root])},
         members |-> UNION {At(S, k) : k \in ToSet(real)}]

\* build_threads: one component per root; one that is all dummies is left out.
BuildThreads(S) ==
    LET parent == Forest(S)
        roots  == {k \in DOMAIN parent : parent[k] = Root}
    IN  {c \in {Component(S, parent, r) : r \in roots} : c.members # {}}

-----------------------------------------------------------------------------
(* ThreadingStore *)

\* resolve_message_ids: of several messages of an id, the oldest row.
Resolve(id) ==
    {m \in Ingested : mail[m].id = id /\ \A n \in Ingested : mail[n].id = id => m =< n}

\* expand_ancestor_closure.
Closure(S) ==
    LET up[n \in 0..Cardinality(Messages)] ==
          IF n = 0 THEN S
          ELSE up[n - 1] \cup UNION {Resolve(r) : r \in UNION {ToSet(mail[m].refs) : m \in up[n - 1]}}
    IN  up[Cardinality(Messages)]

\* find_impacted_thread_ids, list_message_pks_for_threads.
Impacted(S)    == {t.id : t \in {u \in threads : u.members \cap S # {}}}
MembersOf(ids) == UNION {t.members : t \in {u \in threads : u.id \in ids}}

\* Mutant of Holder: a component that changed gets a row of its own.
HolderNone(c) == {}

\* ON CONFLICT (mailing_list_id, root_node_key): the thread that keeps its id.
Holder(c) == {t \in threads : t.root = c.root}

\* A thread of the same root and membership_hash is left as it is.
Unchanged(c) == {t \in threads : t.root = c.root /\ t.hash = c.hash}

\* Mutant of Stale: no thread is ever deleted.
StaleNever(previous, retained) == {}

\* The previous threads that the new components did not keep are deleted.
Stale(previous, retained) == previous \ {t.id : t \in retained}

\* apply_components, one transaction.
ApplyComponents(previous, components) ==
    LET rewrite   == {c \in components : Unchanged(c) = {}}
        new       == Ordered({c.root : c \in {d \in rewrite : Holder(d) = {}}}, Less)
        idOf(c)   == IF Holder(c) # {} THEN (CHOOSE t \in Holder(c) : TRUE).id
                     ELSE nextId + (CHOOSE i \in 1..Len(new) : new[i] = c.root) - 1
        written   == {[id |-> idOf(c), root |-> c.root, hash |-> c.hash,
                       nodes |-> c.nodes, members |-> c.members] : c \in rewrite}
        stale     == Stale(previous, written \cup UNION {Unchanged(c) : c \in components})
    IN  /\ threads' = written \cup
             {t \in threads : t.id \notin stale /\ \A w \in written : w.id # t.id}
        /\ nextId' = nextId + Len(new)

-----------------------------------------------------------------------------
(* The two jobs *)

Idle == [pc |-> "idle"]
Busy(j) == task[j].pc # "idle"
MayStart(j) == ~Busy(j) /\ Cardinality({i \in Jobs : Busy(i)}) < Slots

\* Execution of job j for the messages that the runs lo to hi saw, by seen_at: its windows, in order of
\* their epochs.
Begin(j, lo, hi, saw) ==
    LET touched == {mail[m].epoch : m \in {n \in Messages : saw[n] \in lo..hi}}
        others  == {i \in Jobs \ {j} : Busy(i)}
    IN  /\ task' = [i \in Jobs |->
             IF i = j THEN [pc |-> "window", lo |-> lo, hi |-> hi, left |-> WindowsOf(touched),
                            windows |-> Cardinality(WindowsOf(touched)), alone |-> others = {},
                            impacted |-> {}, built |-> {}]
             ELSE IF i \in others THEN [task[i] EXCEPT !.alone = FALSE]
             ELSE task[i]]
        /\ overlapped' = (overlapped \/ others # {})

\* The ingest stage of a run stores new messages; its threading stage starts.
StartStage ==
    /\ MayStart("stage")
    /\ \E S \in SUBSET {m \in Messages : seen[m] = 0} \ {{}} :
          LET now == [m \in Messages |-> IF m \in S THEN LatestRun + 1 ELSE seen[m]]
          IN  seen' = now /\ Begin("stage", LatestRun + 1, LatestRun + 1, now)
    /\ UNCHANGED <<mail, threads, nextId, rebuilds, breaks, abandoned>>

\* A rebuild of what the runs lo to hi saw, if no run of the list is active.
StartRebuild ==
    /\ MayStart("rebuild") /\ ~Busy("stage")
    /\ rebuilds < MaxRebuilds /\ rebuilds' = rebuilds + 1
    /\ UNCHANGED <<mail, tables, breaks, abandoned>>
    /\ \E lo, hi \in 1..LatestRun : lo =< hi /\ Begin("rebuild", lo, hi, seen)

\* Mutant of Anchors: the window's last epoch is left to the next window.
AnchorsFirstEpoch(j, w) ==
    {m \in Messages : seen[m] \in task[j].lo..task[j].hi /\ mail[m].epoch \in w
                      /\ \A e \in w : mail[m].epoch =< e}

\* The messages of a window.
Anchors(j, w) == {m \in Messages : seen[m] \in task[j].lo..task[j].hi /\ mail[m].epoch \in w}

\* The next window: its messages with their ancestors, and the threads these are in.
FindThreads(j) ==
    /\ task[j].pc = "window"
    /\ \E w \in FirstWindows(task[j].left) :
          LET S == Closure(Anchors(j, w)) IN
          task' = [task EXCEPT ![j].left = @ \ {w},
                               ![j].pc = IF S = {} THEN "window" ELSE "build",
                               ![j].impacted = Impacted(S),
                               ![j].built = S]
    /\ UNCHANGED <<mail, tables, history>>

\* Mutant of LoadAndBuild: the threads' other members are left out.
LoadNoMembers(j) ==
    /\ task[j].pc = "build"
    /\ task' = [task EXCEPT ![j].pc = "apply", ![j].built = BuildThreads(@)]
    /\ UNCHANGED <<mail, tables, history>>

\* The members of those threads, again with their ancestors, and the forest of them all.
LoadAndBuild(j) ==
    /\ task[j].pc = "build"
    /\ task' = [task EXCEPT
          ![j].pc = "apply",
          ![j].built = BuildThreads(Closure(@ \cup MembersOf(task[j].impacted)))]
    /\ UNCHANGED <<mail, tables, history>>

Apply(j) ==
    /\ task[j].pc = "apply"
    /\ ApplyComponents(task[j].impacted, task[j].built)
    /\ task' = [task EXCEPT ![j].pc = "window", ![j].impacted = {}, ![j].built = {}]
    /\ UNCHANGED <<mail, seen, history>>

Finish(j) ==
    /\ task[j].pc = "window" /\ task[j].left = {}
    /\ task' = [task EXCEPT ![j] = Idle]
    /\ UNCHANGED <<mail, tables, history>>

Break == breaks < MaxBreaks /\ breaks' = breaks + 1

\* An error, a dead worker or a cancel.  The stage is run again from its first window, or
\* its run ends; a rebuild that is run again is a rebuild like another.
BreakOffStage ==
    /\ Break /\ Busy("stage")
    /\ \/ Begin("stage", task["stage"].lo, task["stage"].hi, seen) /\ UNCHANGED abandoned
       \/ /\ task' = [task EXCEPT !["stage"] = Idle]
          /\ abandoned' = TRUE /\ UNCHANGED overlapped
    /\ UNCHANGED <<mail, tables, rebuilds>>

BreakOffRebuild ==
    /\ Break /\ Busy("rebuild")
    /\ task' = [task EXCEPT !["rebuild"] = Idle]
    /\ rebuilds' = rebuilds - 1
    /\ UNCHANGED <<mail, tables, overlapped, abandoned>>

Init ==
    /\ mail \in Mailboxes
    /\ seen = [m \in Messages |-> 0]
    /\ threads = {} /\ nextId = 1
    /\ task = [j \in Jobs |-> Idle]
    /\ rebuilds = 0 /\ breaks = 0 /\ overlapped = FALSE /\ abandoned = FALSE

Step(j) == FindThreads(j) \/ LoadAndBuild(j) \/ Apply(j) \/ Finish(j)

Next == StartStage \/ StartRebuild \/ BreakOffStage \/ BreakOffRebuild \/ \E j \in Jobs : Step(j)

Spec == Init /\ [][Next]_vars

-----------------------------------------------------------------------------
(* Properties *)

Placed == UNION {t.members : t \in threads}
Rows   == {[root |-> t.root, hash |-> t.hash, nodes |-> t.nodes, members |-> t.members] : t \in threads}
Quiet  == \A j \in Jobs : ~Busy(j)

\* What a mailbox may be like.
Answered(m, n) == mail[n].id \in ToSet(mail[m].refs)
DistinctIds    == \A m, n \in Messages : mail[m].id = mail[n].id => m = n
ClocksAgree    == \A m, n \in Messages : Answered(m, n) => mail[n].date < mail[m].date
NoFallback     == \A m \in Messages : ~mail[m].reply \/ mail[m].subject = 0
Whole          == \A m \in Ingested : \A r \in ToSet(mail[m].refs) : Resolve(r) # {}

\* Everything a message refers to was there when it was threaded.
ParentsFirst ==
    \A m \in Ingested : \A r \in ToSet(mail[m].refs) :
       \E n \in Messages : mail[n].id = r /\ seen[n] \in 1..seen[m]

Orderly == ~overlapped /\ ParentsFirst /\ ClocksAgree /\ DistinctIds

\* The tables have one row per id and per root, and the rows that a thread needs: its
\* messages are messages of the list, its nodes are the root's and those of others below them.
TypeOK ==
    /\ seen \in [Messages -> Nat] /\ nextId \in Nat
    /\ \A j \in Jobs : task[j].pc \in {"idle", "window", "build", "apply"}
    /\ \A t, u \in threads : t.id = u.id \/ t.root = u.root => t = u
    /\ \A t \in threads :
          /\ t.id \in 1..nextId - 1 /\ t.members # {} /\ t.members \subseteq Ingested
          /\ <<t.root, Root>> \in t.nodes
          /\ \A n \in t.nodes : n[1] # t.root => \E p \in t.nodes : n[2] = p[1]

\* Threading what is new window by window and run by run gives the threads that
\* build_threads makes of all the mail at once (handle_pipeline_threading,
\* apply_threading_for_anchors), if parents come first and nothing hangs on its subject.
SameAsBatch ==
    Quiet /\ ~abandoned /\ Orderly /\ NoFallback => Rows = BuildThreads(Ingested)

\* Every message that the stage was through with is in one thread: none is displaced by later
\* mail, left out by the windows, lost by a retry, or closed into a cycle of references, and
\* none gets into two, which the primary key of thread_messages would allow.
EveryoneInOneThread ==
    Orderly => /\ \A t, u \in threads : t # u => t.members \cap u.members = {}
               /\ Quiet /\ ~abandoned => Placed = Ingested

\* A rebuild of the whole list repairs what late parents, duplicates, abandoned runs and
\* overlapping jobs did to the threads: handle_threading_rebuild_list leaves what
\* build_threads makes of all the mail, if nobody was at the tables meanwhile and it was one
\* window, or none of its windows lacks what another one has.
RebuildRestores ==
    [][LET t == task["rebuild"] IN
       Busy("rebuild") /\ Finish("rebuild") /\ t.alone /\ t.lo = 1 /\ t.hi = LatestRun
         /\ ClocksAgree /\ (t.windows = 1 \/ (Whole /\ DistinctIds /\ NoFallback))
       => Rows = BuildThreads(Ingested)]_vars

\* "impacted existing thread members are loaded from DB before rebuilding components"
\* (pipeline/threading.rs): a message that is in a thread stays in one.
ThreadedStaysThreaded ==
    [][~overlapped' /\ ClocksAgree /\ DistinctIds => Placed \subseteq Placed']_vars
=============================================================================
