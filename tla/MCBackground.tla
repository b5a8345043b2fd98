---------------------------- MODULE MCBackground ----------------------------
(* Instances of Background for TLC. *)
EXTENDS Background

\* Slots, start requests, faults and cancel requests.
Tried(k, s, n, f, c) == [kind |-> k, slots |-> s, starts |-> n, faults |-> f, cancels |-> c]
\* One slot with a fault and a cancel request, two faults, a second run after the
\* first, and two runs at once.
AllSetups == {Tried("mainline", 1, 1, 1, 1), Tried("mainline", 1, 1, 2, 0),
              Tried("mainline", 1, 2, 0, 0), Tried("mainline", 2, 2, 0, 0),
              Tried("meili", 1, 1, 1, 0), Tried("meili", 1, 1, 0, 1),
              Tried("backfill", 1, 1, 1, 0), Tried("backfill", 1, 1, 0, 1)}

\* A series of two versions, the second of two patches, and one of a patch that
\* has the diff of another.
SomePatches == <<[msg |-> 1, pid |-> 1, subject |-> 1], [msg |-> 2, pid |-> 2, subject |-> 1],
                 [msg |-> 3, pid |-> 3, subject |-> 2], [msg |-> 4, pid |-> 1, subject |-> 3]>>
SomeVersions == <<<<{1}, {2, 3}>>, <<{4}>>>>

Made(parents, time, links, pid, subject) ==
  [parents |-> parents, time |-> time, links |-> links, pid |-> pid, subject |-> subject]
At(head, tags) == [head |-> head, tags |-> tags]

\* Two commits, and a branch of the first that is merged after they were scanned.
Branches ==
  [commits |-> <<Made({}, 1, {}, 2, 1), Made({1}, 3, {1, 4}, 1, 1),
                 Made({1}, 2, {3}, 1, 1), Made({2, 3}, 5, {}, 0, 0)>>,
   steps |-> <<At(2, {<<1, 1>>}), At(4, {<<1, 1>>, <<2, 4>>})>>]

\* A scan of two chunks.
Chain ==
  [commits |-> <<Made({}, 1, {}, 2, 1), Made({1}, 2, {1, 4}, 1, 1), Made({2}, 3, {}, 1, 3)>>,
   steps |-> <<At(3, {<<1, 1>>})>>]

\* A child whose date is its parent's and whose object id is lower.
SameDate ==
  [commits |-> <<Made({}, 1, {}, 2, 1), Made({3}, 2, {}, 1, 1), Made({1}, 2, {3}, 0, 2)>>,
   steps |-> <<At(2, {})>>]

SomeHistories == {Branches, Chain, SameDate}
=============================================================================
