--------------------------- MODULE LineageProofs ---------------------------
(* What holds of patch lineage for every mail: its types, that an author has *)
(* one series of a subject, that the latest version of a series is its       *)
(* newest, and that views are complete.                                      *)
EXTENDS Lineage, OrderFacts, SequenceTheorems

-----------------------------------------------------------------------------
(* Sequences, least and first members. *)

IsSeq(s) == s \in Seq({s[i] : i \in DOMAIN s})

LEMMA SeqIs ==
  ASSUME NEW s, IsSeq(s)
  PROVE  Len(s) \in Nat /\ DOMAIN s = 1..Len(s)
<1> DEFINE S == {s[i] : i \in DOMAIN s}
<1>1. s \in Seq(S)
  BY DEF IsSeq
<1> HIDE DEF S
<1> QED
  BY <1>1, LenProperties

LEMMA AppendIs ==
  ASSUME NEW s, IsSeq(s), NEW e
  PROVE  /\ IsSeq(Append(s, e)) /\ Len(Append(s, e)) = Len(s) + 1
         /\ DOMAIN Append(s, e) = DOMAIN s \cup {Len(s) + 1}
         /\ Append(s, e)[Len(s) + 1] = e /\ Len(s) + 1 \notin DOMAIN s
         /\ \A i \in DOMAIN s : Append(s, e)[i] = s[i]
<1> DEFINE S == {s[i] : i \in DOMAIN s}
           T == S \cup {e}
           t == Append(s, e)
<1>1. s \in Seq(T)
  <2>1. s \in Seq(S) /\ S \subseteq T
    BY DEF IsSeq
  <2> HIDE DEF S, T
  <2> QED
    BY <2>1, SeqMonotonic
<1>2. Len(s) \in Nat /\ DOMAIN s = 1..Len(s)
  BY SeqIs
<1>3. t \in Seq(T) /\ Len(t) = Len(s) + 1 /\ t[Len(s) + 1] = e
      /\ \A i \in 1..Len(s) : t[i] = s[i]
  <2>1. e \in T
    OBVIOUS
  <2> HIDE DEF S, T, t
  <2> QED
    BY <1>1, <1>2, <2>1, AppendProperties DEF t
<1>4. DOMAIN t = 1..Len(s) + 1
  <2> HIDE DEF T, t
  <2> QED
    BY <1>3, LenProperties
<1>5. IsSeq(t)
  <2> DEFINE U == {t[i] : i \in DOMAIN t}
  <2>1. t \in [1..Len(t) -> T]
    <3> HIDE DEF T, t
    <3> QED
      BY <1>3, LenProperties
  <2> HIDE DEF T, t
  <2>2. t \in [1..Len(t) -> U] /\ Len(t) \in Nat
    BY <1>2, <1>3, <2>1
  <2>3. t \in Seq(U)
    <3> HIDE DEF U
    <3> QED
      BY <2>2
  <2> QED
    BY <2>3 DEF IsSeq
<1> HIDE DEF t
<1> QED
  BY <1>2, <1>3, <1>4, <1>5 DEF t

LEMMA ExceptIs ==
  ASSUME NEW s, IsSeq(s), NEW i \in DOMAIN s, NEW e
  PROVE  IsSeq([s EXCEPT ![i] = e]) /\ Len([s EXCEPT ![i] = e]) = Len(s)
<1> DEFINE t == [s EXCEPT ![i] = e]
           U == {t[j] : j \in DOMAIN t}
           S == {s[j] : j \in DOMAIN s}
<1>1. Len(s) \in Nat /\ DOMAIN s = 1..Len(s)
  BY SeqIs
<1>2. s \in [1..Len(s) -> S]
  <2>1. s \in Seq(S)
    BY DEF IsSeq
  <2> HIDE DEF S
  <2> QED
    BY <2>1, LenProperties
<1>3. t \in [1..Len(s) -> U]
  <2> HIDE DEF S
  <2> QED
    BY <1>1, <1>2
<1>4. t \in Seq(U)
  <2> HIDE DEF U, t
  <2> QED
    BY <1>1, <1>3
<1>5. DOMAIN t = 1..Len(s)
  BY <1>1
<1> HIDE DEF t
<1>6. IsSeq(t)
  BY <1>4 DEF IsSeq, U
<1>7. Len(t) = Len(s)
  <2> HIDE DEF U
  <2> QED
    BY <1>1, <1>4, <1>5, LenProperties
<1> QED
  BY <1>6, <1>7 DEF t

LEMMA TailIs ==
  ASSUME NEW s, NEW S, s \in Seq(S), s # <<>>
  PROVE  /\ Head(s) \in S /\ Head(s) = s[1] /\ 1 \in DOMAIN s
         /\ Tail(s) \in Seq(S) /\ Len(Tail(s)) = Len(s) - 1
         /\ Len(s) # 1 => Tail(s) # <<>>
         /\ \A i \in DOMAIN Tail(s) : i + 1 \in DOMAIN s /\ Tail(s)[i] = s[i + 1]
<1>1. Len(s) \in Nat /\ Len(s) # 0 /\ DOMAIN s = 1..Len(s)
  BY LenProperties, EmptySeq
<1>2. /\ Head(s) \in S /\ Tail(s) \in Seq(S) /\ Len(Tail(s)) = Len(s) - 1
      /\ \A i \in 1..Len(Tail(s)) : Tail(s)[i] = s[i + 1]
  BY HeadTailProperties
<1>3. DOMAIN Tail(s) = 1..Len(s) - 1
  BY <1>2, LenProperties
<1>4. Head(s) = s[1]
  BY <1>1
<1>5. Len(s) # 1 => Tail(s) # <<>>
  <2> SUFFICES ASSUME Tail(s) = <<>> PROVE Len(s) = 1
    OBVIOUS
  <2>1. DOMAIN Tail(s) = {}
    OBVIOUS
  <2>2. ~(1 =< Len(s) - 1)
    BY <1>1, <1>3, <2>1
  <2> QED
    BY <1>1, <2>2
<1> QED
  BY <1>1, <1>2, <1>3, <1>4, <1>5

LEMMA MinIn ==
  ASSUME NEW S \in SUBSET Nat, S # {}
  PROVE  Min(S) \in S /\ \A x \in S : Min(S) =< x
<1>1. PICK m \in S : \A x \in S : m =< x
  BY LeastOf
<1> QED
  BY <1>1 DEF Min

LEMMA MaxIn ==
  ASSUME NEW S \in SUBSET Nat, IsFiniteSet(S), S # {}
  PROVE  Max(S) \in S /\ \A x \in S : x =< Max(S)
<1>1. \E m \in S : \A x \in S : m >= x
  BY GreatestOf
<1>2. Max(S) \in S /\ \A x \in S : Max(S) >= x
  BY <1>1 DEF Max
<1> QED
  BY <1>2

-----------------------------------------------------------------------------
(* Candidates. *)

ItemFields == {"mail", "title", "patch", "total"}

\* A candidate has patches, of mail of A.
CandidateOf(A, c) ==
  /\ c.version \in Nat /\ c.sent \in Nat /\ c.thread \in Nat
  /\ \E m \in A : c.sent = Mail[m].sent
  /\ DOMAIN c.items \subseteq Nat /\ IsFiniteSet(DOMAIN c.items) /\ Patches(c) # {}
  /\ c.items = [o \in DOMAIN c.items |-> c.items[o]]
  /\ \A o \in DOMAIN c.items :
       DOMAIN c.items[o] = ItemFields /\ c.items[o].mail \in A /\ c.items[o].total \in Nat

Sources(threads) == {m \in arrived : Mail[m].thread \in threads /\ Mail[m].kind # "other"}
Member(threads, g) == {m \in Sources(threads) : Group(m) = g}
Made(threads) == {Candidate(g, Member(threads, g)) : g \in {Group(m) : m \in Sources(threads)}}

LEMMA MailType ==
  ASSUME arrived \subseteq DOMAIN Mail
  PROVE  /\ DOMAIN Mail \in SUBSET Nat /\ IsFiniteSet(DOMAIN Mail)
         /\ arrived \in SUBSET Nat /\ IsFiniteSet(arrived)
         /\ \A m \in DOMAIN Mail : Mail[m] \in Letters
<1>1. DOMAIN Mail = 1..Len(Mail) /\ Len(Mail) \in Nat /\ \A m \in DOMAIN Mail : Mail[m] \in Letters
  BY MailAssumption, LenProperties
<1>2. IsFiniteSet(1..Len(Mail))
  BY <1>1, FS_Interval
<1>3. IsFiniteSet(arrived)
  BY <1>1, <1>2, FS_Subset
<1> QED
  BY <1>1, <1>2, <1>3

LEMMA VersionType ==
  ASSUME arrived \subseteq DOMAIN Mail, NEW m \in arrived
  PROVE  Version(m) \in Nat
<1> DEFINE refs  == Mail[m].refs
           named == {i \in DOMAIN refs : refs[i] \in In(Mail[m].thread) /\ Mail[refs[i]].explicit}
<1>1. Mail[m] \in Letters /\ refs \in Seq(Nat)
  BY MailType DEF Letters
<1>2. CASE named = {}
  <2>1. Version(m) = Mail[m].version
    BY <1>2 DEF Version
  <2> QED
    BY <1>1, <2>1 DEF Letters
<1>3. CASE named # {}
  <2>1. named \in SUBSET Nat
    BY <1>1, LenProperties
  <2>2. Min(named) \in named
    <3> HIDE DEF named
    <3> QED
      BY <1>3, <2>1, MinIn
  <2>3. refs[Min(named)] \in arrived
    BY <2>2 DEF In
  <2>4. Mail[refs[Min(named)]].version \in Nat /\ Mail[m].version \in Nat
    BY <2>3, <1>1, MailType DEF Letters
  <2>5. Version(m) \in {Mail[m].version, Mail[refs[Min(named)]].version}
    BY DEF Version
  <2> QED
    BY <2>4, <2>5
<1> QED
  BY <1>2, <1>3

LEMMA CandidateIs ==
  ASSUME arrived \subseteq DOMAIN Mail, NEW threads, NEW n \in Sources(threads)
  PROVE  LET c == Candidate(Group(n), Member(threads, Group(n))) IN
           /\ CandidateOf(arrived, c) \/ Patches(c) = {}
           /\ c.version \in Nat /\ c.sent \in Nat /\ c.thread \in Nat
           /\ DOMAIN c.items # {}
           /\ \A o \in DOMAIN c.items : c.items[o].mail \in Member(threads, Group(n))
<1> DEFINE G        == Member(threads, Group(n))
           c        == Candidate(Group(n), G)
           ordinals == {Mail[m].ordinal : m \in G}
           having(o) == {m \in G : Mail[m].ordinal = o}
           best(o)  == Min(having(o))
<1>1. G \in SUBSET arrived /\ n \in G /\ arrived \in SUBSET Nat /\ IsFiniteSet(G)
      /\ \A m \in G : Mail[m] \in Letters
  <2>1. G \in SUBSET arrived /\ n \in G
    BY DEF Member, Sources
  <2> QED
    BY <2>1, MailType, FS_Subset
<1>2. ordinals \in SUBSET Nat /\ ordinals # {} /\ IsFiniteSet(ordinals)
  <2>1. ordinals \in SUBSET Nat /\ ordinals # {}
    BY <1>1 DEF Letters
  <2> DEFINE f == [m \in G |-> Mail[m].ordinal]
  <2>2. f \in [G -> Nat]
    BY <1>1 DEF Letters
  <2>3. IsFiniteSet({f[x] : x \in G})
    <3> HIDE DEF f, G
    <3> QED
      BY <1>1, <2>2, ImageFinite
  <2>4. ordinals = {f[x] : x \in G}
    OBVIOUS
  <2> QED
    BY <2>1, <2>3, <2>4
<1>3. ASSUME NEW o \in ordinals PROVE best(o) \in G
  <2>1. having(o) \in SUBSET Nat /\ having(o) # {}
    BY <1>1
  <2>2. Min(having(o)) \in having(o)
    <3> HIDE DEF having
    <3> QED
      BY <2>1, MinIn
  <2> QED
    BY <2>2
<1>4. ASSUME NEW o \in ordinals
      PROVE  Mail[best(o)].total \in Nat /\ Max({Mail[best(o)].total} \cup ordinals) \in Nat
  <2>1. Mail[best(o)].total \in Nat
    BY <1>1, <1>3 DEF Letters
  <2> DEFINE T == {Mail[best(o)].total} \cup ordinals
  <2>2. T \in SUBSET Nat /\ T # {} /\ IsFiniteSet(T)
    <3> HIDE DEF ordinals, best
    <3> QED
      BY <1>2, <2>1, FS_Singleton, FS_Union
  <2>3. Max(T) \in Nat
    <3> HIDE DEF T
    <3> QED
      BY <2>2, MaxIn
  <2> QED
    BY <2>1, <2>3
<1>5. \E m \in G : Min({Mail[x].sent : x \in G}) = Mail[m].sent /\ Mail[m].sent \in Nat
  <2> DEFINE T == {Mail[x].sent : x \in G}
  <2>1. T \in SUBSET Nat /\ T # {}
    BY <1>1 DEF Letters
  <2>2. Min(T) \in T
    <3> HIDE DEF T
    <3> QED
      BY <2>1, MinIn
  <2> QED
    BY <2>1, <2>2
<1>6. /\ c.thread = Mail[n].thread /\ c.version = Version(n)
      /\ c.sent = Min({Mail[x].sent : x \in G})
      /\ DOMAIN c.items = ordinals
      /\ c.items = [o \in DOMAIN c.items |-> c.items[o]]
  <2> HIDE DEF G
  <2> QED
    BY DEF Candidate, Group
<1>7. ASSUME NEW o \in ordinals
      PROVE  /\ DOMAIN c.items[o] = ItemFields /\ c.items[o].mail = best(o)
             /\ c.items[o].total \in {Mail[best(o)].total, Max({Mail[best(o)].total} \cup ordinals)}
  <2> HIDE DEF G
  <2> QED
    BY DEF Candidate, ItemFields
<1>8. c.thread \in Nat /\ c.version \in Nat /\ c.sent \in Nat
      /\ \E m \in arrived : c.sent = Mail[m].sent
  <2>1. Version(n) \in Nat
    BY <1>1, VersionType
  <2>2. Mail[n].thread \in Nat
    BY <1>1 DEF Letters
  <2> HIDE DEF G, c
  <2> QED
    BY <1>1, <1>5, <1>6, <2>1, <2>2
<1>9. \A o \in DOMAIN c.items :
        /\ DOMAIN c.items[o] = ItemFields /\ c.items[o].mail \in G /\ c.items[o].total \in Nat
  <2> HIDE DEF G, c, ordinals, best
  <2> QED
    BY <1>3, <1>4, <1>6, <1>7
<1> HIDE DEF G, c, ordinals, best
<1> QED
  BY <1>1, <1>2, <1>6, <1>8, <1>9 DEF CandidateOf, c, G

LEMMA TupleOrder ==
  ASSUME NEW a, NEW b, NEW c, NEW d, NEW e, NEW f, NEW g, NEW h
  PROVE  Precedes(<<a, b, c, d>>, <<e, f, g, h>>)
           <=> \/ a < e
               \/ a = e /\ b < f
               \/ a = e /\ b = f /\ c < g
               \/ a = e /\ b = f /\ c = g /\ d < h
<1> DEFINE x == <<a, b, c, d>>
           y == <<e, f, g, h>>
           P(i) == x[i] < y[i] /\ \A j \in 1..(i - 1) : x[j] = y[j]
<1>1. DOMAIN x = {1, 2, 3, 4}
  OBVIOUS
<1>2. 1..(1 - 1) = {} /\ 1..(2 - 1) = {1} /\ 1..(3 - 1) = {1, 2} /\ 1..(4 - 1) = {1, 2, 3}
  OBVIOUS
<1>3. Precedes(x, y) <=> P(1) \/ P(2) \/ P(3) \/ P(4)
  BY <1>1 DEF Precedes
<1>4. /\ P(1) <=> a < e
      /\ P(2) <=> b < f /\ a = e
      /\ P(3) <=> c < g /\ a = e /\ b = f
      /\ P(4) <=> d < h /\ a = e /\ b = f /\ c = g
  BY <1>2
<1> QED
  BY <1>3, <1>4

\* The candidates of a pass come by date.
LEMMA CandidatesAre ==
  ASSUME arrived \subseteq DOMAIN Mail, NEW threads
  PROVE  LET todo == Candidates(threads) IN
           /\ \A i \in DOMAIN todo : CandidateOf(arrived, todo[i])
           /\ todo \in Seq({todo[i] : i \in DOMAIN todo})
           /\ \A i, j \in DOMAIN todo : i < j => todo[i].sent =< todo[j].sent
<1> DEFINE C == {c \in Made(threads) : Patches(c) # {}}
           R == {p \in C \X C : Precedes(Rank(p[1]), Rank(p[2]))}
           todo == Candidates(threads)
           N == Cardinality(C)
<1>1. ASSUME NEW c \in C
      PROVE  \E n \in Sources(threads) :
               /\ c = Candidate(Group(n), Member(threads, Group(n)))
               /\ FirstMail(c) \in Member(threads, Group(n))
               /\ CandidateOf(arrived, c)
  <2>1. PICK n \in Sources(threads) : c = Candidate(Group(n), Member(threads, Group(n)))
    BY DEF Made
  <2>2. /\ CandidateOf(arrived, c) /\ DOMAIN c.items # {}
        /\ \A o \in DOMAIN c.items : c.items[o].mail \in Member(threads, Group(n))
    <3>1. Patches(c) # {}
      OBVIOUS
    <3> QED
      BY <2>1, <3>1, CandidateIs
  <2>3. FirstMail(c) \in Member(threads, Group(n))
    <3> DEFINE M == {c.items[o].mail : o \in DOMAIN c.items}
    <3>1. M \in SUBSET Nat /\ M # {}
      <4>1. \A o \in DOMAIN c.items : c.items[o].mail \in Nat
        BY <2>2, MailType DEF Member, Sources
      <4> QED
        BY <2>2, <4>1
    <3>2. Min(M) \in M
      <4> HIDE DEF M
      <4> QED
        BY <3>1, MinIn
    <3> QED
      BY <2>2, <3>2 DEF FirstMail
  <2> QED
    BY <2>1, <2>2, <2>3
<1>2. ASSUME NEW c \in C
      PROVE  CandidateOf(arrived, c) /\ c.sent \in Nat /\ c.thread \in Nat /\ c.version \in Nat /\ FirstMail(c) \in Nat
  BY <1>1, MailType DEF CandidateOf, Member, Sources
<1>3. ASSUME NEW c \in C, NEW d \in C, FirstMail(c) = FirstMail(d) PROVE c = d
  <2>1. PICK n \in Sources(threads) :
          /\ c = Candidate(Group(n), Member(threads, Group(n)))
          /\ FirstMail(c) \in Member(threads, Group(n))
    BY <1>1
  <2>2. PICK m \in Sources(threads) :
          /\ d = Candidate(Group(m), Member(threads, Group(m)))
          /\ FirstMail(d) \in Member(threads, Group(m))
    BY <1>1
  <2>3. Group(n) = Group(m)
    BY <1>3, <2>1, <2>2 DEF Member
  <2> QED
    BY <2>1, <2>2, <2>3
<1>4. ASSUME NEW c \in C, NEW d \in C
      PROVE  <<c, d>> \in R <=>
               \/ c.sent < d.sent
               \/ c.sent = d.sent /\ c.thread < d.thread
               \/ c.sent = d.sent /\ c.thread = d.thread /\ c.version < d.version
               \/ c.sent = d.sent /\ c.thread = d.thread /\ c.version = d.version /\ FirstMail(c) < FirstMail(d)
  <2>1. <<c, d>> \in R <=> Precedes(Rank(c), Rank(d))
    OBVIOUS
  <2> QED
    BY <2>1, TupleOrder DEF Rank
<1>5. StrictOrder(R, C)
  <2> HIDE DEF C, R
  <2>1. \A c \in C : <<c, c>> \notin R
    BY <1>2, <1>4
  <2>2. \A c, d \in C : c # d => <<c, d>> \in R \/ <<d, c>> \in R
    BY <1>2, <1>3, <1>4
  <2>3. ASSUME NEW x \in C, NEW y \in C, NEW z \in C, <<x, y>> \in R, <<y, z>> \in R
        PROVE  <<x, z>> \in R
    BY <1>2, <1>4, <2>3
  <2> QED
    BY <2>1, <2>2, <2>3 DEF StrictOrder
<1>6. IsFiniteSet(C)
  <2> DEFINE S == Sources(threads)
             f == [m \in S |-> Candidate(Group(m), Member(threads, Group(m)))]
  <2>1. IsFiniteSet(S)
    BY MailType, FS_Subset DEF Sources
  <2>2. Made(threads) = {f[m] : m \in S}
    BY DEF Made
  <2>3. \E T : f \in [S -> T]
    <3>1. f \in [S -> {f[m] : m \in S}]
      OBVIOUS
    <3> HIDE DEF f, S
    <3> QED
      BY <3>1
  <2>4. IsFiniteSet({f[m] : m \in S})
    <3> HIDE DEF S, f
    <3> QED
      BY <2>1, <2>3, ImageFinite
  <2> QED
    BY <2>2, <2>4, FS_Subset
<1>7. N \in Nat
  BY <1>6, FS_CardinalityType
<1>8. todo = [i \in 1..N |-> CHOOSE x \in C : Cardinality({y \in C : Precedes(Rank(y), Rank(x))}) = i - 1]
  BY DEF Candidates, Sorted, Made, Member, Sources
<1>9. ASSUME NEW i \in 1..N PROVE todo[i] \in C /\ Cardinality(Before(R, C, todo[i])) = i - 1
  <2>1. PICK c \in C : Cardinality(Before(R, C, c)) = i - 1
    <3> HIDE DEF R, C
    <3> QED
      BY <1>5, <1>6, Ranked
  <2>2. ASSUME NEW x \in C PROVE Before(R, C, x) = {y \in C : Precedes(Rank(y), Rank(x))}
    BY DEF Before
  <2>3. todo[i] = CHOOSE x \in C : Cardinality({y \in C : Precedes(Rank(y), Rank(x))}) = i - 1
    <3> HIDE DEF todo, C
    <3> QED
      BY <1>8
  <2> HIDE DEF todo, C, R
  <2> QED
    BY <2>1, <2>2, <2>3
<1>10. DOMAIN todo = 1..N
  <2> HIDE DEF todo, C
  <2> QED
    BY <1>8
<1>11. ASSUME NEW i \in 1..N, NEW j \in 1..N, i < j PROVE todo[i].sent =< todo[j].sent
  <2> SUFFICES ASSUME todo[j].sent < todo[i].sent PROVE FALSE
    <3>1. todo[i].sent \in Nat /\ todo[j].sent \in Nat
      <4> HIDE DEF todo, C
      <4> QED
        BY <1>2, <1>9
    <3> HIDE DEF todo
    <3> QED
      BY <3>1
  <2> HIDE DEF todo, C
  <2>1. <<todo[j], todo[i]>> \in R
    BY <1>4, <1>9
  <2>2. Cardinality(Before(R, C, todo[j])) < Cardinality(Before(R, C, todo[i]))
    <3> HIDE DEF R
    <3> QED
      BY <1>5, <1>6, <1>9, <2>1, RankGrows
  <2> HIDE DEF R
  <2>3. Cardinality(Before(R, C, todo[j])) = j - 1 /\ Cardinality(Before(R, C, todo[i])) = i - 1
    BY <1>9
  <2> QED
    BY <1>11, <2>2, <2>3
<1>12. todo \in Seq({todo[i] : i \in DOMAIN todo})
  <2> DEFINE U == {todo[i] : i \in DOMAIN todo}
  <2>1. todo \in [1..N -> U]
    <3>1. todo = [i \in 1..N |-> todo[i]]
      <4> HIDE DEF todo, C
      <4> QED
        BY <1>8, SMTT(30)
    <3> HIDE DEF todo, C
    <3> QED
      BY <1>10, <3>1
  <2> HIDE DEF U, C
  <2> QED
    BY <1>7, <2>1
<1> HIDE DEF todo, C
<1> QED
  BY <1>2, <1>9, <1>10, <1>11, <1>12 DEF todo

-----------------------------------------------------------------------------
(* The inductive type invariant. *)

SeriesFields  == {"subject", "author", "change", "seen", "latest"}
VersionFields == {"series", "num", "finger", "sent", "partial"}
WorkerFields  == {"at", "todo", "series", "version", "plan", "left", "written", "made", "whole"}

\* Where the pass has a version, a series, a candidate.
WithVersion   == {"items", "view", "flag", "plan", "slots", "touch"}
WithSeries    == {"version"} \cup WithVersion
WithCandidate == {"series"} \cup WithSeries

TablesInStep ==
  /\ arrived \subseteq DOMAIN Mail
  /\ IsSeq(series) /\ IsSeq(slots) /\ IsSeq(mapping)
  /\ Len(slots) = Len(series) /\ Len(mapping) = Len(series)
  /\ IsSeq(versions) /\ IsSeq(items) /\ IsSeq(view)
  /\ Len(items) = Len(versions) /\ Len(view) = Len(versions)

SeriesRows ==
  \A s \in DOMAIN series :
    /\ DOMAIN series[s] = SeriesFields /\ series[s].seen \in Nat
    /\ \E m \in arrived : series[s].seen = Mail[m].sent
    /\ series[s].latest \in {0} \cup VersionsOf(s)

VersionRows ==
  \A v \in DOMAIN versions :
    /\ DOMAIN versions[v] = VersionFields /\ versions[v].series \in DOMAIN series
    /\ versions[v].num \in Nat /\ versions[v].sent \in Nat /\ versions[v].partial \in BOOLEAN

ItemRows ==
  \A v \in DOMAIN versions :
    /\ DOMAIN items[v] \subseteq Nat /\ IsFiniteSet(DOMAIN items[v])
    /\ items[v] = [o \in DOMAIN items[v] |-> items[v][o]]
    /\ \A o \in DOMAIN items[v] :
         DOMAIN items[v][o] = ItemFields /\ items[v][o].mail \in arrived /\ items[v][o].total \in Nat

ViewRows ==
  \A v \in DOMAIN versions : \A o \in DOMAIN view[v] :
    view[v][o][1] \in VersionsOf(versions[v].series) /\ view[v][o][2] \in DOMAIN items[view[v][o][1]]

\* What is left of a pass comes by date, and a row it has just found is there.
WorkInStep ==
  /\ DOMAIN worker = WorkerFields
  /\ worker.at \in {"idle", "enrich", "diffs"} \cup WithCandidate
  /\ IsSeq(worker.todo) /\ \A i \in DOMAIN worker.todo : CandidateOf(arrived, worker.todo[i])
  /\ \A i, j \in DOMAIN worker.todo : i < j => worker.todo[i].sent =< worker.todo[j].sent
  /\ worker.made \subseteq DOMAIN versions
  /\ worker.at \in WithCandidate => worker.todo # <<>>
  /\ worker.at \in WithSeries => worker.series \in DOMAIN series
  /\ worker.at \in WithVersion => worker.version \in VersionsOf(worker.series)
  /\ worker.at \in WithVersion \ {"items"} =>
       DOMAIN Candidate1.items \subseteq DOMAIN items[worker.version]
  /\ worker.at \notin WithVersion => worker.version = 0

CountsInStep ==
  /\ passes \in 0..PassBound
  /\ IsSeq(breaks) /\ Len(breaks) \in 0..BreakBound
  /\ \A i \in DOMAIN breaks : breaks[i] \in {0} \cup DOMAIN versions

TypeInv ==
  /\ TablesInStep /\ SeriesRows /\ VersionRows /\ ItemRows /\ ViewRows
  /\ WorkInStep /\ CountsInStep

-----------------------------------------------------------------------------
(* The series of a candidate. *)

LEMMA Domains ==
  ASSUME TablesInStep
  PROVE  /\ DOMAIN series = 1..Len(series) /\ Len(series) \in Nat
         /\ DOMAIN slots = DOMAIN series /\ DOMAIN mapping = DOMAIN series
         /\ DOMAIN versions = 1..Len(versions) /\ Len(versions) \in Nat
         /\ DOMAIN items = DOMAIN versions /\ DOMAIN view = DOMAIN versions
         /\ 0 \notin DOMAIN series /\ 0 \notin DOMAIN versions
         /\ DOMAIN series \in SUBSET Nat /\ IsFiniteSet(DOMAIN series)
         /\ DOMAIN versions \in SUBSET Nat /\ IsFiniteSet(DOMAIN versions)
<1>1. /\ DOMAIN series = 1..Len(series) /\ Len(series) \in Nat
      /\ DOMAIN versions = 1..Len(versions) /\ Len(versions) \in Nat
      /\ DOMAIN slots = 1..Len(slots) /\ DOMAIN mapping = 1..Len(mapping)
      /\ DOMAIN items = 1..Len(items) /\ DOMAIN view = 1..Len(view)
  BY SeqIs DEF TablesInStep
<1>2. IsFiniteSet(1..Len(series)) /\ IsFiniteSet(1..Len(versions))
  BY <1>1, FS_Interval
<1> QED
  BY <1>1, <1>2 DEF TablesInStep

LEMMA NewestIs ==
  ASSUME TablesInStep, VersionRows, NEW S \in SUBSET DOMAIN versions, S # {}
  PROVE  /\ First(S, Newer) \in S
         /\ \A y \in S \ {First(S, Newer)} : Newer(First(S, Newer), y)
<1> DEFINE R == {p \in S \X S : Newer(p[1], p[2])}
<1>1. \A v \in S : v \in Nat /\ versions[v].num \in Nat /\ versions[v].sent \in Nat
  BY Domains DEF VersionRows
<1>2. \A v, w \in S : <<v, w>> \in R <=> Newer(v, w)
  OBVIOUS
<1>3. StrictOrder(R, S)
  <2> HIDE DEF R
  <2>1. \A v \in S : <<v, v>> \notin R
    BY <1>1, <1>2 DEF Newer
  <2>2. \A v, w \in S : v # w => <<v, w>> \in R \/ <<w, v>> \in R
    BY <1>1, <1>2 DEF Newer
  <2>3. ASSUME NEW x \in S, NEW y \in S, NEW z \in S, <<x, y>> \in R, <<y, z>> \in R
        PROVE  <<x, z>> \in R
    BY <1>1, <1>2, <2>3 DEF Newer
  <2> QED
    BY <2>1, <2>2, <2>3 DEF StrictOrder
<1>4. IsFiniteSet(S)
  BY Domains, FS_Subset
<1>5. PICK m \in S : \A x \in S : x # m => <<m, x>> \in R
  <2> HIDE DEF R
  <2> QED
    BY <1>3, <1>4, LeastIn
<1>6. \E x \in S : \A y \in S \ {x} : Newer(x, y)
  BY <1>2, <1>5
<1> QED
  BY <1>6 DEF First

\* An order of any kind has a first member.
LEMMA SeenFirst ==
  ASSUME TablesInStep, SeriesRows, NEW S \in SUBSET DOMAIN series, S # {}
  PROVE  \E x \in S : \A y \in S \ {x} : LastSeen(x, y)
<1> DEFINE R == {p \in S \X S : LastSeen(p[1], p[2])}
<1>1. \A s \in S : s \in Nat /\ series[s].seen \in Nat
  BY Domains DEF SeriesRows
<1>2. \A s, r \in S : <<s, r>> \in R <=> LastSeen(s, r)
  OBVIOUS
<1>3. StrictOrder(R, S)
  <2> HIDE DEF R
  <2> QED
    BY <1>1, <1>2 DEF LastSeen, StrictOrder
<1>4. IsFiniteSet(S)
  BY Domains, FS_Subset
<1>5. PICK m \in S : \A x \in S : x # m => <<m, x>> \in R
  <2> HIDE DEF R
  <2> QED
    BY <1>3, <1>4, LeastIn
<1> QED
  BY <1>2, <1>5

LEMMA LowestFirst ==
  ASSUME TablesInStep, NEW S \in SUBSET DOMAIN series, S # {}
  PROVE  \E x \in S : \A y \in S \ {x} : x < y
<1>1. S \in SUBSET Nat
  BY Domains
<1>2. PICK m \in S : \A x \in S : m =< x
  BY <1>1, LeastOf
<1> QED
  BY <1>1, <1>2

LEMMA RatiosOrder ==
  ASSUME NEW a \in Nat, NEW b \in Nat, NEW c \in Nat,
         NEW x \in Nat \ {0}, NEW y \in Nat \ {0}, NEW z \in Nat \ {0},
         a * y >= b * x, b * z >= c * y
  PROVE  /\ a * z >= c * x
         /\ (a * y > b * x \/ b * z > c * y) => a * z > c * x
<1> DEFINE p == a * z
           q == c * x
<1>1. (a * y) * z >= (b * x) * z /\ (b * z) * x >= (c * y) * x
      /\ (a * y > b * x => (a * y) * z > (b * x) * z)
      /\ (b * z > c * y => (b * z) * x > (c * y) * x)
  OBVIOUS
<1>2. (a * y) * z = y * p /\ (b * x) * z = (b * z) * x /\ (c * y) * x = y * q
  OBVIOUS
<1>3. y * p >= y * q /\ ((a * y > b * x \/ b * z > c * y) => y * p > y * q)
  BY <1>1, <1>2
<1>4. p \in Nat /\ q \in Nat
  OBVIOUS
<1> HIDE DEF p, q
<1>5. y * (p - q) = y * p - y * q
  BY <1>4
<1>6. p >= q
  <2> SUFFICES ASSUME p < q PROVE FALSE
    BY <1>4
  <2>1. y * p < y * q
    BY <1>4
  <2> QED
    BY <1>3, <1>4, <2>1
<1>7. y * p > y * q => p > q
  <2> SUFFICES ASSUME p =< q PROVE y * p =< y * q
    BY <1>4
  <2> QED
    BY <1>4
<1> QED
  BY <1>3, <1>6, <1>7 DEF p, q

LEMMA PatchSets ==
  ASSUME TablesInStep, VersionRows, ItemRows, NEW c, CandidateOf(arrived, c), NEW s \in DOMAIN series
  PROVE  Common(c, s) \in Nat /\ United(c, s) \in Nat
<1>1. IsFiniteSet(CandidatePatches(c))
  <2> DEFINE O == Patches(c)
             f == [o \in O |-> c.items[o].patch]
  <2>1. IsFiniteSet(O)
    BY FS_Subset DEF CandidateOf, Patches
  <2>2. \E T : f \in [O -> T]
    <3>1. f \in [O -> {f[o] : o \in O}]
      OBVIOUS
    <3> HIDE DEF f
    <3> QED
      BY <3>1
  <2>3. IsFiniteSet({f[o] : o \in O})
    <3> HIDE DEF f, O
    <3> QED
      BY <2>1, <2>2, ImageFinite
  <2>4. CandidatePatches(c) \subseteq {f[o] : o \in O}
    BY DEF CandidatePatches
  <2> QED
    BY <2>3, <2>4, FS_Subset
<1>2. IsFiniteSet(LatestPatches(s))
  <2> DEFINE rows == IF VersionsOf(s) = {} THEN <<>> ELSE items[First(VersionsOf(s), Newer)]
             O == DOMAIN rows \ {0}
             f == [o \in O |-> rows[o].patch]
  <2>1. IsFiniteSet(DOMAIN rows)
    <3>1. CASE VersionsOf(s) = {}
      BY <3>1, FS_EmptySet
    <3>2. CASE VersionsOf(s) # {}
      <4>1. First(VersionsOf(s), Newer) \in VersionsOf(s)
        <5>1. VersionsOf(s) \in SUBSET DOMAIN versions
          BY DEF VersionsOf
        <5> QED
          BY <3>2, <5>1, NewestIs
      <4>2. First(VersionsOf(s), Newer) \in DOMAIN versions
        BY <4>1 DEF VersionsOf
      <4> QED
        BY <3>2, <4>2 DEF ItemRows
    <3> QED
      BY <3>1, <3>2
  <2>2. IsFiniteSet(O)
    <3> HIDE DEF rows
    <3> QED
      BY <2>1, FS_Subset
  <2>3. \E T : f \in [O -> T]
    <3>1. f \in [O -> {f[o] : o \in O}]
      <4> HIDE DEF rows
      <4> QED
        OBVIOUS
    <3> HIDE DEF f
    <3> QED
      BY <3>1
  <2>4. IsFiniteSet({f[o] : o \in O})
    <3> HIDE DEF f, O
    <3> QED
      BY <2>2, <2>3, ImageFinite
  <2>5. LatestPatches(s) \subseteq {f[o] : o \in O}
    BY DEF LatestPatches
  <2> HIDE DEF f, O
  <2> QED
    BY <2>4, <2>5, FS_Subset
<1>3. IsFiniteSet(CandidatePatches(c) \cap LatestPatches(s))
      /\ IsFiniteSet(CandidatePatches(c) \cup LatestPatches(s))
  BY <1>1, <1>2, FS_Union, FS_Subset
<1> QED
  BY <1>3, FS_CardinalityType DEF Common, United

LEMMA ClosestFirst ==
  ASSUME TablesInStep, SeriesRows, VersionRows, ItemRows, NEW c, CandidateOf(arrived, c),
         NEW S \in SUBSET ByPatches(c), S # {}
  PROVE  \E x \in S : \A y \in S \ {x} : Closer(c, x, y)
<1> DEFINE R == {p \in S \X S : Closer(c, p[1], p[2])}
           k(s) == Common(c, s)
           u(s) == United(c, s)
<1>1. S \in SUBSET DOMAIN series
  BY DEF ByPatches, Similar
<1>2. ASSUME NEW s \in S
      PROVE  s \in Nat /\ series[s].seen \in Nat /\ k(s) \in Nat /\ u(s) \in Nat \ {0}
  <2>1. Common(c, s) \in Nat /\ United(c, s) \in Nat
    BY <1>1, PatchSets
  <2>2. United(c, s) > 0
    BY DEF ByPatches, Alike
  <2> QED
    BY <1>1, <2>1, <2>2, Domains DEF SeriesRows
<1>3. ASSUME NEW s \in S, NEW r \in S
      PROVE  /\ k(s) * u(r) \in Nat /\ k(r) * u(s) \in Nat
             /\ <<s, r>> \in R <=> \/ k(s) * u(r) > k(r) * u(s)
                                   \/ k(s) * u(r) = k(r) * u(s) /\ LastSeen(s, r)
  <2>1. <<s, r>> \in R <=> Closer(c, s, r)
    OBVIOUS
  <2>2. k(s) * u(r) \in Nat /\ k(r) * u(s) \in Nat
    BY <1>2
  <2> QED
    BY <2>1, <2>2 DEF Closer
<1>4. StrictOrder(R, S)
  <2>1. ASSUME NEW s \in S PROVE <<s, s>> \notin R
    <3>1. ~LastSeen(s, s)
      BY <1>2 DEF LastSeen
    <3> HIDE DEF R, k, u
    <3> QED
      BY <1>3, <3>1
  <2>2. ASSUME NEW s \in S, NEW r \in S, s # r PROVE <<s, r>> \in R \/ <<r, s>> \in R
    <3>1. LastSeen(s, r) \/ LastSeen(r, s)
      BY <1>2, <2>2 DEF LastSeen
    <3> HIDE DEF R, k, u
    <3> QED
      BY <1>3, <3>1
  <2>3. ASSUME NEW x \in S, NEW y \in S, NEW z \in S, <<x, y>> \in R, <<y, z>> \in R
        PROVE  <<x, z>> \in R
    <3>1. LastSeen(x, y) /\ LastSeen(y, z) => LastSeen(x, z)
      BY <1>2 DEF LastSeen
    <3> HIDE DEF R, k, u
    <3>2. k(x) * u(y) >= k(y) * u(x) /\ k(y) * u(z) >= k(z) * u(y)
      BY <1>3, <2>3
    <3>3. /\ k(x) * u(z) >= k(z) * u(x)
          /\ (k(x) * u(y) > k(y) * u(x) \/ k(y) * u(z) > k(z) * u(y)) => k(x) * u(z) > k(z) * u(x)
      BY <1>2, <3>2, RatiosOrder
    <3>4. CASE k(x) * u(y) > k(y) * u(x) \/ k(y) * u(z) > k(z) * u(y)
      BY <1>3, <3>3, <3>4
    <3>5. CASE ~(k(x) * u(y) > k(y) * u(x) \/ k(y) * u(z) > k(z) * u(y))
      <4>1. LastSeen(x, y) /\ LastSeen(y, z)
        BY <1>3, <2>3, <3>5
      <4> QED
        BY <1>3, <3>1, <3>3, <4>1
    <3> QED
      BY <3>4, <3>5
  <2> HIDE DEF R
  <2> QED
    BY <2>1, <2>2, <2>3 DEF StrictOrder
<1>5. IsFiniteSet(S)
  BY <1>1, Domains, FS_Subset
<1>6. PICK m \in S : \A x \in S : x # m => <<m, x>> \in R
  <2> HIDE DEF R
  <2> QED
    BY <1>4, <1>5, LeastIn
<1>7. \A y \in S \ {m} : Closer(c, m, y)
  BY <1>6
<1> QED
  BY <1>7

\* What is found is a series, and nothing is found only if not even the fallback has one.
LEMMA ResolveIs ==
  ASSUME TablesInStep, SeriesRows, VersionRows, ItemRows, NEW c, CandidateOf(arrived, c)
  PROVE  /\ Resolve(c) \in {0} \cup DOMAIN series
         /\ Resolve(c) = 0 => Fallback(c) = {}
<1> DEFINE L(S) == CHOOSE x \in S : \A y \in S \ {x} : x < y
           K(S) == CHOOSE x \in S : \A y \in S \ {x} : Closer(c, x, y)
           M(S) == CHOOSE x \in S : \A y \in S \ {x} : LastSeen(x, y)
<1>1. Resolve(c) = IF ByChange(c) # {} THEN L(ByChange(c))
                   ELSE IF ByRefs(c) # {} THEN L(ByRefs(c))
                   ELSE IF ByPatches(c) # {} THEN K(ByPatches(c))
                   ELSE IF BySubject(c) # {} THEN M(BySubject(c))
                   ELSE IF Fallback(c) = {} THEN 0 ELSE M(Fallback(c))
  BY DEF Resolve, First, Pick
<1>2. ByChange(c) # {} => L(ByChange(c)) \in DOMAIN series
  <2>1. ByChange(c) \in SUBSET DOMAIN series
    BY DEF ByChange
  <2> QED
    BY <2>1, LowestFirst
<1>3. ByRefs(c) # {} => L(ByRefs(c)) \in DOMAIN series
  <2>1. ByRefs(c) \in SUBSET DOMAIN series
    BY DEF ByRefs, VersionRows
  <2> QED
    BY <2>1, LowestFirst
<1>4. ByPatches(c) # {} => K(ByPatches(c)) \in DOMAIN series
  <2>1. ByPatches(c) \in SUBSET DOMAIN series
    BY DEF ByPatches, Similar
  <2>2. ByPatches(c) # {} => \E x \in ByPatches(c) : \A y \in ByPatches(c) \ {x} : Closer(c, x, y)
    BY ClosestFirst
  <2> QED
    BY <2>1, <2>2
<1>5. BySubject(c) # {} => M(BySubject(c)) \in DOMAIN series
  <2>1. BySubject(c) \in SUBSET DOMAIN series
    BY DEF BySubject, SameAuthor, Similar
  <2> QED
    BY <2>1, SeenFirst
<1>6. Fallback(c) # {} => M(Fallback(c)) \in DOMAIN series
  <2>1. Fallback(c) \in SUBSET DOMAIN series
    BY DEF Fallback, SameAuthor, Similar
  <2> QED
    BY <2>1, SeenFirst
<1>7. 0 \notin DOMAIN series
  BY Domains
<1> HIDE DEF L, K, M
<1> QED
  BY <1>1, <1>2, <1>3, <1>4, <1>5, <1>6, <1>7

-----------------------------------------------------------------------------
(* Type correctness, table by table. *)

VersionsKept ==
  /\ DOMAIN versions \subseteq DOMAIN versions'
  /\ \A v \in DOMAIN versions : versions'[v].series = versions[v].series

\* Tables that stay, or that others grow beside, keep their types.
LEMMA SeriesKept ==
  ASSUME SeriesRows, VersionsKept, arrived \subseteq arrived', series' = series
  PROVE  SeriesRows'
BY DEF SeriesRows, VersionsKept, VersionsOf

LEMMA VersionsSame ==
  ASSUME VersionRows, versions' = versions, DOMAIN series \subseteq DOMAIN series'
  PROVE  VersionRows' /\ VersionsKept
BY DEF VersionRows, VersionsKept

LEMMA ItemsSame ==
  ASSUME ItemRows, versions' = versions, items' = items, arrived \subseteq arrived'
  PROVE  ItemRows'
BY DEF ItemRows

LEMMA ViewSame ==
  ASSUME TablesInStep, VersionRows, ViewRows, versions' = versions, view' = view,
         \A v \in DOMAIN versions : DOMAIN items[v] \subseteq DOMAIN items'[v]
  PROVE  ViewRows'
<1> SUFFICES ASSUME NEW v \in DOMAIN versions, NEW o \in DOMAIN view[v]
             PROVE  /\ view[v][o][1] \in VersionsOf(versions[v].series)'
                    /\ view[v][o][2] \in DOMAIN items'[view[v][o][1]]
  BY DEF ViewRows, VersionsOf
<1>1. view[v][o][1] \in VersionsOf(versions[v].series) /\ view[v][o][2] \in DOMAIN items[view[v][o][1]]
  BY DEF ViewRows
<1> QED
  BY <1>1 DEF VersionsOf

LEMMA CandidateKept ==
  ASSUME arrived \subseteq arrived', NEW c, CandidateOf(arrived, c)
  PROVE  CandidateOf(arrived', c)
BY DEF CandidateOf

\* The candidate of a step that is not the last one for it.
LEMMA WorkStays ==
  ASSUME WorkInStep, arrived' = arrived, DOMAIN versions' = DOMAIN versions, series' = series,
         \A w \in DOMAIN versions : versions'[w].series = versions[w].series,
         worker.at \in WithVersion, NEW to \in WithVersion \ {"items"},
         DOMAIN worker' = WorkerFields, worker'.at = to, worker'.todo = worker.todo,
         worker'.series = worker.series, worker'.version = worker.version, worker'.made = worker.made,
         DOMAIN Candidate1.items \subseteq DOMAIN items'[worker.version]
  PROVE  WorkInStep'
<1>1. worker'.at \in WithCandidate /\ worker'.at \in WithSeries /\ worker'.at \in WithVersion
  BY DEF WithCandidate, WithSeries
<1>2. worker.at \in WithCandidate /\ worker.at \in WithSeries
  BY DEF WithCandidate, WithSeries
<1>3. Candidate1' = Candidate1
  BY DEF Candidate1
<1> QED
  BY <1>1, <1>2, <1>3 DEF WorkInStep, VersionsOf

LEMMA WorkFields ==
  ASSUME WorkInStep, NEW from, NEW to, Step(from, to)
  PROVE  /\ DOMAIN worker' = WorkerFields /\ worker'.at = to /\ worker.at = from
         /\ worker'.todo = worker.todo /\ worker'.series = worker.series
         /\ worker'.version = worker.version /\ worker'.made = worker.made
         /\ worker'.written = worker.written /\ worker'.plan = worker.plan
         /\ worker'.left = worker.left /\ worker'.whole = worker.whole
BY DEF WorkInStep, WorkerFields, Step

LEMMA FirstCandidate ==
  ASSUME WorkInStep, worker.at \in WithCandidate
  PROVE  /\ CandidateOf(arrived, Candidate1) /\ Candidate1 = worker.todo[1]
         /\ 1 \in DOMAIN worker.todo /\ worker.todo # <<>>
<1> DEFINE S == {worker.todo[i] : i \in DOMAIN worker.todo}
<1>1. worker.todo \in Seq(S) /\ worker.todo # <<>>
  BY DEF WorkInStep, IsSeq
<1>2. Head(worker.todo) = worker.todo[1] /\ 1 \in DOMAIN worker.todo
  <2> HIDE DEF S
  <2> QED
    BY <1>1, TailIs
<1> QED
  BY <1>1, <1>2 DEF WorkInStep, Candidate1

-----------------------------------------------------------------------------
(* The steps. *)

LEMMA TypesFromStart == Init => TypeInv
<1> SUFFICES ASSUME Init PROVE TypeInv
  OBVIOUS
<1>1. IsSeq(<<>>) /\ Len(<<>>) = 0 /\ DOMAIN <<>> = {}
  <2>1. <<>> \in Seq({<<>>[i] : i \in DOMAIN <<>>})
    BY EmptySeq
  <2> QED
    BY <2>1, EmptySeq DEF IsSeq
<1>2. series = <<>> /\ versions = <<>> /\ items = <<>> /\ view = <<>> /\ slots = <<>> /\ mapping = <<>>
      /\ breaks = <<>> /\ passes = 0 /\ arrived = {} /\ worker = Idle
  BY DEF Init
<1>3. TablesInStep
  BY <1>1, <1>2 DEF TablesInStep
<1>4. SeriesRows /\ VersionRows /\ ItemRows /\ ViewRows
  BY <1>1, <1>2 DEF SeriesRows, VersionRows, ItemRows, ViewRows
<1>5. WorkInStep
  <2>1. /\ DOMAIN Idle = WorkerFields /\ Idle.at = "idle" /\ Idle.todo = <<>>
        /\ Idle.made = {} /\ Idle.version = 0
    BY DEF Idle, WorkerFields
  <2>2. "idle" \notin WithCandidate /\ "idle" \notin WithSeries /\ "idle" \notin WithVersion
    BY DEF WithCandidate, WithSeries, WithVersion
  <2> QED
    BY <1>1, <1>2, <2>1, <2>2 DEF WorkInStep
<1>6. CountsInStep
  BY <1>1, <1>2, BoundAssumption DEF CountsInStep
<1> QED
  BY <1>3, <1>4, <1>5, <1>6 DEF TypeInv

LEMMA ArriveTypes ==
  ASSUME TypeInv, NEW m \in DOMAIN Mail, Arrive(m)
  PROVE  TypeInv'
<1>1. arrived \subseteq arrived' /\ arrived' \subseteq DOMAIN Mail /\ UNCHANGED <<tables, worker, breaks, passes>>
  BY DEF Arrive, TypeInv, TablesInStep
<1>2. TablesInStep' /\ CountsInStep'
  BY <1>1 DEF TypeInv, TablesInStep, CountsInStep, tables
<1>3. VersionRows' /\ VersionsKept
  BY <1>1, VersionsSame DEF TypeInv, tables
<1>4. SeriesRows' /\ ItemRows'
  BY <1>1, <1>3, SeriesKept, ItemsSame DEF TypeInv, tables
<1>5. ViewRows'
  BY <1>1, ViewSame DEF TypeInv, tables
<1>6. WorkInStep'
  <2>1. \A i \in DOMAIN worker.todo : CandidateOf(arrived', worker.todo[i])
    BY <1>1, CandidateKept DEF TypeInv, WorkInStep
  <2> QED
    BY <1>1, <2>1 DEF TypeInv, WorkInStep, Candidate1, VersionsOf, tables
<1> QED
  BY <1>2, <1>3, <1>4, <1>5, <1>6 DEF TypeInv

LEMMA SameTables ==
  ASSUME TypeInv, UNCHANGED <<arrived, series, versions, items, view>>
  PROVE  SeriesRows' /\ VersionRows' /\ ItemRows' /\ ViewRows'
<1>1. VersionRows' /\ VersionsKept
  BY VersionsSame DEF TypeInv
<1>2. SeriesRows' /\ ItemRows'
  BY <1>1, SeriesKept, ItemsSame DEF TypeInv
<1>3. ViewRows'
  BY ViewSame DEF TypeInv
<1> QED
  BY <1>1, <1>2, <1>3

LEMMA CountsKept ==
  ASSUME CountsInStep, UNCHANGED <<breaks, passes>>, DOMAIN versions \subseteq DOMAIN versions'
  PROVE  CountsInStep'
BY DEF CountsInStep

LEMMA IdleIs ==
  /\ DOMAIN Idle = WorkerFields /\ Idle.at = "idle" /\ Idle.todo = <<>> /\ Idle.made = {}
  /\ Idle.version = 0 /\ Idle.series = 0 /\ Idle.written = {}
  /\ "idle" \notin WithCandidate /\ "idle" \notin WithSeries /\ "idle" \notin WithVersion
  /\ "enrich" \notin WithCandidate /\ "enrich" \notin WithSeries /\ "enrich" \notin WithVersion
  /\ "diffs" \notin WithCandidate /\ "diffs" \notin WithSeries /\ "diffs" \notin WithVersion
  /\ "series" \in WithCandidate /\ "series" \notin WithSeries /\ "series" \notin WithVersion
  /\ "version" \in WithCandidate /\ "version" \in WithSeries /\ "version" \notin WithVersion
  /\ "items" \in WithCandidate /\ "items" \in WithSeries /\ "items" \in WithVersion
  /\ "touch" \in WithCandidate /\ "touch" \in WithSeries /\ "touch" \in WithVersion
BY DEF Idle, WorkerFields, WithCandidate, WithSeries, WithVersion

LEMMA BeginTypes ==
  ASSUME TypeInv, NEW threads \in SUBSET Threads, Begin(threads)
  PROVE  TypeInv'
<1>1. UNCHANGED <<arrived, series, versions, items, view, slots, mapping, breaks>>
  BY DEF Begin, tables
<1>2. TablesInStep' /\ SeriesRows' /\ VersionRows' /\ ItemRows' /\ ViewRows'
  BY <1>1, SameTables DEF TypeInv, TablesInStep
<1>3. CountsInStep'
  <2>1. passes' \in 0..PassBound
    BY BoundAssumption DEF Begin, TypeInv, CountsInStep
  <2> QED
    BY <1>1, <2>1 DEF TypeInv, CountsInStep
<1>4. WorkInStep'
  <2> DEFINE todo == Candidates(threads)
  <2>1. /\ \A i \in DOMAIN todo : CandidateOf(arrived, todo[i])
        /\ IsSeq(todo)
        /\ \A i, j \in DOMAIN todo : i < j => todo[i].sent =< todo[j].sent
    BY CandidatesAre DEF TypeInv, TablesInStep, IsSeq
  <2>2. todo # <<>>
    BY DEF Begin
  <2>3. /\ DOMAIN worker' = WorkerFields /\ worker'.at = "series" /\ worker'.todo = todo
        /\ worker'.made = {} /\ worker'.version = 0
    <3>1. worker' = [Idle EXCEPT !.at = "series", !.todo = todo,
                       !.whole = {Mail[m].thread : m \in arrived} \subseteq threads]
      BY DEF Begin
    <3> HIDE DEF todo
    <3> QED
      BY <3>1, IdleIs DEF WorkerFields
  <2> HIDE DEF todo
  <2> QED
    BY <1>1, <2>1, <2>2, <2>3, IdleIs DEF WorkInStep
<1> QED
  BY <1>2, <1>3, <1>4 DEF TypeInv

\* A candidate gets a series that is there or a new one, of its subject and author.
LEMMA FindSeriesIs ==
  ASSUME TypeInv, FindSeries
  PROVE  LET c == Candidate1
             s == Resolve(c)
             row == [subject |-> c.subject, author |-> c.author, change |-> c.change,
                     seen |-> c.sent, latest |-> 0]
         IN /\ worker.at = "series" /\ CandidateOf(arrived, c) /\ worker.todo # <<>>
            /\ s \in {0} \cup DOMAIN series
            /\ IsSeq(series') /\ IsSeq(slots') /\ IsSeq(mapping')
            /\ Len(slots') = Len(series') /\ Len(mapping') = Len(series')
            /\ DOMAIN series \subseteq DOMAIN series' /\ \A r \in DOMAIN series : series'[r] = series[r]
            /\ \A r \in DOMAIN series' \ DOMAIN series : series'[r] = row
            /\ DOMAIN series' \ DOMAIN series # {} => s = 0 /\ DOMAIN series' = DOMAIN series \cup {Len(series) + 1}
            /\ DOMAIN worker' = WorkerFields /\ worker'.at = "version" /\ worker'.todo = worker.todo
            /\ worker'.made = worker.made /\ worker'.version = worker.version
            /\ worker'.series \in DOMAIN series'
<1> DEFINE c == Candidate1
           s == Resolve(c)
           row == [subject |-> c.subject, author |-> c.author, change |-> c.change,
                   seen |-> c.sent, latest |-> 0]
<1>1. worker.at = "series" /\ CandidateOf(arrived, c) /\ worker.todo # <<>>
  BY FirstCandidate, IdleIs DEF TypeInv, FindSeries
<1>2. s \in {0} \cup DOMAIN series
  BY <1>1, ResolveIs DEF TypeInv
<1>3. worker' = [worker EXCEPT !.at = "version", !.series = IF s # 0 THEN s ELSE Len(series) + 1]
  BY DEF FindSeries
<1>4. \/ s # 0 /\ UNCHANGED <<series, slots, mapping>>
      \/ s = 0 /\ series' = Append(series, row) /\ slots' = Append(slots, <<>>)
         /\ mapping' = Append(mapping, <<>>)
  BY DEF FindSeries
<1> HIDE DEF s, row, c
<1>5. /\ IsSeq(series) /\ IsSeq(slots) /\ IsSeq(mapping)
      /\ Len(slots) = Len(series) /\ Len(mapping) = Len(series)
  BY DEF TypeInv, TablesInStep
<1>6. /\ DOMAIN worker' = WorkerFields /\ worker'.at = "version" /\ worker'.todo = worker.todo
      /\ worker'.made = worker.made /\ worker'.version = worker.version
      /\ worker'.series = IF s # 0 THEN s ELSE Len(series) + 1
  BY <1>3 DEF TypeInv, WorkInStep, WorkerFields
<1>7. CASE s # 0
  <2>1. UNCHANGED <<series, slots, mapping>>
    BY <1>4, <1>7
  <2> QED
    BY <1>1, <1>2, <1>5, <1>6, <1>7, <2>1 DEF s, row, c
<1>8. CASE s = 0
  <2>1. /\ IsSeq(Append(series, row)) /\ Len(Append(series, row)) = Len(series) + 1
        /\ DOMAIN Append(series, row) = DOMAIN series \cup {Len(series) + 1}
        /\ Append(series, row)[Len(series) + 1] = row
        /\ \A r \in DOMAIN series : Append(series, row)[r] = series[r]
    BY <1>5, AppendIs, Zenon
  <2>2. IsSeq(Append(slots, <<>>)) /\ Len(Append(slots, <<>>)) = Len(slots) + 1
    BY <1>5, AppendIs, Zenon
  <2>3. IsSeq(Append(mapping, <<>>)) /\ Len(Append(mapping, <<>>)) = Len(mapping) + 1
    BY <1>5, AppendIs, Zenon
  <2>4. series' = Append(series, row) /\ slots' = Append(slots, <<>>) /\ mapping' = Append(mapping, <<>>)
    BY <1>4, <1>8
  <2>5. /\ IsSeq(series') /\ Len(series') = Len(series) + 1
        /\ DOMAIN series' = DOMAIN series \cup {Len(series) + 1}
        /\ series'[Len(series) + 1] = row
        /\ \A r \in DOMAIN series : series'[r] = series[r]
    BY <2>1, <2>4, Zenon
  <2>6. IsSeq(slots') /\ IsSeq(mapping') /\ Len(slots') = Len(series) + 1 /\ Len(mapping') = Len(series) + 1
    BY <1>5, <2>2, <2>3, <2>4, Zenon
  <2> QED
    BY <1>1, <1>2, <1>6, <1>8, <2>5, <2>6 DEF s, row, c
<1> QED
  BY <1>7, <1>8

LEMMA FindSeriesTypes ==
  ASSUME TypeInv, FindSeries
  PROVE  TypeInv'
<1> DEFINE c == Candidate1
           row == [subject |-> c.subject, author |-> c.author, change |-> c.change,
                   seen |-> c.sent, latest |-> 0]
<1>1. UNCHANGED <<arrived, versions, items, view, breaks, passes>> /\ worker.at = "series"
  BY DEF FindSeries
<1>2. /\ CandidateOf(arrived, c) /\ worker.todo # <<>>
      /\ IsSeq(series') /\ IsSeq(slots') /\ IsSeq(mapping')
      /\ Len(slots') = Len(series') /\ Len(mapping') = Len(series')
      /\ DOMAIN series \subseteq DOMAIN series' /\ \A r \in DOMAIN series : series'[r] = series[r]
      /\ \A r \in DOMAIN series' \ DOMAIN series : series'[r] = row
      /\ DOMAIN worker' = WorkerFields /\ worker'.at = "version" /\ worker'.todo = worker.todo
      /\ worker'.made = worker.made /\ worker'.version = worker.version
      /\ worker'.series \in DOMAIN series'
  BY FindSeriesIs
<1>3. TablesInStep'
  BY <1>1, <1>2 DEF TypeInv, TablesInStep
<1>4. VersionRows' /\ VersionsKept
  BY <1>1, <1>2, VersionsSame DEF TypeInv
<1>5. ItemRows' /\ ViewRows'
  BY <1>1, <1>4, ItemsSame, ViewSame DEF TypeInv
<1>6. SeriesRows'
  <2>1. DOMAIN row = SeriesFields /\ row.seen = c.sent /\ row.latest = 0
    BY DEF SeriesFields
  <2>2. c.sent \in Nat /\ \E m \in arrived : c.sent = Mail[m].sent
    BY <1>2 DEF CandidateOf
  <2> HIDE DEF c, row
  <2> QED
    BY <1>1, <1>2, <2>1, <2>2 DEF TypeInv, SeriesRows, VersionsOf
<1>7. WorkInStep'
  BY <1>1, <1>2, IdleIs DEF TypeInv, WorkInStep
<1>8. CountsInStep'
  BY <1>1 DEF TypeInv, CountsInStep
<1> QED
  BY <1>3, <1>4, <1>5, <1>6, <1>7, <1>8 DEF TypeInv

\* The row a candidate is written to: a new one, or one of its number and fingerprint.
LEMMA WriteVersionIs ==
  ASSUME TypeInv, WriteVersion
  PROVE  LET c == Candidate1
             v == worker'.version
             row == [series |-> worker.series, num |-> c.version, finger |-> Fingerprint(c),
                     sent |-> c.sent, partial |-> FALSE]
         IN /\ CandidateOf(arrived, c) /\ worker.at = "version" /\ worker.series \in DOMAIN series
            /\ DOMAIN worker' = WorkerFields /\ worker'.at = "items" /\ worker'.todo = worker.todo
            /\ worker'.series = worker.series /\ worker'.made = worker.made \cup {v}
            /\ worker'.written = worker.written
            /\ \/ /\ v \in SameVersions(worker.series, c)
                  /\ versions' = [versions EXCEPT ![v] =
                                    [versions[v] EXCEPT !.sent = Min({versions[v].sent, c.sent})]]
                  /\ UNCHANGED <<items, view>>
               \/ /\ v = Len(versions) + 1
                  /\ versions' = Append(versions, row)
                  /\ items' = Append(items, <<>>) /\ view' = Append(view, <<>>)
<1> DEFINE c == Candidate1
           same == SameVersions(worker.series, c)
           v == IF same = {} THEN Len(versions) + 1 ELSE Min(same)
<1>1. worker.at = "version" /\ CandidateOf(arrived, c) /\ worker.series \in DOMAIN series
  BY FirstCandidate, IdleIs DEF WriteVersion, TypeInv, WorkInStep
<1>2. worker' = [worker EXCEPT !.at = "items", !.version = v, !.made = @ \cup {v}]
  BY DEF WriteVersion
<1>3. /\ DOMAIN worker' = WorkerFields /\ worker'.at = "items" /\ worker'.todo = worker.todo
      /\ worker'.series = worker.series /\ worker'.made = worker.made \cup {v}
      /\ worker'.written = worker.written /\ worker'.version = v
  <2> HIDE DEF v
  <2> QED
    BY <1>2 DEF TypeInv, WorkInStep, WorkerFields
<1>4. CASE same = {}
  <2>1. /\ v = Len(versions) + 1
        /\ versions' = Append(versions, [series |-> worker.series, num |-> c.version,
                         finger |-> Fingerprint(c), sent |-> c.sent, partial |-> FALSE])
        /\ items' = Append(items, <<>>) /\ view' = Append(view, <<>>)
    BY <1>4 DEF WriteVersion
  <2> HIDE DEF v, same
  <2> QED
    BY <1>1, <1>3, <2>1
<1>5. CASE same # {}
  <2>1. same \in SUBSET Nat
    BY Domains DEF TypeInv, SameVersions, VersionsOf
  <2>2. Min(same) \in same
    <3> HIDE DEF same
    <3> QED
      BY <1>5, <2>1, MinIn
  <2>3. /\ v = Min(same) /\ UNCHANGED <<items, view>>
        /\ versions' = [versions EXCEPT ![Min(same)] =
                          [versions[Min(same)] EXCEPT !.sent = Min({versions[Min(same)].sent, c.sent})]]
    BY <1>5 DEF WriteVersion
  <2> HIDE DEF v
  <2> QED
    BY <1>1, <1>3, <2>2, <2>3
<1> QED
  BY <1>4, <1>5

LEMMA EmptyRows ==
  /\ DOMAIN <<>> = {} /\ IsFiniteSet(DOMAIN <<>>) /\ <<>> = [o \in DOMAIN <<>> |-> <<>>[o]]
<1>1. DOMAIN <<>> = {}
  OBVIOUS
<1> QED
  BY <1>1, FS_EmptySet

LEMMA WriteVersionTypes ==
  ASSUME TypeInv, WriteVersion
  PROVE  TypeInv'
<1> DEFINE c == Candidate1
           v == worker'.version
           row == [series |-> worker.series, num |-> c.version, finger |-> Fingerprint(c),
                   sent |-> c.sent, partial |-> FALSE]
           low == Min({versions[v].sent, c.sent})
<1>1. UNCHANGED <<arrived, series, slots, mapping, breaks, passes>>
  BY DEF WriteVersion
<1>2. /\ CandidateOf(arrived, c) /\ worker.at = "version" /\ worker.series \in DOMAIN series
      /\ DOMAIN worker' = WorkerFields /\ worker'.at = "items" /\ worker'.todo = worker.todo
      /\ worker'.series = worker.series /\ worker'.made = worker.made \cup {v}
  BY WriteVersionIs
<1>3. \/ /\ v \in SameVersions(worker.series, c)
         /\ versions' = [versions EXCEPT ![v] = [versions[v] EXCEPT !.sent = low]]
         /\ UNCHANGED <<items, view>>
      \/ /\ v = Len(versions) + 1 /\ versions' = Append(versions, row)
         /\ items' = Append(items, <<>>) /\ view' = Append(view, <<>>)
  BY WriteVersionIs
<1>4. c.sent \in Nat /\ c.version \in Nat
  BY <1>2 DEF CandidateOf
<1>5. /\ TablesInStep' /\ VersionsKept
      /\ v \in DOMAIN versions' /\ versions'[v].series = worker.series
      /\ \A w \in DOMAIN versions' \ {v} : w \in DOMAIN versions /\ versions'[w] = versions[w]
      /\ DOMAIN versions'[v] = VersionFields /\ versions'[v].num \in Nat /\ versions'[v].sent \in Nat
      /\ versions'[v].partial \in BOOLEAN
      /\ \A w \in DOMAIN versions : items'[w] = items[w] /\ view'[w] = view[w]
      /\ \A w \in DOMAIN versions' \ DOMAIN versions : items'[w] = <<>> /\ view'[w] = <<>>
  <2>1. IsSeq(versions) /\ IsSeq(items) /\ IsSeq(view) /\ Len(items) = Len(versions)
        /\ Len(view) = Len(versions) /\ DOMAIN items = DOMAIN versions /\ DOMAIN view = DOMAIN versions
    BY Domains DEF TypeInv, TablesInStep
  <2>2. CASE v \in SameVersions(worker.series, c)
                /\ versions' = [versions EXCEPT ![v] = [versions[v] EXCEPT !.sent = low]]
                /\ UNCHANGED <<items, view>>
    <3>1. v \in DOMAIN versions /\ versions[v].series = worker.series
      BY <2>2 DEF SameVersions, VersionsOf
    <3>2. low \in Nat
      <4>1. {versions[v].sent, c.sent} \in SUBSET Nat
        BY <1>4, <3>1 DEF TypeInv, VersionRows
      <4> HIDE DEF c, v
      <4> QED
        BY <4>1, MinIn
    <3> HIDE DEF low, c, v
    <3>3. IsSeq(versions') /\ Len(versions') = Len(versions)
      BY <2>1, <2>2, <3>1, ExceptIs, Zenon
    <3>4. /\ DOMAIN versions' = DOMAIN versions
          /\ \A w \in DOMAIN versions \ {v} : versions'[w] = versions[w]
          /\ DOMAIN versions'[v] = DOMAIN versions[v] /\ versions'[v].series = versions[v].series
          /\ versions'[v].num = versions[v].num /\ versions'[v].sent = low
          /\ versions'[v].partial = versions[v].partial
      <4>1. DOMAIN versions[v] = VersionFields
        BY <3>1 DEF TypeInv, VersionRows
      <4> QED
        BY <2>2, <3>1, <4>1 DEF VersionFields
    <3>5. TablesInStep' /\ VersionsKept
      BY <1>1, <2>1, <2>2, <3>3, <3>4 DEF TypeInv, TablesInStep, VersionsKept
    <3> QED
      BY <2>2, <3>1, <3>2, <3>4, <3>5 DEF TypeInv, VersionRows
  <2>3. CASE v = Len(versions) + 1 /\ versions' = Append(versions, row)
                /\ items' = Append(items, <<>>) /\ view' = Append(view, <<>>)
    <3> DEFINE n == Len(versions) + 1
    <3>1. /\ IsSeq(Append(versions, row)) /\ Len(Append(versions, row)) = n
          /\ DOMAIN Append(versions, row) = DOMAIN versions \cup {n}
          /\ Append(versions, row)[n] = row
          /\ \A w \in DOMAIN versions : Append(versions, row)[w] = versions[w]
      <4> HIDE DEF row
      <4> QED
        BY <2>1, AppendIs, Zenon
    <3>2. /\ IsSeq(Append(items, <<>>)) /\ Len(Append(items, <<>>)) = n
          /\ Append(items, <<>>)[n] = <<>>
          /\ \A w \in DOMAIN versions : Append(items, <<>>)[w] = items[w]
      <4>1. /\ IsSeq(Append(items, <<>>)) /\ Len(Append(items, <<>>)) = Len(items) + 1
            /\ Append(items, <<>>)[Len(items) + 1] = <<>>
            /\ \A w \in DOMAIN items : Append(items, <<>>)[w] = items[w]
        BY <2>1, AppendIs, Zenon
      <4> QED
        BY <2>1, <4>1, Zenon
    <3>3. /\ IsSeq(Append(view, <<>>)) /\ Len(Append(view, <<>>)) = n
          /\ Append(view, <<>>)[n] = <<>>
          /\ \A w \in DOMAIN versions : Append(view, <<>>)[w] = view[w]
      <4>1. /\ IsSeq(Append(view, <<>>)) /\ Len(Append(view, <<>>)) = Len(view) + 1
            /\ Append(view, <<>>)[Len(view) + 1] = <<>>
            /\ \A w \in DOMAIN view : Append(view, <<>>)[w] = view[w]
        BY <2>1, AppendIs, Zenon
      <4> QED
        BY <2>1, <4>1, Zenon
    <3>4. /\ row.series = worker.series /\ DOMAIN row = VersionFields /\ row.num = c.version
          /\ row.sent = c.sent /\ row.partial = FALSE
      BY DEF VersionFields
    <3> HIDE DEF row, c, v, n
    <3>5. DOMAIN versions' = DOMAIN versions \cup {v} /\ versions'[v] = row
          /\ \A w \in DOMAIN versions : versions'[w] = versions[w] /\ items'[w] = items[w] /\ view'[w] = view[w]
      BY <2>3, <3>1, <3>2, <3>3 DEF n
    <3>6. items'[v] = <<>> /\ view'[v] = <<>>
      BY <2>3, <3>2, <3>3 DEF n
    <3>7. TablesInStep' /\ VersionsKept
      <4>1. /\ IsSeq(versions') /\ IsSeq(items') /\ IsSeq(view')
            /\ Len(items') = Len(versions') /\ Len(view') = Len(versions')
        BY <2>3, <3>1, <3>2, <3>3, Zenon
      <4> QED
        BY <1>1, <3>5, <4>1 DEF TypeInv, TablesInStep, VersionsKept
    <3> QED
      BY <1>4, <3>4, <3>5, <3>6, <3>7
  <2> HIDE DEF c, v, low, row
  <2> QED
    BY <1>3, <2>2, <2>3
<1> HIDE DEF c, v, row, low
<1>6. SeriesRows'
  BY <1>1, <1>5, SeriesKept DEF TypeInv
<1>7. VersionRows'
  BY <1>1, <1>2, <1>5 DEF TypeInv, VersionRows, VersionsKept
<1>8. ItemRows'
  <2> SUFFICES ASSUME NEW w \in DOMAIN versions'
               PROVE  /\ DOMAIN items'[w] \subseteq Nat /\ IsFiniteSet(DOMAIN items'[w])
                      /\ items'[w] = [o \in DOMAIN items'[w] |-> items'[w][o]]
                      /\ \A o \in DOMAIN items'[w] :
                           DOMAIN items'[w][o] = ItemFields /\ items'[w][o].mail \in arrived' /\ items'[w][o].total \in Nat
    BY DEF ItemRows
  <2>1. CASE w \in DOMAIN versions
    <3>1. items'[w] = items[w] /\ arrived' = arrived
      BY <1>1, <1>5, <2>1
    <3> QED
      BY <2>1, <3>1 DEF TypeInv, ItemRows
  <2>2. CASE w \notin DOMAIN versions
    <3>1. items'[w] = <<>>
      BY <1>5, <2>2
    <3> QED
      BY <3>1, EmptyRows
  <2> QED
    BY <2>1, <2>2
<1>9. ViewRows'
  <2> SUFFICES ASSUME NEW w \in DOMAIN versions', NEW o \in DOMAIN view'[w]
               PROVE  /\ view'[w][o][1] \in VersionsOf(versions[w].series)'
                      /\ view'[w][o][2] \in DOMAIN items'[view'[w][o][1]]
    BY DEF ViewRows, VersionsOf
  <2>1. w \in DOMAIN versions
    BY <1>5, EmptyRows
  <2>2. view[w][o][1] \in VersionsOf(versions[w].series) /\ view[w][o][2] \in DOMAIN items[view[w][o][1]]
        /\ view'[w] = view[w]
    BY <1>5, <2>1 DEF TypeInv, ViewRows
  <2> QED
    BY <1>5, <2>1, <2>2 DEF VersionsOf, VersionsKept
<1>10. WorkInStep'
  <2>1. /\ IsSeq(worker'.todo) /\ \A i \in DOMAIN worker'.todo : CandidateOf(arrived', worker'.todo[i])
        /\ \A i, j \in DOMAIN worker'.todo : i < j => worker'.todo[i].sent =< worker'.todo[j].sent
        /\ worker'.todo # <<>>
    BY <1>1, <1>2, IdleIs DEF TypeInv, WorkInStep
  <2>2. worker'.made \subseteq DOMAIN versions'
    BY <1>2, <1>5 DEF TypeInv, WorkInStep, VersionsKept
  <2>3. worker'.version \in VersionsOf(worker.series)' /\ worker'.series \in DOMAIN series'
    BY <1>1, <1>2, <1>5 DEF VersionsOf, v
  <2> QED
    BY <1>2, <2>1, <2>2, <2>3, IdleIs DEF WorkInStep
<1>11. CountsInStep'
  BY <1>1, <1>5, CountsKept DEF TypeInv, VersionsKept
<1> QED
  BY <1>5, <1>6, <1>7, <1>8, <1>9, <1>10, <1>11 DEF TypeInv

\* A version is a row there is, of the series of the pass, while it has one.
LEMMA VersionIs ==
  ASSUME TypeInv, worker.at \in WithVersion
  PROVE  /\ worker.version \in DOMAIN versions /\ versions[worker.version].series = worker.series
         /\ worker.series \in DOMAIN series /\ CandidateOf(arrived, Candidate1) /\ worker.todo # <<>>
         /\ worker.at \in WithCandidate /\ worker.at \in WithSeries
<1>1. worker.at \in WithCandidate /\ worker.at \in WithSeries
  BY DEF WithCandidate, WithSeries
<1> QED
  BY <1>1, FirstCandidate DEF TypeInv, WorkInStep, VersionsOf

LEMMA WriteItemsIs ==
  ASSUME TypeInv, WriteItems
  PROVE  LET v == worker.version
             new == Candidate1.items
         IN /\ items' = [items EXCEPT ![v] = items'[v]]
            /\ \A w \in DOMAIN versions \ {v} : items'[w] = items[w]
            /\ DOMAIN items'[v] = DOMAIN new \cup DOMAIN items[v]
            /\ items'[v] = [o \in DOMAIN items'[v] |-> items'[v][o]]
            /\ \A o \in DOMAIN new :
                 /\ DOMAIN items'[v][o] = DOMAIN new[o] /\ items'[v][o].mail = new[o].mail
                 /\ items'[v][o].total = new[o].total
            /\ \A o \in DOMAIN items[v] \ DOMAIN new : items'[v][o] = items[v][o]
<1> DEFINE v == worker.version
           new == Candidate1.items
           row(o) == [new[o] EXCEPT !.patch =
                        IF @ = None /\ o \in DOMAIN items[v] THEN items[v][o].patch ELSE @]
<1>1. items' = [items EXCEPT ![v] = [o \in DOMAIN new \cup DOMAIN items[v] |->
                                       IF o \notin DOMAIN new THEN items[v][o] ELSE row(o)]]
  BY DEF WriteItems
<1>2. worker.at \in WithVersion
  BY IdleIs DEF WriteItems, Step
<1>3. v \in DOMAIN versions /\ DOMAIN items = DOMAIN versions /\ CandidateOf(arrived, Candidate1)
  BY <1>2, VersionIs, Domains DEF TypeInv
<1>4. \A o \in DOMAIN new :
        DOMAIN row(o) = DOMAIN new[o] /\ row(o).mail = new[o].mail /\ row(o).total = new[o].total
  <2>1. \A o \in DOMAIN new : DOMAIN new[o] = ItemFields
    BY <1>3 DEF CandidateOf
  <2> HIDE DEF new
  <2> QED
    BY <2>1 DEF ItemFields
<1> HIDE DEF row, new
<1>5. /\ items'[v] = [o \in DOMAIN new \cup DOMAIN items[v] |->
                        IF o \notin DOMAIN new THEN items[v][o] ELSE row(o)]
      /\ \A w \in DOMAIN versions \ {v} : items'[w] = items[w]
  BY <1>1, <1>3
<1>6. items' = [items EXCEPT ![v] = items'[v]]
  BY <1>1, <1>5
<1>7. /\ DOMAIN items'[v] = DOMAIN new \cup DOMAIN items[v]
      /\ items'[v] = [o \in DOMAIN items'[v] |-> items'[v][o]]
      /\ \A o \in DOMAIN new : items'[v][o] = row(o)
      /\ \A o \in DOMAIN items[v] \ DOMAIN new : items'[v][o] = items[v][o]
  BY <1>5
<1> QED
  BY <1>4, <1>5, <1>6, <1>7 DEF new

\* The rows of a pass that are there keep their types when the items of one version change.
LEMMA WriteItemsTypes ==
  ASSUME TypeInv, WriteItems
  PROVE  TypeInv'
<1> DEFINE v == worker.version
           new == Candidate1.items
<1>1. UNCHANGED <<arrived, series, versions, view, slots, mapping, breaks, passes>> /\ Step("items", "view")
  BY DEF WriteItems
<1>2. worker.at \in WithVersion /\ "view" \in WithVersion \ {"items"}
  BY <1>1 DEF Step, WithVersion
<1>3. v \in DOMAIN versions /\ CandidateOf(arrived, Candidate1) /\ DOMAIN items = DOMAIN versions
  BY <1>2, VersionIs, Domains DEF TypeInv
<1>4. /\ items' = [items EXCEPT ![v] = items'[v]]
      /\ \A w \in DOMAIN versions \ {v} : items'[w] = items[w]
      /\ DOMAIN items'[v] = DOMAIN new \cup DOMAIN items[v]
      /\ items'[v] = [o \in DOMAIN items'[v] |-> items'[v][o]]
      /\ \A o \in DOMAIN new :
           /\ DOMAIN items'[v][o] = DOMAIN new[o] /\ items'[v][o].mail = new[o].mail
           /\ items'[v][o].total = new[o].total
      /\ \A o \in DOMAIN items[v] \ DOMAIN new : items'[v][o] = items[v][o]
  BY WriteItemsIs
<1>5. TablesInStep'
  <2>1. IsSeq(items') /\ Len(items') = Len(items)
    <3>1. IsSeq(items)
      BY DEF TypeInv, TablesInStep
    <3>2. IsSeq([items EXCEPT ![v] = items'[v]]) /\ Len([items EXCEPT ![v] = items'[v]]) = Len(items)
      BY <1>3, <3>1, ExceptIs, Zenon
    <3> QED
      BY <1>4, <3>2, Zenon
  <2> QED
    BY <1>1, <2>1 DEF TypeInv, TablesInStep
<1>6. VersionRows' /\ SeriesRows'
  BY <1>1, VersionsSame, SeriesKept DEF TypeInv
<1>7. /\ DOMAIN new \subseteq Nat /\ IsFiniteSet(DOMAIN new)
      /\ \A o \in DOMAIN new :
           DOMAIN new[o] = ItemFields /\ new[o].mail \in arrived /\ new[o].total \in Nat
  BY <1>3 DEF CandidateOf
<1>8. \A w \in DOMAIN versions :
        /\ DOMAIN items[w] \subseteq Nat /\ IsFiniteSet(DOMAIN items[w])
        /\ items[w] = [o \in DOMAIN items[w] |-> items[w][o]]
        /\ \A o \in DOMAIN items[w] :
             DOMAIN items[w][o] = ItemFields /\ items[w][o].mail \in arrived /\ items[w][o].total \in Nat
  BY DEF TypeInv, ItemRows
<1> HIDE DEF v, new
<1>9. ItemRows'
  <2>1. ASSUME NEW o \in DOMAIN items'[v]
        PROVE  DOMAIN items'[v][o] = ItemFields /\ items'[v][o].mail \in arrived /\ items'[v][o].total \in Nat
    <3>1. CASE o \in DOMAIN new
      BY <1>4, <1>7, <3>1
    <3>2. CASE o \notin DOMAIN new
      <4>1. o \in DOMAIN items[v] /\ items'[v][o] = items[v][o]
        BY <1>4, <3>2
      <4> QED
        BY <1>3, <1>8, <4>1
    <3> QED
      BY <3>1, <3>2
  <2>2. DOMAIN items'[v] \subseteq Nat /\ IsFiniteSet(DOMAIN items'[v])
    <3>1. DOMAIN items[v] \subseteq Nat /\ IsFiniteSet(DOMAIN items[v])
      BY <1>3, <1>8
    <3>2. IsFiniteSet(DOMAIN new \cup DOMAIN items[v])
      BY <1>7, <3>1, FS_Union
    <3> QED
      BY <1>4, <1>7, <3>1, <3>2
  <2>3. ASSUME NEW w \in DOMAIN versions'
        PROVE  /\ DOMAIN items'[w] \subseteq Nat /\ IsFiniteSet(DOMAIN items'[w])
               /\ items'[w] = [o \in DOMAIN items'[w] |-> items'[w][o]]
               /\ \A o \in DOMAIN items'[w] :
                    DOMAIN items'[w][o] = ItemFields /\ items'[w][o].mail \in arrived' /\ items'[w][o].total \in Nat
    <3>1. CASE w = v
      BY <1>1, <1>4, <2>1, <2>2, <3>1
    <3>2. CASE w # v
      <4>1. items'[w] = items[w] /\ w \in DOMAIN versions
        BY <1>1, <1>4, <3>2
      <4> QED
        BY <1>1, <1>8, <4>1
    <3> QED
      BY <3>1, <3>2
  <2> QED
    BY <2>3 DEF ItemRows
<1>10. ViewRows'
  <2>1. \A w \in DOMAIN versions : DOMAIN items[w] \subseteq DOMAIN items'[w]
    BY <1>4
  <2> QED
    BY <1>1, <2>1, ViewSame DEF TypeInv
<1>11. WorkInStep'
  <2>1. DOMAIN Candidate1.items \subseteq DOMAIN items'[worker.version]
    BY <1>4 DEF new, v
  <2> QED
    BY <1>1, <1>2, <2>1, WorkFields, WorkStays DEF TypeInv
<1>12. CountsInStep'
  BY <1>1, CountsKept DEF TypeInv
<1> QED
  BY <1>5, <1>6, <1>9, <1>10, <1>11, <1>12 DEF TypeInv

LEMMA SameDomain ==
  ASSUME NEW s, IsSeq(s), NEW t, t = [i \in DOMAIN s |-> t[i]]
  PROVE  IsSeq(t) /\ Len(t) = Len(s) /\ DOMAIN t = DOMAIN s
<1> DEFINE U == {t[j] : j \in DOMAIN t}
<1>1. Len(s) \in Nat /\ DOMAIN s = 1..Len(s)
  BY SeqIs
<1>2. DOMAIN t = 1..Len(s)
  BY <1>1
<1>3. t \in [1..Len(s) -> U]
  BY <1>1
<1>4. t \in Seq(U)
  <2> HIDE DEF U
  <2> QED
    BY <1>1, <1>3
<1>5. IsSeq(t)
  BY <1>4 DEF IsSeq
<1>6. Len(t) = Len(s)
  <2> HIDE DEF U
  <2> QED
    BY <1>1, <1>2, <1>4, LenProperties
<1> QED
  BY <1>1, <1>2, <1>5, <1>6

\* What a version inherits is the newest of those there are, if any.
LEMMA InheritedIs ==
  ASSUME TablesInStep, VersionRows, NEW s, NEW num, NEW o
  PROVE  LET S == {w \in VersionsOf(s) : versions[w].num < num /\ o \in DOMAIN items[w]} IN
           /\ S = {} => Inherited(s, num, o) = 0
           /\ S # {} => /\ Inherited(s, num, o) \in S
                        /\ Inherited(s, num, o) # 0
                        /\ \A y \in S \ {Inherited(s, num, o)} : Newer(Inherited(s, num, o), y)
<1> DEFINE S == {w \in VersionsOf(s) : versions[w].num < num /\ o \in DOMAIN items[w]}
<1>1. S \in SUBSET DOMAIN versions
  BY DEF VersionsOf
<1>2. Inherited(s, num, o) = IF S = {} THEN 0 ELSE First(S, Newer)
  BY DEF Inherited, Pick
<1>3. S # {} => First(S, Newer) \in S /\ \A y \in S \ {First(S, Newer)} : Newer(First(S, Newer), y)
  <2> HIDE DEF S
  <2> QED
    BY <1>1, NewestIs
<1>4. 0 \notin S
  BY <1>1, Domains
<1> HIDE DEF S
<1>5. QED
  BY <1>2, <1>3, <1>4 DEF S

LEMMA AssembledIs ==
  ASSUME TablesInStep, VersionRows, NEW v \in DOMAIN versions, NEW own, own \subseteq DOMAIN items[v],
         NEW o \in DOMAIN Assembled(v, own)
  PROVE  /\ Assembled(v, own)[o][1] \in VersionsOf(versions[v].series)
         /\ Assembled(v, own)[o][2] \in DOMAIN items[Assembled(v, own)[o][1]]
<1> DEFINE from == IF o \in own THEN v ELSE Inherited(versions[v].series, versions[v].num, o)
<1>1. Assembled(v, own)[o] = <<from, o>> /\ (o \in own \/ from # 0)
  BY DEF Assembled
<1>2. CASE o \in own
  BY <1>1, <1>2 DEF VersionsOf
<1>3. CASE o \notin own
  <2> DEFINE S == {w \in VersionsOf(versions[v].series) : versions[w].num < versions[v].num /\ o \in DOMAIN items[w]}
  <2>1. from = Inherited(versions[v].series, versions[v].num, o) /\ from # 0
    BY <1>1, <1>3
  <2>2. from \in S
    BY <2>1, InheritedIs
  <2> HIDE DEF from
  <2> QED
    BY <1>1, <2>2
<1> QED
  BY <1>2, <1>3

LEMMA WriteViewTypes ==
  ASSUME TypeInv, WriteView
  PROVE  TypeInv'
<1> DEFINE v == worker.version
           own == DOMAIN Candidate1.items
<1>1. UNCHANGED <<arrived, series, versions, items, slots, mapping, breaks, passes>> /\ Step("view", "flag")
  BY DEF WriteView
<1>2. worker.at \in WithVersion \ {"items"} /\ "flag" \in WithVersion \ {"items"}
  BY <1>1 DEF Step, WithVersion
<1>3. v \in DOMAIN versions /\ DOMAIN view = DOMAIN versions /\ own \subseteq DOMAIN items[v]
  BY <1>2, VersionIs, Domains DEF TypeInv, WorkInStep
<1>4. view' = [view EXCEPT ![v] = Assembled(v, own)]
  BY DEF WriteView
<1>5. view'[v] = Assembled(v, own) /\ \A w \in DOMAIN versions \ {v} : view'[w] = view[w]
  BY <1>3, <1>4
<1>6. TablesInStep'
  <2>1. IsSeq(view') /\ Len(view') = Len(view)
    <3>1. IsSeq(view)
      BY DEF TypeInv, TablesInStep
    <3> HIDE DEF v, own
    <3>2. IsSeq([view EXCEPT ![v] = Assembled(v, own)]) /\ Len([view EXCEPT ![v] = Assembled(v, own)]) = Len(view)
      BY <1>3, <3>1, ExceptIs, Zenon
    <3> QED
      BY <1>4, <3>2, Zenon
  <2> QED
    BY <1>1, <2>1 DEF TypeInv, TablesInStep
<1>7. VersionRows' /\ SeriesRows' /\ ItemRows'
  BY <1>1, VersionsSame, SeriesKept, ItemsSame DEF TypeInv
<1>8. ViewRows'
  <2> SUFFICES ASSUME NEW w \in DOMAIN versions, NEW o \in DOMAIN view'[w]
               PROVE  /\ view'[w][o][1] \in VersionsOf(versions[w].series)
                      /\ view'[w][o][2] \in DOMAIN items[view'[w][o][1]]
    BY <1>1 DEF ViewRows, VersionsOf
  <2>1. CASE w = v
    <3>1. o \in DOMAIN Assembled(v, own) /\ view'[w] = Assembled(v, own)
      BY <1>5, <2>1
    <3>2. /\ Assembled(v, own)[o][1] \in VersionsOf(versions[v].series)
          /\ Assembled(v, own)[o][2] \in DOMAIN items[Assembled(v, own)[o][1]]
      <4> HIDE DEF v, own
      <4> QED
        BY <1>3, <3>1, AssembledIs DEF TypeInv
    <3> HIDE DEF v, own
    <3> QED
      BY <2>1, <3>1, <3>2
  <2>2. CASE w # v
    BY <1>5, <2>2 DEF TypeInv, ViewRows
  <2> QED
    BY <2>1, <2>2
<1>9. WorkInStep'
  <2>1. DOMAIN Candidate1.items \subseteq DOMAIN items'[worker.version]
    BY <1>1, <1>3
  <2> QED
    BY <1>1, <1>2, <2>1, WorkFields, WorkStays DEF TypeInv
<1>10. CountsInStep'
  BY <1>1, CountsKept DEF TypeInv
<1> QED
  BY <1>6, <1>7, <1>8, <1>9, <1>10 DEF TypeInv

\* The flag alone changes.
LEMMA FlagPartialIs ==
  ASSUME TypeInv, FlagPartial
  PROVE  LET v == worker.version IN
           /\ v \in DOMAIN versions /\ IsSeq(versions') /\ Len(versions') = Len(versions)
           /\ DOMAIN versions' = DOMAIN versions
           /\ \A w \in DOMAIN versions :
                /\ DOMAIN versions'[w] = VersionFields /\ versions'[w].series = versions[w].series
                /\ versions'[w].num = versions[w].num /\ versions'[w].finger = versions[w].finger
                /\ versions'[w].sent = versions[w].sent
                /\ w # v => versions'[w] = versions[w]
           /\ versions'[v].partial = \E o \in DOMAIN view[v] : view[v][o][1] # v
<1> DEFINE v == worker.version
           flag == \E o \in DOMAIN view[v] : view[v][o][1] # v
<1>1. v \in DOMAIN versions /\ IsSeq(versions) /\ \A w \in DOMAIN versions : DOMAIN versions[w] = VersionFields
  <2>1. worker.at \in WithVersion
    BY DEF FlagPartial, Step, WithVersion
  <2> QED
    BY <2>1, VersionIs DEF TypeInv, TablesInStep, VersionRows
<1>2. versions' = [versions EXCEPT ![v] = [versions[v] EXCEPT !.partial = flag]]
  BY DEF FlagPartial
<1> HIDE DEF flag, v
<1>3. IsSeq(versions') /\ Len(versions') = Len(versions)
  BY <1>1, <1>2, ExceptIs, Zenon
<1>4. DOMAIN versions' = DOMAIN versions /\ versions'[v] = [versions[v] EXCEPT !.partial = flag]
      /\ \A w \in DOMAIN versions \ {v} : versions'[w] = versions[w]
  BY <1>1, <1>2
<1>5. /\ DOMAIN versions'[v] = VersionFields /\ versions'[v].series = versions[v].series
      /\ versions'[v].num = versions[v].num /\ versions'[v].finger = versions[v].finger
      /\ versions'[v].sent = versions[v].sent /\ versions'[v].partial = flag
  BY <1>1, <1>4 DEF VersionFields
<1> QED
  BY <1>1, <1>3, <1>4, <1>5 DEF flag, v

LEMMA FlagPartialTypes ==
  ASSUME TypeInv, FlagPartial
  PROVE  TypeInv'
<1> DEFINE v == worker.version
<1>1. UNCHANGED <<arrived, series, items, view, slots, mapping, breaks, passes>> /\ Step("flag", "plan")
  BY DEF FlagPartial
<1>2. worker.at \in WithVersion \ {"items"} /\ "plan" \in WithVersion \ {"items"}
  BY <1>1 DEF Step, WithVersion
<1>3. /\ v \in DOMAIN versions /\ IsSeq(versions') /\ Len(versions') = Len(versions)
      /\ DOMAIN versions' = DOMAIN versions
      /\ \A w \in DOMAIN versions :
           /\ DOMAIN versions'[w] = VersionFields /\ versions'[w].series = versions[w].series
           /\ versions'[w].num = versions[w].num /\ versions'[w].sent = versions[w].sent
           /\ w # v => versions'[w] = versions[w]
      /\ versions'[v].partial \in BOOLEAN
  BY FlagPartialIs
<1>4. TablesInStep'
  BY <1>1, <1>3 DEF TypeInv, TablesInStep
<1>5. VersionsKept
  BY <1>3 DEF VersionsKept
<1>6. SeriesRows'
  BY <1>1, <1>5, SeriesKept DEF TypeInv
<1>7. VersionRows'
  BY <1>1, <1>3 DEF TypeInv, VersionRows
<1>8. ItemRows'
  BY <1>1, <1>3 DEF TypeInv, ItemRows
<1>9. \A s : VersionsOf(s)' = VersionsOf(s)
  BY <1>3 DEF VersionsOf
<1>10. ViewRows'
  BY <1>1, <1>3, <1>9 DEF TypeInv, ViewRows, VersionsOf
<1>11. WorkInStep'
  <2>1. /\ DOMAIN worker' = WorkerFields /\ worker'.at = "plan" /\ worker'.todo = worker.todo
        /\ worker'.series = worker.series /\ worker'.version = worker.version /\ worker'.made = worker.made
    BY <1>1, WorkFields DEF TypeInv
  <2>2. DOMAIN Candidate1.items \subseteq DOMAIN items'[worker.version]
    BY <1>1, <1>2 DEF TypeInv, WorkInStep
  <2> QED
    BY <1>1, <1>2, <1>3, <2>1, <2>2, WorkStays DEF TypeInv
<1>12. CountsInStep'
  BY <1>1, <1>3, CountsKept DEF TypeInv
<1> QED
  BY <1>4, <1>6, <1>7, <1>8, <1>10, <1>11, <1>12 DEF TypeInv

LEMMA PlanSlotsTypes ==
  ASSUME TypeInv, NEW newestFirst, PlanSlots(newestFirst)
  PROVE  TypeInv'
<1>1. UNCHANGED <<arrived, series, versions, items, view, slots, mapping, breaks, passes>> /\ worker.at = "plan"
  BY DEF PlanSlots, tables
<1>2. worker.at \in WithVersion \ {"items"} /\ "slots" \in WithVersion \ {"items"}
  BY <1>1 DEF WithVersion
<1>3. TablesInStep' /\ SeriesRows' /\ VersionRows' /\ ItemRows' /\ ViewRows'
  BY <1>1, SameTables DEF TypeInv, TablesInStep
<1>4. WorkInStep'
  <2> DEFINE plan == Plan(worker.series, newestFirst)
  <2>1. worker' = [worker EXCEPT !.at = "slots", !.plan = plan, !.left = DOMAIN plan.titles]
    BY DEF PlanSlots
  <2> HIDE DEF plan
  <2>2. /\ DOMAIN worker' = WorkerFields /\ worker'.at = "slots" /\ worker'.todo = worker.todo
        /\ worker'.series = worker.series /\ worker'.version = worker.version /\ worker'.made = worker.made
    BY <2>1 DEF TypeInv, WorkInStep, WorkerFields
  <2>3. DOMAIN Candidate1.items \subseteq DOMAIN items'[worker.version]
    BY <1>1, <1>2 DEF TypeInv, WorkInStep
  <2> QED
    BY <1>1, <1>2, <2>2, <2>3, WorkStays DEF TypeInv
<1>5. CountsInStep'
  BY <1>1, CountsKept DEF TypeInv
<1> QED
  BY <1>3, <1>4, <1>5 DEF TypeInv

LEMMA WriteSlotTypes ==
  ASSUME TypeInv, WriteSlot
  PROVE  TypeInv'
<1> DEFINE k == Min(worker.left)
           row == slots[worker.series] @@ (k :> worker.plan.titles[k])
<1>1. UNCHANGED <<arrived, series, versions, items, view, mapping, breaks, passes>> /\ worker.at = "slots"
  BY DEF WriteSlot
<1>2. worker.at \in WithVersion \ {"items"} /\ "slots" \in WithVersion \ {"items"}
  BY <1>1 DEF WithVersion
<1>3. SeriesRows' /\ VersionRows' /\ ItemRows' /\ ViewRows'
  BY <1>1, SameTables
<1>4. slots' = [slots EXCEPT ![worker.series] = row] /\ worker' = [worker EXCEPT !.left = @ \ {k}]
  BY DEF WriteSlot
<1> HIDE DEF row, k
<1>5. TablesInStep'
  <2>1. IsSeq(slots) /\ worker.series \in DOMAIN slots
    BY <1>2, VersionIs, Domains DEF TypeInv, TablesInStep
  <2>2. IsSeq(slots') /\ Len(slots') = Len(slots)
    BY <1>4, <2>1, ExceptIs, Zenon
  <2> QED
    BY <1>1, <2>2 DEF TypeInv, TablesInStep
<1>6. WorkInStep'
  <2>1. /\ DOMAIN worker' = WorkerFields /\ worker'.at = "slots" /\ worker'.todo = worker.todo
        /\ worker'.series = worker.series /\ worker'.version = worker.version /\ worker'.made = worker.made
    BY <1>1, <1>4 DEF TypeInv, WorkInStep, WorkerFields
  <2>2. DOMAIN Candidate1.items \subseteq DOMAIN items'[worker.version]
    BY <1>1, <1>2 DEF TypeInv, WorkInStep
  <2> QED
    BY <1>1, <1>2, <2>1, <2>2, WorkStays DEF TypeInv
<1>7. CountsInStep'
  BY <1>1, CountsKept DEF TypeInv
<1> QED
  BY <1>3, <1>5, <1>6, <1>7 DEF TypeInv

LEMMA WriteMappingTypes ==
  ASSUME TypeInv, WriteMapping
  PROVE  TypeInv'
<1>1. UNCHANGED <<arrived, series, versions, items, view, slots, breaks, passes>> /\ Step("slots", "touch")
  BY DEF WriteMapping
<1>2. worker.at \in WithVersion \ {"items"} /\ "touch" \in WithVersion \ {"items"}
  BY <1>1 DEF Step, WithVersion
<1>3. SeriesRows' /\ VersionRows' /\ ItemRows' /\ ViewRows'
  BY <1>1, SameTables
<1>4. TablesInStep'
  <2>1. IsSeq(mapping) /\ worker.series \in DOMAIN mapping
    BY <1>2, VersionIs, Domains DEF TypeInv, TablesInStep
  <2>2. mapping' = [mapping EXCEPT ![worker.series] = worker.plan.map]
    BY DEF WriteMapping
  <2>3. IsSeq(mapping') /\ Len(mapping') = Len(mapping)
    BY <2>1, <2>2, ExceptIs, Zenon
  <2> QED
    BY <1>1, <2>3 DEF TypeInv, TablesInStep
<1>5. WorkInStep'
  <2>1. DOMAIN Candidate1.items \subseteq DOMAIN items'[worker.version]
    BY <1>1, <1>2 DEF TypeInv, WorkInStep
  <2> QED
    BY <1>1, <1>2, <2>1, WorkFields, WorkStays DEF TypeInv
<1>6. CountsInStep'
  BY <1>1, CountsKept DEF TypeInv
<1> QED
  BY <1>3, <1>4, <1>5, <1>6 DEF TypeInv

LEMMA PairMax ==
  ASSUME NEW a \in Nat, NEW b \in Nat
  PROVE  Max({a, b}) \in {a, b} /\ a =< Max({a, b}) /\ b =< Max({a, b})
<1>1. IsFiniteSet({a, b})
  <2>1. {a, b} = {a} \cup {b}
    OBVIOUS
  <2>2. IsFiniteSet({a} \cup {b})
    BY FS_Singleton, FS_Union
  <2> QED
    BY <2>1, <2>2
<1>2. {a, b} \in SUBSET Nat /\ {a, b} # {}
  OBVIOUS
<1> QED
  BY <1>1, <1>2, MaxIn

LEMMA SeqsAre ==
  ASSUME NEW S, NEW s \in Seq(S)
  PROVE  IsSeq(s)
<1> DEFINE U == {s[i] : i \in DOMAIN s}
<1>1. Len(s) \in Nat /\ s \in [1..Len(s) -> S] /\ DOMAIN s = 1..Len(s)
  BY LenProperties
<1>2. s \in [1..Len(s) -> U]
  BY <1>1
<1>3. s \in Seq(U)
  <2> HIDE DEF U
  <2> QED
    BY <1>1, <1>2
<1> QED
  BY <1>3 DEF IsSeq

\* The series of a candidate is touched, and the pass turns to what is left of it.
LEMMA TouchIs ==
  ASSUME TypeInv, Touch
  PROVE  LET c == Candidate1
             s == worker.series
             v == worker.version
         IN /\ s \in DOMAIN series /\ DOMAIN series' = DOMAIN series
            /\ IsSeq(series') /\ Len(series') = Len(series)
            /\ \A r \in DOMAIN series :
                 /\ DOMAIN series'[r] = SeriesFields /\ series'[r].subject = series[r].subject
                 /\ series'[r].author = series[r].author /\ series'[r].change = series[r].change
                 /\ r # s => series'[r] = series[r]
            /\ series'[s].seen \in {series[s].seen, c.sent}
            /\ series'[s].seen >= series[s].seen /\ series'[s].seen >= c.sent
            /\ series'[s].latest = IF Leads(v, series[s].latest) THEN v ELSE series[s].latest
            /\ DOMAIN worker' = WorkerFields /\ worker'.made = worker.made /\ worker'.version = 0
            /\ \/ worker'.at = "enrich" /\ worker'.todo = Tail(worker.todo) /\ Len(worker.todo) = 1
               \/ worker'.at = "series" /\ worker'.todo = Tail(worker.todo) /\ Len(worker.todo) # 1
<1> DEFINE c == Candidate1
           s == worker.series
           v == worker.version
           high == Max({series[s].seen, c.sent})
           first == IF Leads(v, series[s].latest) THEN v ELSE series[s].latest
           row == [series[s] EXCEPT !.seen = high, !.latest = first]
<1>1. worker.at \in WithVersion
  BY DEF Touch, WithVersion
<1>2. /\ s \in DOMAIN series /\ CandidateOf(arrived, c) /\ IsSeq(series)
      /\ \A r \in DOMAIN series : DOMAIN series[r] = SeriesFields /\ series[r].seen \in Nat
  BY <1>1, VersionIs DEF TypeInv, TablesInStep, SeriesRows
<1>3. series' = [series EXCEPT ![s] = row]
  <2>1. series' = [series EXCEPT ![s].seen = Max({@, c.sent}), ![s].latest = IF Leads(v, @) THEN v ELSE @]
    BY DEF Touch
  <2>2. DOMAIN series[s] = SeriesFields
    BY <1>2
  <2> HIDE DEF c, v
  <2> QED
    BY <1>2, <2>1, <2>2 DEF SeriesFields
<1>4. high \in {series[s].seen, c.sent} /\ high >= series[s].seen /\ high >= c.sent
  <2>1. series[s].seen \in Nat /\ c.sent \in Nat
    BY <1>2 DEF CandidateOf
  <2> HIDE DEF c, s
  <2> QED
    BY <2>1, PairMax
<1>5. DOMAIN row = SeriesFields /\ row.subject = series[s].subject /\ row.author = series[s].author
      /\ row.change = series[s].change /\ row.seen = high /\ row.latest = first
  <2>1. DOMAIN series[s] = SeriesFields
    BY <1>2
  <2> HIDE DEF high, first, s
  <2> QED
    BY <2>1 DEF SeriesFields
<1>6. /\ DOMAIN worker' = WorkerFields /\ worker'.made = worker.made /\ worker'.version = 0
      /\ worker'.todo = Tail(worker.todo)
      /\ worker'.at = IF Len(worker.todo) = 1 THEN "enrich" ELSE "series"
  <2>1. worker' = [Idle EXCEPT !.at = IF Len(worker.todo) = 1 THEN "enrich" ELSE "series",
                !.todo = Tail(worker.todo), !.whole = worker.whole, !.made = worker.made,
                !.written = worker.written \cup {<<v, o>> : o \in Patches(c)}]
    BY DEF Touch
  <2> HIDE DEF v, c
  <2> QED
    BY <2>1, IdleIs DEF WorkerFields
<1> HIDE DEF row, high, first, c, s, v
<1>7. IsSeq(series') /\ Len(series') = Len(series)
  BY <1>2, <1>3, ExceptIs, Zenon
<1>8. DOMAIN series' = DOMAIN series /\ series'[s] = row /\ \A r \in DOMAIN series \ {s} : series'[r] = series[r]
  BY <1>2, <1>3
<1>9. \A r \in DOMAIN series :
        /\ DOMAIN series'[r] = SeriesFields /\ series'[r].subject = series[r].subject
        /\ series'[r].author = series[r].author /\ series'[r].change = series[r].change
        /\ r # s => series'[r] = series[r]
  BY <1>2, <1>5, <1>8
<1> QED
  BY <1>2, <1>4, <1>5, <1>6, <1>7, <1>8, <1>9 DEF first, c, s, v

LEMMA TouchTypes ==
  ASSUME TypeInv, Touch
  PROVE  TypeInv'
<1> DEFINE c == Candidate1
           s == worker.series
           v == worker.version
<1>1. UNCHANGED <<arrived, versions, items, view, slots, mapping, breaks, passes>> /\ worker.at \in WithVersion
  BY DEF Touch, WithVersion
<1>2. /\ v \in VersionsOf(s) /\ CandidateOf(arrived, c) /\ worker.todo # <<>>
  BY <1>1, VersionIs DEF TypeInv, VersionsOf
<1>3. /\ s \in DOMAIN series /\ DOMAIN series' = DOMAIN series
      /\ IsSeq(series') /\ Len(series') = Len(series)
      /\ \A r \in DOMAIN series : DOMAIN series'[r] = SeriesFields /\ (r # s => series'[r] = series[r])
      /\ series'[s].seen \in {series[s].seen, c.sent}
      /\ series'[s].latest \in {v, series[s].latest}
      /\ DOMAIN worker' = WorkerFields /\ worker'.made = worker.made /\ worker'.version = 0
      /\ worker'.todo = Tail(worker.todo)
      /\ \/ worker'.at = "enrich"
         \/ worker'.at = "series" /\ Len(worker.todo) # 1
  BY TouchIs
<1>4. TablesInStep'
  BY <1>1, <1>3 DEF TypeInv, TablesInStep
<1>5. VersionRows' /\ ItemRows'
  BY <1>1, <1>3, VersionsSame, ItemsSame DEF TypeInv
<1>6. ViewRows'
  BY <1>1, ViewSame DEF TypeInv
<1>7. SeriesRows'
  <2> SUFFICES ASSUME NEW r \in DOMAIN series
               PROVE  /\ DOMAIN series'[r] = SeriesFields /\ series'[r].seen \in Nat
                      /\ \E m \in arrived : series'[r].seen = Mail[m].sent
                      /\ series'[r].latest \in {0} \cup VersionsOf(r)
    BY <1>1, <1>3 DEF SeriesRows, VersionsOf
  <2>1. /\ series[r].seen \in Nat /\ \E m \in arrived : series[r].seen = Mail[m].sent
        /\ series[r].latest \in {0} \cup VersionsOf(r)
    BY DEF TypeInv, SeriesRows
  <2>2. c.sent \in Nat /\ \E m \in arrived : c.sent = Mail[m].sent
    BY <1>2 DEF CandidateOf
  <2> HIDE DEF c, s, v
  <2>3. CASE r # s
    BY <1>3, <2>1, <2>3
  <2>4. CASE r = s
    BY <1>2, <1>3, <2>1, <2>2, <2>4
  <2> QED
    BY <2>3, <2>4
<1>8. WorkInStep'
  <2> DEFINE todo == worker.todo
             S == {todo[i] : i \in DOMAIN todo}
  <2>1. /\ todo \in Seq(S)
        /\ \A i \in DOMAIN todo : CandidateOf(arrived, todo[i])
        /\ \A i, j \in DOMAIN todo : i < j => todo[i].sent =< todo[j].sent
        /\ worker.made \subseteq DOMAIN versions
    BY DEF TypeInv, WorkInStep, IsSeq
  <2>2. /\ Tail(todo) \in Seq(S) /\ (Len(todo) # 1 => Tail(todo) # <<>>)
        /\ \A i \in DOMAIN Tail(todo) : i + 1 \in DOMAIN todo /\ Tail(todo)[i] = todo[i + 1]
    <3> HIDE DEF S
    <3> QED
      BY <1>2, <2>1, TailIs
  <2>3. IsSeq(Tail(todo)) /\ DOMAIN Tail(todo) \subseteq Nat
    <3> HIDE DEF S
    <3>1. DOMAIN Tail(todo) = 1..Len(Tail(todo))
      BY <2>2, LenProperties
    <3>2. IsSeq(Tail(todo))
      BY <2>2, SeqsAre, Zenon
    <3> QED
      BY <3>1, <3>2
  <2>4. \A i, j \in DOMAIN Tail(todo) : i < j => Tail(todo)[i].sent =< Tail(todo)[j].sent
    <3> SUFFICES ASSUME NEW i \in DOMAIN Tail(todo), NEW j \in DOMAIN Tail(todo), i < j
                 PROVE  Tail(todo)[i].sent =< Tail(todo)[j].sent
      OBVIOUS
    <3>1. i + 1 < j + 1
      BY <2>3
    <3> HIDE DEF todo
    <3> QED
      BY <2>1, <2>2, <3>1
  <2>5. \A i \in DOMAIN Tail(todo) : CandidateOf(arrived', Tail(todo)[i])
    BY <1>1, <2>1, <2>2
  <2> HIDE DEF S
  <2> QED
    BY <1>1, <1>3, <2>1, <2>2, <2>3, <2>4, <2>5, IdleIs DEF WorkInStep
<1>9. CountsInStep'
  BY <1>1, CountsKept DEF TypeInv
<1> QED
  BY <1>4, <1>5, <1>6, <1>7, <1>8, <1>9 DEF TypeInv

\* Between passes nothing is under way.
LEMMA IdleWork ==
  ASSUME TypeInv, DOMAIN worker' = WorkerFields, worker'.at = "idle", worker'.todo = <<>>,
         worker'.version = 0, worker'.made \subseteq DOMAIN versions'
  PROVE  WorkInStep'
<1>1. IsSeq(<<>>) /\ DOMAIN <<>> = {}
  <2>1. <<>> \in Seq({})
    BY EmptySeq
  <2> QED
    BY <2>1, SeqsAre, EmptyRows
<1> QED
  BY <1>1, IdleIs DEF WorkInStep

\* The two steps of the enrichment write patch ids into rows that are there, and nothing else.
Enriches == Hydrate \/ ComputePatchIds

LEMMA PatchIdsIs ==
  ASSUME TypeInv, Enriches
  PROVE  /\ IsSeq(items') /\ Len(items') = Len(items)
         /\ \A v \in DOMAIN versions :
              /\ DOMAIN items'[v] = DOMAIN items[v] /\ items'[v] = [o \in DOMAIN items'[v] |-> items'[v][o]]
              /\ \A o \in DOMAIN items[v] :
                   /\ DOMAIN items'[v][o] = ItemFields
                   /\ items'[v][o].mail = items[v][o].mail /\ items'[v][o].total = items[v][o].total
<1>1. PICK facts \in BOOLEAN : items' = PatchIds(facts)
  BY DEF Enriches, Hydrate, ComputePatchIds
<1> DEFINE row(v, o) == IF <<v, o>> \in worker.written /\ Mail[items[v][o].mail].facts = facts
                        THEN [items[v][o] EXCEPT !.patch = Mail[items[v][o].mail].patch]
                        ELSE items[v][o]
<1>2. items' = [v \in DOMAIN items |-> [o \in DOMAIN items[v] |-> row(v, o)]]
  BY <1>1 DEF PatchIds
<1>3. \A v \in DOMAIN versions : \A o \in DOMAIN items[v] : DOMAIN items[v][o] = ItemFields
  BY DEF TypeInv, ItemRows
<1>4. ASSUME NEW v \in DOMAIN versions, NEW o \in DOMAIN items[v]
      PROVE  /\ DOMAIN row(v, o) = ItemFields
             /\ row(v, o).mail = items[v][o].mail /\ row(v, o).total = items[v][o].total
  <2>1. DOMAIN items[v][o] = ItemFields
    BY <1>3
  <2> QED
    BY <2>1 DEF ItemFields
<1>5. IsSeq(items) /\ DOMAIN items = DOMAIN versions
  BY Domains DEF TypeInv, TablesInStep
<1> HIDE DEF row
<1>6. /\ \A v \in DOMAIN versions : items'[v] = [o \in DOMAIN items[v] |-> row(v, o)]
      /\ items' = [v \in DOMAIN items |-> items'[v]]
  BY <1>2, <1>5
<1>7. IsSeq(items') /\ Len(items') = Len(items)
  BY <1>5, <1>6, SameDomain, Zenon
<1>8. ASSUME NEW v \in DOMAIN versions
      PROVE  /\ DOMAIN items'[v] = DOMAIN items[v] /\ items'[v] = [o \in DOMAIN items'[v] |-> items'[v][o]]
             /\ \A o \in DOMAIN items[v] :
                  /\ DOMAIN items'[v][o] = ItemFields
                  /\ items'[v][o].mail = items[v][o].mail /\ items'[v][o].total = items[v][o].total
  <2>1. items'[v] = [o \in DOMAIN items[v] |-> row(v, o)]
    BY <1>6
  <2>2. DOMAIN items'[v] = DOMAIN items[v] /\ \A o \in DOMAIN items[v] : items'[v][o] = row(v, o)
    BY <2>1
  <2>3. items'[v] = [o \in DOMAIN items'[v] |-> items'[v][o]]
    BY <2>1
  <2> QED
    BY <1>4, <2>2, <2>3
<1> QED
  BY <1>7, <1>8

LEMMA EnrichTypes ==
  ASSUME TypeInv, Enriches
  PROVE  TypeInv'
<1>1. UNCHANGED <<arrived, series, versions, view, slots, mapping, breaks, passes>>
  BY DEF Enriches, Hydrate, ComputePatchIds
<1>2. TablesInStep'
  BY <1>1, PatchIdsIs DEF TypeInv, TablesInStep
<1>3. VersionRows' /\ SeriesRows'
  BY <1>1, VersionsSame, SeriesKept DEF TypeInv
<1>4. ItemRows'
  <2> SUFFICES ASSUME NEW v \in DOMAIN versions
               PROVE  /\ DOMAIN items'[v] \subseteq Nat /\ IsFiniteSet(DOMAIN items'[v])
                      /\ items'[v] = [o \in DOMAIN items'[v] |-> items'[v][o]]
                      /\ \A o \in DOMAIN items'[v] :
                           DOMAIN items'[v][o] = ItemFields /\ items'[v][o].mail \in arrived /\ items'[v][o].total \in Nat
    BY <1>1 DEF ItemRows
  <2>1. /\ DOMAIN items[v] \subseteq Nat /\ IsFiniteSet(DOMAIN items[v])
        /\ \A o \in DOMAIN items[v] : items[v][o].mail \in arrived /\ items[v][o].total \in Nat
    BY DEF TypeInv, ItemRows
  <2> QED
    BY <2>1, PatchIdsIs
<1>5. ViewRows'
  <2>1. \A v \in DOMAIN versions : DOMAIN items[v] \subseteq DOMAIN items'[v]
    BY PatchIdsIs
  <2> QED
    BY <1>1, <2>1, ViewSame DEF TypeInv
<1>6. WorkInStep'
  <2>1. CASE Hydrate
    <3>1. /\ DOMAIN worker' = WorkerFields /\ worker'.at = "diffs" /\ worker.at = "enrich"
          /\ worker'.todo = worker.todo /\ worker'.version = worker.version /\ worker'.made = worker.made
      BY <2>1, WorkFields DEF Hydrate, TypeInv
    <3> QED
      BY <1>1, <3>1, IdleIs DEF TypeInv, WorkInStep
  <2>2. CASE ComputePatchIds
    <3>1. /\ DOMAIN worker' = WorkerFields /\ worker'.at = "idle" /\ worker'.todo = <<>>
          /\ worker'.version = 0 /\ worker'.made = worker.made
      BY <2>2, IdleIs DEF ComputePatchIds, WorkerFields
    <3> QED
      BY <1>1, <3>1, IdleWork DEF TypeInv, WorkInStep
  <2> QED
    BY <2>1, <2>2 DEF Enriches
<1>7. CountsInStep'
  BY <1>1, CountsKept DEF TypeInv
<1> QED
  BY <1>2, <1>3, <1>4, <1>5, <1>6, <1>7 DEF TypeInv

LEMMA BreakTypes ==
  ASSUME TypeInv, Break
  PROVE  TypeInv'
<1> DEFINE e == IF worker.at = "items" /\ DOMAIN items[worker.version] = {} THEN worker.version ELSE 0
<1>1. UNCHANGED <<arrived, series, versions, items, view, slots, mapping, passes>>
      /\ worker' = Idle /\ breaks' = Append(breaks, e) /\ Len(breaks) < BreakBound
  BY DEF Break, tables
<1>2. TablesInStep' /\ SeriesRows' /\ VersionRows' /\ ItemRows' /\ ViewRows'
  BY <1>1, SameTables DEF TypeInv, TablesInStep
<1>3. WorkInStep'
  BY <1>1, IdleIs, IdleWork
<1>4. CountsInStep'
  <2>1. e \in {0} \cup DOMAIN versions
    BY VersionIs, IdleIs
  <2>2. /\ IsSeq(breaks) /\ Len(breaks) \in 0..BreakBound /\ passes \in 0..PassBound
        /\ \A i \in DOMAIN breaks : breaks[i] \in {0} \cup DOMAIN versions
    BY DEF TypeInv, CountsInStep
  <2> HIDE DEF e
  <2>3. /\ IsSeq(Append(breaks, e)) /\ Len(Append(breaks, e)) = Len(breaks) + 1
        /\ DOMAIN Append(breaks, e) = DOMAIN breaks \cup {Len(breaks) + 1}
        /\ Append(breaks, e)[Len(breaks) + 1] = e
        /\ \A i \in DOMAIN breaks : Append(breaks, e)[i] = breaks[i]
    BY <2>2, AppendIs, Zenon
  <2>4. Len(breaks') \in 0..BreakBound
    BY <1>1, <2>2, <2>3, BoundAssumption
  <2>5. \A i \in DOMAIN breaks' : breaks'[i] \in {0} \cup DOMAIN versions'
    <3>1. \A i \in DOMAIN Append(breaks, e) : Append(breaks, e)[i] \in {0} \cup DOMAIN versions
      BY <2>1, <2>2, <2>3, Zenon
    <3> QED
      BY <1>1, <3>1
  <2>6. IsSeq(breaks')
    BY <1>1, <2>3, Zenon
  <2> QED
    BY <1>1, <2>2, <2>4, <2>5, <2>6 DEF CountsInStep
<1> QED
  BY <1>2, <1>3, <1>4 DEF TypeInv

\* A step that changes nothing.
LEMMA StutterTypes ==
  ASSUME TypeInv, UNCHANGED vars
  PROVE  TypeInv'
<1>1. UNCHANGED <<arrived, series, versions, items, view, slots, mapping, worker, breaks, passes>>
  BY DEF vars, tables
<1>2. TablesInStep' /\ SeriesRows' /\ VersionRows' /\ ItemRows' /\ ViewRows'
  BY <1>1, SameTables DEF TypeInv, TablesInStep
<1> QED
  BY <1>1, <1>2 DEF TypeInv, WorkInStep, CountsInStep, VersionsOf, Candidate1

LEMMA TypesStay ==
  ASSUME TypeInv, [Next]_vars
  PROVE  TypeInv'
<1>1. CASE Next
  BY <1>1, ArriveTypes, BeginTypes, FindSeriesTypes, WriteVersionTypes, WriteItemsTypes, WriteViewTypes,
     FlagPartialTypes, PlanSlotsTypes, WriteSlotTypes, WriteMappingTypes, TouchTypes, EnrichTypes,
     BreakTypes DEF Next, Enriches
<1> QED
  BY <1>1, StutterTypes

LEMMA TypesHold == Spec => []TypeInv
<1>1. TypeInv /\ [Next]_vars => TypeInv'
  BY TypesStay
<1> QED
  BY <1>1, TypesFromStart, PTL DEF Spec

\* Rows refer to rows that are there, and the view of a version to versions of its series.
THEOREM TypeCorrect == Spec => []TypeOK
<1>1. TypeInv => TypeOK
  <2> SUFFICES ASSUME TypeInv PROVE TypeOK
    OBVIOUS
  <2>1. /\ DOMAIN slots = DOMAIN series /\ DOMAIN mapping = DOMAIN series
        /\ DOMAIN items = DOMAIN versions /\ DOMAIN view = DOMAIN versions
    BY Domains DEF TypeInv
  <2>2. Len(breaks) \in 0..BreakBound /\ Range(breaks) \subseteq {0} \cup DOMAIN versions /\ passes \in 0..PassBound
    BY DEF TypeInv, CountsInStep, Range
  <2>3. \A s \in DOMAIN series : series[s].latest \in {0} \cup VersionsOf(s)
    BY DEF TypeInv, SeriesRows
  <2>4. ASSUME NEW v \in DOMAIN versions
        PROVE  /\ versions[v].series \in DOMAIN series /\ versions[v].partial \in BOOLEAN
               /\ \A o \in DOMAIN items[v] : items[v][o].mail \in arrived
               /\ \A p \in Range(view[v]) :
                    p[1] \in VersionsOf(versions[v].series) /\ p[2] \in DOMAIN items[p[1]]
    <3>1. \A p \in Range(view[v]) : p[1] \in VersionsOf(versions[v].series) /\ p[2] \in DOMAIN items[p[1]]
      BY DEF TypeInv, ViewRows, Range
    <3> QED
      BY <3>1 DEF TypeInv, VersionRows, ItemRows
  <2>5. arrived \subseteq DOMAIN Mail
    BY DEF TypeInv, TablesInStep
  <2> QED
    BY <2>1, <2>2, <2>3, <2>4, <2>5 DEF TypeOK
<1> QED
  BY <1>1, TypesHold, PTL

-----------------------------------------------------------------------------
(* One series of a subject for an author, and the latest version of a series. *)

\* The step of a series that is there keeps its name; only a candidate makes one.
LEMMA NamesKept ==
  ASSUME TypeInv, [Next]_vars, ~FindSeries
  PROVE  /\ DOMAIN series' = DOMAIN series
         /\ \A s \in DOMAIN series :
              series'[s].subject = series[s].subject /\ series'[s].author = series[s].author
<1>1. CASE Touch
  BY <1>1, TouchIs
<1>2. CASE ~Touch
  <2>1. series' = series
    BY <1>2 DEF Next, vars, tables, Arrive, Begin, FindSeries, WriteVersion, WriteItems, WriteView,
       FlagPartial, PlanSlots, WriteSlot, WriteMapping, Hydrate, ComputePatchIds, Break
  <2> QED
    BY <2>1
<1> QED
  BY <1>1, <1>2

\* The mail is of ten years, which is how far the lookup before a new series goes.
TenYears == \A m, n \in DOMAIN Mail : Mail[m].sent =< Mail[n].sent + 3650

\* Resolve finds every series of the author and the subject, so that none is made beside it.
LEMMA TwinsStay ==
  ASSUME TenYears, TypeInv, NoTwinSeries, [Next]_vars
  PROVE  NoTwinSeries'
<1>1. CASE ~FindSeries
  BY <1>1, NamesKept DEF NoTwinSeries
<1>2. CASE FindSeries
  <2> DEFINE c == Candidate1
             row == [subject |-> c.subject, author |-> c.author, change |-> c.change,
                     seen |-> c.sent, latest |-> 0]
  <2>1. /\ CandidateOf(arrived, c)
        /\ DOMAIN series \subseteq DOMAIN series' /\ \A r \in DOMAIN series : series'[r] = series[r]
        /\ \A r \in DOMAIN series' \ DOMAIN series : series'[r] = row
        /\ DOMAIN series' \ DOMAIN series # {} =>
             Resolve(c) = 0 /\ DOMAIN series' = DOMAIN series \cup {Len(series) + 1}
    BY <1>2, FindSeriesIs
  <2>2. row.subject = c.subject /\ row.author = c.author
    OBVIOUS
  <2>3. ASSUME NEW s \in DOMAIN series, Resolve(c) = 0
        PROVE  ~(series[s].subject = c.subject /\ series[s].author = c.author)
    <3>1. Fallback(c) = {}
      BY <2>1, <2>3, ResolveIs DEF TypeInv
    <3>2. PICK m \in arrived : c.sent = Mail[m].sent
      BY <2>1 DEF CandidateOf
    <3>3. PICK n \in arrived : series[s].seen = Mail[n].sent
      BY DEF TypeInv, SeriesRows
    <3>4. Mail[m].sent \in Nat /\ Mail[n].sent \in Nat /\ m \in DOMAIN Mail /\ n \in DOMAIN Mail
      BY MailType DEF TypeInv, TablesInStep, Letters
    <3>5. series[s].seen \in (c.sent - 3650)..(c.sent + 3650)
      BY <3>2, <3>3, <3>4 DEF TenYears
    <3> QED
      BY <3>1, <3>5 DEF Fallback, SameAuthor, Similar
  <2> HIDE DEF c, row
  <2> SUFFICES ASSUME NEW s \in DOMAIN series', NEW r \in DOMAIN series',
                      series'[s].subject = series'[r].subject, series'[s].author = series'[r].author
               PROVE  s = r
    BY DEF NoTwinSeries
  <2>4. CASE s \in DOMAIN series /\ r \in DOMAIN series
    BY <2>1, <2>4 DEF NoTwinSeries
  <2>5. CASE s \notin DOMAIN series /\ r \notin DOMAIN series
    BY <2>1, <2>5
  <2>6. CASE s \in DOMAIN series /\ r \notin DOMAIN series
    BY <2>1, <2>2, <2>3, <2>6
  <2>7. CASE s \notin DOMAIN series /\ r \in DOMAIN series
    BY <2>1, <2>2, <2>3, <2>7
  <2> QED
    BY <2>4, <2>5, <2>6, <2>7
<1> QED
  BY <1>1, <1>2

\* An author has one series of a subject, whatever breaks off and is repeated and whichever
\* threads are processed in which order, for mail of ten years.
THEOREM OneSeriesEach == ASSUME TenYears PROVE Spec => []NoTwinSeries
<1>1. Init => NoTwinSeries
  BY DEF Init, NoTwinSeries
<1>2. TypeInv /\ NoTwinSeries /\ [Next]_vars => NoTwinSeries'
  BY TwinsStay
<1> QED
  BY <1>1, <1>2, TypesHold, PTL DEF Spec

\* Every version is behind the latest of its series, but the one the pass is at.
LatestLeads ==
  breaks = <<>> => \A v \in DOMAIN versions \ {worker.version} :
    LET latest == series[versions[v].series].latest
    IN  latest # 0 /\ versions[latest].num >= versions[v].num

\* Rows that are there keep their series and number.
LEMMA NumbersKept ==
  ASSUME TypeInv, [Next]_vars
  PROVE  /\ DOMAIN versions \subseteq DOMAIN versions'
         /\ \A v \in DOMAIN versions :
              versions'[v].series = versions[v].series /\ versions'[v].num = versions[v].num
<1>1. CASE WriteVersion
  <2> DEFINE c == Candidate1
             v == worker'.version
             low == Min({versions[v].sent, c.sent})
             row == [series |-> worker.series, num |-> c.version, finger |-> Fingerprint(c),
                     sent |-> c.sent, partial |-> FALSE]
  <2>1. \/ /\ v \in SameVersions(worker.series, c)
           /\ versions' = [versions EXCEPT ![v] = [versions[v] EXCEPT !.sent = low]]
        \/ versions' = Append(versions, row)
    BY <1>1, WriteVersionIs
  <2> HIDE DEF low, row, c
  <2>2. ASSUME v \in SameVersions(worker.series, c),
               versions' = [versions EXCEPT ![v] = [versions[v] EXCEPT !.sent = low]]
        PROVE  /\ DOMAIN versions \subseteq DOMAIN versions'
               /\ \A w \in DOMAIN versions :
                    versions'[w].series = versions[w].series /\ versions'[w].num = versions[w].num
    <3>1. v \in DOMAIN versions
      BY <2>2 DEF SameVersions, VersionsOf
    <3>2. DOMAIN versions[v] = VersionFields
      BY <3>1 DEF TypeInv, VersionRows
    <3> HIDE DEF v
    <3> QED
      BY <2>2, <3>1, <3>2 DEF VersionFields
  <2>3. ASSUME versions' = Append(versions, row)
        PROVE  /\ DOMAIN versions \subseteq DOMAIN versions'
               /\ \A w \in DOMAIN versions : versions'[w] = versions[w]
    <3>1. /\ DOMAIN Append(versions, row) = DOMAIN versions \cup {Len(versions) + 1}
          /\ \A w \in DOMAIN versions : Append(versions, row)[w] = versions[w]
      BY AppendIs, Zenon DEF TypeInv, TablesInStep
    <3> QED
      BY <2>3, <3>1
  <2> QED
    BY <2>1, <2>2, <2>3
<1>2. CASE FlagPartial
  BY <1>2, FlagPartialIs
<1>3. CASE ~WriteVersion /\ ~FlagPartial
  <2>1. versions' = versions
    BY <1>3 DEF Next, vars, tables, Arrive, Begin, FindSeries, WriteItems, WriteView,
       PlanSlots, WriteSlot, WriteMapping, Touch, Hydrate, ComputePatchIds, Break
  <2> QED
    BY <2>1
<1> QED
  BY <1>1, <1>2, <1>3

\* The version the pass is at changes when a row is written and after the series is touched.
LEMMA VersionKept ==
  ASSUME TypeInv, [Next]_vars, ~WriteVersion, ~Touch, ~Break
  PROVE  worker'.version = worker.version /\ breaks' = breaks
<1>1. CASE Arrive(CHOOSE m \in DOMAIN Mail : Arrive(m)) \/ UNCHANGED vars
  BY <1>1 DEF Arrive, vars
<1>2. ASSUME NEW threads \in SUBSET Threads, Begin(threads)
      PROVE  worker'.version = worker.version /\ breaks' = breaks
  <2>1. worker.version = 0 /\ worker'.version = 0
    BY <1>2, IdleIs DEF Begin, TypeInv, WorkInStep, Idle
  <2> QED
    BY <1>2, <2>1 DEF Begin
<1>3. CASE FindSeries
  BY <1>3, FindSeriesIs DEF FindSeries
<1>4. CASE WriteItems \/ WriteView \/ FlagPartial \/ WriteMapping \/ Hydrate
  BY <1>4, WorkFields DEF TypeInv, WriteItems, WriteView, FlagPartial, WriteMapping, Hydrate
<1>5. ASSUME NEW newestFirst, PlanSlots(newestFirst)
      PROVE  worker'.version = worker.version /\ breaks' = breaks
  <2> DEFINE plan == Plan(worker.series, newestFirst)
  <2>1. worker' = [worker EXCEPT !.at = "slots", !.plan = plan, !.left = DOMAIN plan.titles]
    BY <1>5 DEF PlanSlots
  <2> HIDE DEF plan
  <2> QED
    BY <1>5, <2>1 DEF TypeInv, WorkInStep, WorkerFields, PlanSlots
<1>6. CASE WriteSlot
  <2> DEFINE k == Min(worker.left)
  <2>1. worker' = [worker EXCEPT !.left = @ \ {k}]
    BY <1>6 DEF WriteSlot
  <2> HIDE DEF k
  <2> QED
    BY <1>6, <2>1 DEF TypeInv, WorkInStep, WorkerFields, WriteSlot
<1>7. CASE ComputePatchIds
  <2>1. worker.version = 0 /\ worker'.version = 0
    BY <1>7, IdleIs DEF ComputePatchIds, TypeInv, WorkInStep, Idle
  <2> QED
    BY <1>7, <2>1 DEF ComputePatchIds
<1>8. CASE \E m \in DOMAIN Mail : Arrive(m)
  BY <1>8 DEF Arrive
<1> QED
  BY <1>1, <1>2, <1>3, <1>4, <1>5, <1>6, <1>7, <1>8 DEF Next

LEMMA LatestStays ==
  ASSUME TypeInv, LatestLeads, [Next]_vars
  PROVE  LatestLeads'
<1> SUFFICES ASSUME breaks' = <<>>, NEW v \in DOMAIN versions', v # worker'.version
             PROVE  /\ series'[versions'[v].series].latest # 0
                    /\ versions'[series'[versions'[v].series].latest].num >= versions'[v].num
  BY DEF LatestLeads
<1>1. /\ DOMAIN versions \subseteq DOMAIN versions'
      /\ \A w \in DOMAIN versions :
           versions'[w].series = versions[w].series /\ versions'[w].num = versions[w].num
  BY NumbersKept
<1>2. /\ \A s \in DOMAIN series : series[s].latest \in {0} \cup DOMAIN versions
      /\ \A w \in DOMAIN versions : versions[w].series \in DOMAIN series /\ versions[w].num \in Nat
  BY DEF TypeInv, SeriesRows, VersionRows, VersionsOf
<1>3. ~Break
  <2> SUFFICES ASSUME Break PROVE FALSE
    OBVIOUS
  <2> DEFINE e == IF worker.at = "items" /\ DOMAIN items[worker.version] = {} THEN worker.version ELSE 0
  <2>1. breaks' = Append(breaks, e)
    BY DEF Break
  <2>2. DOMAIN Append(breaks, e) = DOMAIN breaks \cup {Len(breaks) + 1}
    <3>1. IsSeq(breaks)
      BY DEF TypeInv, CountsInStep
    <3> HIDE DEF e
    <3> QED
      BY <3>1, AppendIs, Zenon
  <2>3. DOMAIN breaks' = {}
    BY EmptyRows
  <2> HIDE DEF e
  <2> QED
    BY <2>1, <2>2, <2>3
<1>4. CASE ~WriteVersion /\ ~Touch
  <2>1. worker'.version = worker.version /\ breaks' = breaks
    BY <1>3, <1>4, VersionKept
  <2>2. v \in DOMAIN versions
    <3>1. CASE FlagPartial
      BY <3>1, FlagPartialIs
    <3>2. CASE ~FlagPartial
      BY <1>4, <3>2 DEF Next, vars, tables, Arrive, Begin, FindSeries, WriteItems, WriteView,
         PlanSlots, WriteSlot, WriteMapping, Hydrate, ComputePatchIds, Break
    <3> QED
      BY <3>1, <3>2
  <2>3. \A s \in DOMAIN series : series'[s].latest = series[s].latest
    <3>1. CASE FindSeries
      BY <3>1, FindSeriesIs
    <3>2. CASE ~FindSeries
      BY <1>4, <3>2 DEF Next, vars, tables, Arrive, Begin, WriteItems, WriteView, FlagPartial,
         PlanSlots, WriteSlot, WriteMapping, Hydrate, ComputePatchIds, Break
    <3> QED
      BY <3>1, <3>2
  <2> QED
    BY <1>1, <1>2, <2>1, <2>2, <2>3 DEF LatestLeads
<1>5. CASE WriteVersion
  <2>1. UNCHANGED <<series, breaks>> /\ worker.at = "version"
    BY <1>5 DEF WriteVersion
  <2>2. v \in DOMAIN versions /\ v # worker.version
    <3> DEFINE c == Candidate1
               row == [series |-> worker.series, num |-> c.version, finger |-> Fingerprint(c),
                       sent |-> c.sent, partial |-> FALSE]
               low == Min({versions[worker'.version].sent, c.sent})
    <3>1. \/ /\ worker'.version \in SameVersions(worker.series, c)
             /\ versions' = [versions EXCEPT ![worker'.version] =
                                [versions[worker'.version] EXCEPT !.sent = low]]
          \/ worker'.version = Len(versions) + 1 /\ versions' = Append(versions, row)
      BY <1>5, WriteVersionIs
    <3> HIDE DEF row, c, low
    <3>2. /\ DOMAIN Append(versions, row) = DOMAIN versions \cup {Len(versions) + 1}
      BY AppendIs, Zenon DEF TypeInv, TablesInStep
    <3>3. v \in DOMAIN versions
      BY <3>1, <3>2
    <3>4. worker.version = 0
      BY <2>1, IdleIs DEF TypeInv, WorkInStep
    <3> QED
      BY <3>3, <3>4, Domains DEF TypeInv
  <2> QED
    BY <1>1, <1>2, <2>1, <2>2 DEF LatestLeads
<1>6. CASE Touch
  <2> DEFINE u == worker.version
             s == worker.series
  <2>1. UNCHANGED <<versions, breaks>> /\ worker.at \in WithVersion
    BY <1>6 DEF Touch, WithVersion
  <2>2. u \in DOMAIN versions /\ versions[u].series = s /\ u # 0
    BY <2>1, VersionIs, Domains DEF TypeInv
  <2>3. /\ s \in DOMAIN series
        /\ \A r \in DOMAIN series : r # s => series'[r] = series[r]
        /\ series'[s].latest = IF Leads(u, series[s].latest) THEN u ELSE series[s].latest
    BY <1>6, TouchIs
  <2>4. CASE versions[v].series # s
    <3>1. series'[versions[v].series] = series[versions[v].series] /\ v # u
      BY <1>2, <2>1, <2>2, <2>3, <2>4
    <3> QED
      BY <2>1, <3>1 DEF LatestLeads
  <2>5. CASE versions[v].series = s
    <3> DEFINE w == series[s].latest
    <3>1. w \in {0} \cup DOMAIN versions /\ versions[v].num \in Nat /\ versions[u].num \in Nat
      BY <1>2, <2>1, <2>2, <2>3
    <3>2. v # u => w # 0 /\ versions[w].num >= versions[v].num
      BY <2>1, <2>5 DEF LatestLeads
    <3>3. w # 0 => versions[w].num \in Nat
      BY <1>2, <3>1
    <3>4. CASE Leads(u, w)
      <4>1. series'[s].latest = u
        BY <2>3, <3>4
      <4>2. versions[u].num >= versions[v].num
        BY <3>1, <3>2, <3>3, <3>4 DEF Leads
      <4> QED
        BY <2>1, <2>2, <2>5, <4>1, <4>2
    <3>5. CASE ~Leads(u, w)
      <4>1. series'[s].latest = w /\ w # 0 /\ versions[w].num > versions[u].num
        BY <2>3, <3>1, <3>3, <3>5 DEF Leads
      <4>2. versions[w].num >= versions[v].num
        BY <3>1, <3>2, <3>3, <4>1
      <4> QED
        BY <2>1, <2>5, <4>1, <4>2
    <3> QED
      BY <3>4, <3>5
  <2> QED
    BY <2>4, <2>5
<1> QED
  BY <1>4, <1>5, <1>6

\* Between passes, unless one broke off, no version of a series is newer than its latest.
THEOREM LatestIsRight == Spec => []LatestIsNewest
<1>1. Init => LatestLeads
  BY DEF Init, LatestLeads
<1>2. TypeInv /\ LatestLeads /\ [Next]_vars => LatestLeads'
  BY LatestStays
<1>3. TypeInv /\ LatestLeads => LatestIsNewest
  <2> SUFFICES ASSUME TypeInv, LatestLeads, worker.at = "idle" PROVE LatestIsNewest
    BY DEF LatestIsNewest
  <2>1. worker.version \notin DOMAIN versions
    BY IdleIs, Domains DEF TypeInv, WorkInStep
  <2> QED
    BY <2>1 DEF LatestLeads, LatestIsNewest
<1> QED
  BY <1>1, <1>2, <1>3, TypesHold, PTL DEF Spec

-----------------------------------------------------------------------------
(* Views.  The items of a row are those of its fingerprint as soon as they are *)
(* written, so that a row that is processed again changes no view of another;  *)
(* and the candidates of a pass come by date, so that a row whose items are    *)
(* written for the first time is older than none that the pass has done.       *)

Older(v) == {w \in VersionsOf(versions[v].series) : versions[w].num < versions[v].num}

\* The condition of ViewsComplete.
Dated(v) == \A w \in Older(v) : versions[w].sent < versions[v].sent /\ w \notin Range(breaks)

Span(v) == 1..Max({items[v][o].total : o \in DOMAIN items[v] \ {0}})

\* Patch o of version v is that of version w.
Source(v, o, w) ==
  IF o \in DOMAIN items[v] THEN w = v
  ELSE /\ w \in Older(v) /\ o \in DOMAIN items[w]
       /\ \A x \in Older(v) : o \in DOMAIN items[x] /\ x # w => Newer(w, x)

Shows(v) ==
  /\ \A o \in DOMAIN view[v] \ {0} :
       o \in Span(v) /\ \E w : view[v][o] = <<w, o>> /\ Source(v, o, w)
  /\ \A o \in Span(v) :
       o \in DOMAIN items[v] \/ (\E w \in Older(v) : o \in DOMAIN items[w]) => o \in DOMAIN view[v]

Ordinals(v) == {f[1] : f \in versions[v].finger}

\* A row has all its items or none, and none only behind a break or while it is new.
ItemsWhole ==
  \A v \in DOMAIN versions :
    \/ DOMAIN items[v] \ {0} = Ordinals(v)
    \/ /\ DOMAIN items[v] = {}
       /\ \/ v \in Range(breaks)
          \/ worker.at = "items" /\ worker.version = v /\ versions[v].sent = Candidate1.sent

FingerAtWork == worker.at \in WithVersion => versions[worker.version].finger = Fingerprint(Candidate1)

DatesRise == \A v \in worker.made : \A i \in DOMAIN worker.todo : versions[v].sent =< worker.todo[i].sent

AtWork(v, steps) == v = worker.version /\ worker.at \in steps

ViewsShow == \A v \in worker.made : AtWork(v, {"items", "view"}) \/ (Dated(v) => Shows(v))

FlagsShow ==
  \A v \in worker.made :
    \/ AtWork(v, {"items", "view", "flag"})
    \/ versions[v].partial = \E o \in DOMAIN view[v] : view[v][o][1] # v

\* A view shows no cover but that of its own version.
CoverOwn == \A v \in DOMAIN versions : 0 \in DOMAIN view[v] => view[v][0][1] = v

ViewInv == ItemsWhole /\ FingerAtWork /\ DatesRise /\ ViewsShow /\ FlagsShow /\ CoverOwn

LEMMA ViewsFromStart == Init => ViewInv
<1> SUFFICES ASSUME Init PROVE ViewInv
  OBVIOUS
<1>1. DOMAIN versions = {} /\ worker.made = {} /\ worker.at \notin WithVersion
  BY IdleIs DEF Init
<1> QED
  BY <1>1 DEF ViewInv, ItemsWhole, FingerAtWork, DatesRise, ViewsShow, FlagsShow, CoverOwn

\* The newest of some versions is one.
LEMMA PickIs ==
  ASSUME TablesInStep, VersionRows, NEW S \in SUBSET DOMAIN versions
  PROVE  /\ S = {} => Pick(S, Newer) = 0
         /\ \A w \in S : (\A x \in S : x # w => Newer(w, x)) => Pick(S, Newer) = w
<1>1. Pick(S, Newer) = IF S = {} THEN 0 ELSE First(S, Newer)
  BY DEF Pick
<1>2. \A v \in S : v \in Nat /\ versions[v].num \in Nat /\ versions[v].sent \in Nat
  BY Domains DEF VersionRows
<1>3. ASSUME NEW w \in S, \A x \in S : x # w => Newer(w, x)
      PROVE  First(S, Newer) = w
  <2> DEFINE f == First(S, Newer)
  <2>1. f \in S /\ \A y \in S \ {f} : Newer(f, y)
    BY NewestIs
  <2> HIDE DEF f
  <2>2. SUFFICES ASSUME f # w PROVE FALSE
    BY DEF f
  <2>3. Newer(f, w) /\ Newer(w, f)
    BY <1>3, <2>1, <2>2
  <2> QED
    BY <1>2, <2>1, <2>3 DEF Newer
<1> QED
  BY <1>1, <1>3

\* A view stays right as long as its rows and those it inherits from keep their ordinals.
LEMMA ShowsStays ==
  ASSUME TypeInv, [Next]_vars, breaks' = breaks,
         NEW v \in DOMAIN versions, Dated(v) => Shows(v), Dated(v)',
         versions'[v].sent = versions[v].sent, view'[v] = view[v],
         DOMAIN items'[v] = DOMAIN items[v],
         \A o \in DOMAIN items[v] \ {0} : items'[v][o].total = items[v][o].total,
         \A w \in Older(v)' : /\ w \in DOMAIN versions /\ versions'[w].sent = versions[w].sent
                               /\ DOMAIN items'[w] \ {0} = DOMAIN items[w] \ {0}
  PROVE  Shows(v)'
<1>1. /\ DOMAIN versions \subseteq DOMAIN versions'
      /\ \A w \in DOMAIN versions :
           versions'[w].series = versions[w].series /\ versions'[w].num = versions[w].num
  BY NumbersKept
<1>2. Older(v)' = Older(v)
  BY <1>1 DEF Older, VersionsOf
<1>3. Dated(v)
  BY <1>2 DEF Dated
<1>4. Shows(v)
  BY <1>3
<1>5. Span(v)' = Span(v)
  <2> DEFINE T == {items[v][o].total : o \in DOMAIN items[v] \ {0}}
  <2>1. T' = T
    OBVIOUS
  <2> HIDE DEF T
  <2>2. Span(v) = 1..Max(T) /\ Span(v)' = 1..Max(T')
    BY DEF Span, T
  <2> QED
    BY <2>1, <2>2
<1>6. ASSUME NEW o, o # 0, NEW w, Source(v, o, w)
      PROVE  Source(v, o, w)'
  <2>1. CASE o \in DOMAIN items[v]
    BY <1>6, <2>1 DEF Source
  <2>2. CASE o \notin DOMAIN items[v]
    <3>1. /\ w \in Older(v) /\ o \in DOMAIN items[w]
          /\ \A x \in Older(v) : o \in DOMAIN items[x] /\ x # w => Newer(w, x)
      BY <1>6, <2>2 DEF Source
    <3>2. w \in Older(v)' /\ o \in DOMAIN items'[w]
      BY <1>2, <1>6, <3>1
    <3>3. ASSUME NEW x \in Older(v), o \in DOMAIN items'[x], x # w
          PROVE  Newer(w, x)'
      <4>1. o \in DOMAIN items[x]
        BY <1>2, <1>6, <3>3
      <4>2. x \in DOMAIN versions /\ w \in DOMAIN versions
        BY <1>2, <3>1
      <4>3. versions'[x].num = versions[x].num /\ versions'[w].num = versions[w].num
        BY <1>1, <4>2
      <4>4. versions'[x].sent = versions[x].sent /\ versions'[w].sent = versions[w].sent
        BY <1>2, <3>1
      <4>5. Newer(w, x)
        BY <3>1, <3>3, <4>1
      <4> QED
        BY <4>3, <4>4, <4>5 DEF Newer
    <3> QED
      BY <1>2, <2>2, <3>2, <3>3 DEF Source
  <2> QED
    BY <2>1, <2>2
<1>7. 0 \notin Span(v)
  BY DEF Span
<1>8. ASSUME NEW o \in DOMAIN view[v] \ {0}
      PROVE  o \in Span(v)' /\ \E w : view'[v][o] = <<w, o>> /\ Source(v, o, w)'
  <2>1. o \in Span(v) /\ \E w : view[v][o] = <<w, o>> /\ Source(v, o, w)
    BY <1>4, <1>8, Zenon DEF Shows
  <2>2. PICK w : view[v][o] = <<w, o>> /\ Source(v, o, w)
    BY <2>1
  <2>3. Source(v, o, w)'
    BY <1>6, <1>8, <2>2
  <2> QED
    BY <1>5, <2>1, <2>2, <2>3
<1>9. ASSUME NEW o \in Span(v)', o \in DOMAIN items'[v] \/ \E w \in Older(v)' : o \in DOMAIN items'[w]
      PROVE  o \in DOMAIN view'[v]
  BY <1>2, <1>4, <1>5, <1>7, <1>9 DEF Shows
<1> QED
  BY <1>8, <1>9, Zenon DEF Shows

\* What a step has to show of the views.
LEMMA ViewsFollow ==
  ASSUME \A v \in worker'.made : ~AtWork(v, {"items", "view"})' /\ Dated(v)' => Shows(v)'
  PROVE  ViewsShow'
BY Zenon DEF ViewsShow

\* The candidates left are no older than the one at work.
LEMMA FirstIsOldest ==
  ASSUME TypeInv, worker.at \in WithCandidate
  PROVE  /\ \A i \in DOMAIN worker.todo : Candidate1.sent =< worker.todo[i].sent
         /\ 1 \in DOMAIN worker.todo /\ Candidate1 = worker.todo[1] /\ Candidate1.sent \in Nat
         /\ \A i \in DOMAIN worker.todo : worker.todo[i].sent \in Nat
<1>1. /\ 1 \in DOMAIN worker.todo /\ Candidate1 = worker.todo[1]
      /\ \A i \in DOMAIN worker.todo : worker.todo[i].sent \in Nat
      /\ \A i, j \in DOMAIN worker.todo : i < j => worker.todo[i].sent =< worker.todo[j].sent
      /\ IsSeq(worker.todo)
  BY FirstCandidate DEF TypeInv, WorkInStep, CandidateOf
<1>2. DOMAIN worker.todo = 1..Len(worker.todo)
  BY <1>1, SeqIs
<1> HIDE DEF Candidate1
<1> QED
  BY <1>1, <1>2

\* Steps that write no row and are not at one's items, view or flag.
LEMMA CalmStays ==
  ASSUME TypeInv, ViewInv, [Next]_vars, UNCHANGED <<versions, items, view, breaks>>,
         worker'.made = worker.made,
         \A i \in DOMAIN worker'.todo : \E j \in DOMAIN worker.todo : worker'.todo[i] = worker.todo[j],
         worker'.at \in WithVersion => /\ worker.at \in WithVersion /\ worker'.version = worker.version
                                       /\ Candidate1' = Candidate1,
         {worker.at, worker'.at} \cap {"items", "view", "flag"} # {} => worker' = worker
  PROVE  ViewInv'
<1> HIDE DEF Candidate1
<1>1. ItemsWhole'
  <2> SUFFICES ASSUME NEW v \in DOMAIN versions, DOMAIN items[v] \ {0} # Ordinals(v)
               PROVE  /\ DOMAIN items[v] = {}
                      /\ \/ v \in Range(breaks)
                         \/ worker'.at = "items" /\ worker'.version = v /\ versions[v].sent = Candidate1'.sent
    BY DEF ItemsWhole, Ordinals, Range
  <2>1. /\ DOMAIN items[v] = {}
        /\ \/ v \in Range(breaks)
           \/ worker.at = "items" /\ worker.version = v /\ versions[v].sent = Candidate1.sent
    BY DEF ViewInv, ItemsWhole
  <2> QED
    BY <2>1 DEF WithVersion
<1>2. FingerAtWork'
  <2> SUFFICES ASSUME worker'.at \in WithVersion
               PROVE  versions[worker'.version].finger = Fingerprint(Candidate1')
    BY DEF FingerAtWork, Fingerprint, Patches
  <2> QED
    BY DEF ViewInv, FingerAtWork
<1>3. DatesRise'
  BY DEF ViewInv, DatesRise
<1>4. ViewsShow'
  <2> SUFFICES ASSUME NEW v \in worker'.made, ~AtWork(v, {"items", "view"})', Dated(v)'
               PROVE  Shows(v)'
    BY ViewsFollow
  <2>1. v \in worker.made /\ v \in DOMAIN versions
    BY DEF TypeInv, WorkInStep
  <2>2. ~AtWork(v, {"items", "view"})
    BY DEF AtWork
  <2>3. Dated(v) => Shows(v)
    BY <2>1, <2>2 DEF ViewInv, ViewsShow
  <2>4. \A w \in Older(v)' : w \in DOMAIN versions
    BY DEF Older, VersionsOf
  <2> QED
    BY <2>1, <2>3, <2>4, ShowsStays
<1>5. FlagsShow'
  BY ZenonT(40) DEF ViewInv, FlagsShow, AtWork
<1>6. CoverOwn'
  BY DEF ViewInv, CoverOwn
<1> QED
  BY <1>1, <1>2, <1>3, <1>4, <1>5, <1>6 DEF ViewInv

\* A row is found by its number and fingerprint, and dated back, or is added.
LEMMA WriteVersionKeeps ==
  ASSUME TypeInv, WriteVersion
  PROVE  LET c == Candidate1
             v == worker'.version
         IN /\ DOMAIN versions' = DOMAIN versions \cup {v} /\ versions'[v].finger = Fingerprint(c)
            /\ versions'[v].sent \in Nat /\ versions'[v].sent =< c.sent
            /\ \A w \in DOMAIN versions :
                 /\ versions'[w].finger = versions[w].finger /\ versions'[w].partial = versions[w].partial
                 /\ items'[w] = items[w] /\ view'[w] = view[w]
                 /\ w # v => versions'[w].sent = versions[w].sent
                 /\ versions'[w].sent \in {versions[w].sent, c.sent}
                 /\ versions'[w].sent =< versions[w].sent
            /\ v \notin DOMAIN versions =>
                 items'[v] = <<>> /\ view'[v] = <<>> /\ versions'[v].sent = c.sent
<1> DEFINE c == Candidate1
           v == worker'.version
           low == Min({versions[v].sent, c.sent})
           row == [series |-> worker.series, num |-> c.version, finger |-> Fingerprint(c),
                   sent |-> c.sent, partial |-> FALSE]
<1>1. /\ CandidateOf(arrived, c)
      /\ \/ /\ v \in SameVersions(worker.series, c)
            /\ versions' = [versions EXCEPT ![v] = [versions[v] EXCEPT !.sent = low]]
            /\ UNCHANGED <<items, view>>
         \/ /\ v = Len(versions) + 1
            /\ versions' = Append(versions, row)
            /\ items' = Append(items, <<>>) /\ view' = Append(view, <<>>)
  BY WriteVersionIs
<1>2. c.sent \in Nat
  BY <1>1 DEF CandidateOf
<1>3. row.finger = Fingerprint(c) /\ row.sent = c.sent
  OBVIOUS
<1>4. \A w \in DOMAIN versions : DOMAIN versions[w] = VersionFields /\ versions[w].sent \in Nat
  BY DEF TypeInv, VersionRows
<1> HIDE DEF row, c, v
<1>5. CASE /\ v \in SameVersions(worker.series, c)
           /\ versions' = [versions EXCEPT ![v] = [versions[v] EXCEPT !.sent = low]]
           /\ UNCHANGED <<items, view>>
  <2>1. v \in DOMAIN versions /\ versions[v].finger = Fingerprint(c)
    BY <1>5 DEF SameVersions, VersionsOf
  <2>2. low \in {versions[v].sent, c.sent} /\ low =< versions[v].sent /\ low =< c.sent /\ low \in Nat
    <3>1. {versions[v].sent, c.sent} \in SUBSET Nat
      BY <1>2, <1>4, <2>1
    <3>2. low \in {versions[v].sent, c.sent} /\ \A x \in {versions[v].sent, c.sent} : low =< x
      BY <3>1, MinIn
    <3> QED
      BY <3>1, <3>2
  <2> HIDE DEF low
  <2>3. /\ DOMAIN versions' = DOMAIN versions /\ versions'[v].finger = versions[v].finger
        /\ versions'[v].sent = low /\ versions'[v].partial = versions[v].partial
        /\ \A w \in DOMAIN versions : w # v => versions'[w] = versions[w]
    BY <1>4, <1>5, <2>1 DEF VersionFields
  <2>4. \A w \in DOMAIN versions : versions[w].sent =< versions[w].sent
    BY <1>4
  <2> QED
    BY <1>5, <2>1, <2>2, <2>3, <2>4 DEF c, v
<1>6. CASE /\ v = Len(versions) + 1
           /\ versions' = Append(versions, row)
           /\ items' = Append(items, <<>>) /\ view' = Append(view, <<>>)
  <2>1. /\ DOMAIN versions' = DOMAIN versions \cup {v} /\ versions'[v] = row /\ v \notin DOMAIN versions
        /\ \A w \in DOMAIN versions : versions'[w] = versions[w]
    <3>1. IsSeq(versions)
      BY DEF TypeInv, TablesInStep
    <3>2. /\ DOMAIN Append(versions, row) = DOMAIN versions \cup {Len(versions) + 1}
          /\ Append(versions, row)[Len(versions) + 1] = row /\ Len(versions) + 1 \notin DOMAIN versions
          /\ \A i \in DOMAIN versions : Append(versions, row)[i] = versions[i]
      BY <3>1, AppendIs, Zenon
    <3> QED
      BY <1>6, <3>2
  <2>2. items'[v] = <<>> /\ \A w \in DOMAIN versions : items'[w] = items[w]
    <3>1. IsSeq(items) /\ Len(items) = Len(versions) /\ DOMAIN items = DOMAIN versions
      BY Domains DEF TypeInv, TablesInStep
    <3>2. /\ Append(items, <<>>)[Len(items) + 1] = <<>>
          /\ \A i \in DOMAIN items : Append(items, <<>>)[i] = items[i]
      BY <3>1, AppendIs, Zenon
    <3> QED
      BY <1>6, <3>1, <3>2
  <2>3. view'[v] = <<>> /\ \A w \in DOMAIN versions : view'[w] = view[w]
    <3>1. IsSeq(view) /\ Len(view) = Len(versions) /\ DOMAIN view = DOMAIN versions
      BY Domains DEF TypeInv, TablesInStep
    <3>2. /\ Append(view, <<>>)[Len(view) + 1] = <<>>
          /\ \A i \in DOMAIN view : Append(view, <<>>)[i] = view[i]
      BY <3>1, AppendIs, Zenon
    <3> QED
      BY <1>6, <3>1, <3>2
  <2>4. \A w \in DOMAIN versions : versions[w].sent =< versions[w].sent
    BY <1>4
  <2> QED
    BY <1>2, <1>3, <2>1, <2>2, <2>3, <2>4 DEF c, v
<1> QED
  BY <1>1, <1>5, <1>6

LEMMA VersionViews ==
  ASSUME TypeInv, ViewInv, [Next]_vars, WriteVersion
  PROVE  ViewInv'
<1> DEFINE c == Candidate1
           v == worker'.version
<1>1. /\ worker.at = "version" /\ worker'.at = "items" /\ worker'.todo = worker.todo
      /\ worker'.made = worker.made \cup {v} /\ breaks' = breaks /\ Candidate1' = c
  <2>1. /\ worker.at = "version" /\ worker'.at = "items" /\ worker'.todo = worker.todo
        /\ worker'.made = worker.made \cup {v}
    BY WriteVersionIs
  <2>2. breaks' = breaks
    BY DEF WriteVersion
  <2> QED
    BY <2>1, <2>2 DEF Candidate1
<1>2. /\ DOMAIN versions' = DOMAIN versions \cup {v} /\ versions'[v].finger = Fingerprint(c)
      /\ versions'[v].sent \in Nat /\ versions'[v].sent =< c.sent
      /\ \A w \in DOMAIN versions :
           /\ versions'[w].finger = versions[w].finger /\ versions'[w].partial = versions[w].partial
           /\ items'[w] = items[w] /\ view'[w] = view[w]
           /\ w # v => versions'[w].sent = versions[w].sent
           /\ versions'[w].sent \in {versions[w].sent, c.sent}
           /\ versions'[w].sent =< versions[w].sent
      /\ v \notin DOMAIN versions =>
           items'[v] = <<>> /\ view'[v] = <<>> /\ versions'[v].sent = c.sent
  BY WriteVersionKeeps
<1>3. /\ \A i \in DOMAIN worker.todo : c.sent =< worker.todo[i].sent /\ worker.todo[i].sent \in Nat
      /\ 1 \in DOMAIN worker.todo /\ c = worker.todo[1] /\ c.sent \in Nat
  BY <1>1, IdleIs, FirstIsOldest
<1>4. /\ worker.made \subseteq DOMAIN versions
      /\ \A w \in DOMAIN versions : versions[w].sent \in Nat
  BY DEF TypeInv, WorkInStep, VersionRows
<1> HIDE DEF c, v
<1>5. ItemsWhole'
  <2> SUFFICES ASSUME NEW w \in DOMAIN versions', DOMAIN items'[w] \ {0} # Ordinals(w)'
               PROVE  /\ DOMAIN items'[w] = {}
                      /\ \/ w \in Range(breaks')
                         \/ worker'.at = "items" /\ worker'.version = w /\ versions'[w].sent = Candidate1'.sent
    BY DEF ItemsWhole, Range
  <2>1. CASE w \in DOMAIN versions
    <3>1. Ordinals(w)' = Ordinals(w) /\ items'[w] = items[w]
      BY <1>2, <2>1 DEF Ordinals
    <3>2. DOMAIN items[w] = {} /\ w \in Range(breaks)
      BY <1>1, <2>1, <3>1 DEF ViewInv, ItemsWhole
    <3> QED
      BY <1>1, <3>1, <3>2
  <2>2. CASE w \notin DOMAIN versions
    <3>1. w = v /\ items'[w] = <<>> /\ versions'[w].sent = c.sent
      BY <1>2, <2>2
    <3> QED
      BY <1>1, <3>1, EmptyRows DEF v
  <2> QED
    BY <2>1, <2>2
<1>6. FingerAtWork'
  <2>1. versions'[worker'.version].finger = Fingerprint(c) /\ Fingerprint(c)' = Fingerprint(c)
    BY <1>1, <1>2 DEF v, c, Fingerprint, Patches
  <2>2. Fingerprint(Candidate1)' = Fingerprint(c)
    BY <1>1 DEF Fingerprint, Patches
  <2> QED
    BY <2>1, <2>2 DEF FingerAtWork
<1>7. DatesRise'
  <2> SUFFICES ASSUME NEW w \in worker'.made, NEW i \in DOMAIN worker'.todo
               PROVE  versions'[w].sent =< worker'.todo[i].sent
    BY DEF DatesRise
  <2>1. CASE w = v
    BY <1>1, <1>2, <1>3, <2>1
  <2>2. CASE w # v
    <3>1. w \in worker.made /\ versions'[w].sent = versions[w].sent
      BY <1>1, <1>2, <1>4, <2>2
    <3> QED
      BY <1>1, <3>1 DEF ViewInv, DatesRise
  <2> QED
    BY <2>1, <2>2
<1>8. ViewsShow'
  <2> SUFFICES ASSUME NEW u \in worker'.made, ~AtWork(u, {"items", "view"})', Dated(u)'
               PROVE  Shows(u)'
    BY ViewsFollow
  <2>1. u # v
    BY <1>1 DEF AtWork, v
  <2>2. u \in worker.made /\ u \in DOMAIN versions /\ versions'[u].sent = versions[u].sent
    BY <1>1, <1>2, <1>4, <2>1
  <2>3. Dated(u) => Shows(u)
    BY <1>1, <2>2 DEF ViewInv, ViewsShow, AtWork
  <2>4. versions[u].sent =< c.sent
    BY <1>3, <2>2 DEF ViewInv, DatesRise
  <2>5. ASSUME NEW w \in Older(u)'
        PROVE  w \in DOMAIN versions /\ versions'[w].sent = versions[w].sent
    <3>1. versions'[w].sent < versions[u].sent /\ w \in DOMAIN versions'
      BY <2>2, <2>5 DEF Dated, Older, VersionsOf
    <3>2. w \in DOMAIN versions
      BY <1>2, <1>3, <1>4, <2>2, <2>4, <3>1
    <3> QED
      BY <1>2, <1>3, <1>4, <2>2, <2>4, <3>1, <3>2
  <2> QED
    BY <1>1, <1>2, <2>2, <2>3, <2>5, ShowsStays
<1>9. FlagsShow'
  <2> SUFFICES ASSUME NEW u \in worker'.made, u # v
               PROVE  versions'[u].partial = \E o \in DOMAIN view'[u] : view'[u][o][1] # u
    BY <1>1 DEF FlagsShow, AtWork, v
  <2>1. u \in worker.made /\ u \in DOMAIN versions
    BY <1>1, <1>4
  <2>2. versions[u].partial = \E o \in DOMAIN view[u] : view[u][o][1] # u
    BY <1>1, <2>1 DEF ViewInv, FlagsShow, AtWork
  <2> QED
    BY <1>2, <2>1, <2>2, ZenonT(40)
<1>10. CoverOwn'
  <2> SUFFICES ASSUME NEW w \in DOMAIN versions', 0 \in DOMAIN view'[w] PROVE view'[w][0][1] = w
    BY DEF CoverOwn
  <2>1. w \in DOMAIN versions
    BY <1>2, EmptyRows
  <2> QED
    BY <1>2, <2>1 DEF ViewInv, CoverOwn
<1> QED
  BY <1>5, <1>6, <1>7, <1>8, <1>9, <1>10 DEF ViewInv

\* The row at work has the fingerprint of its candidate, and so the same patches.
LEMMA PatchesAtWork ==
  ASSUME ViewInv, worker.at \in WithVersion
  PROVE  Ordinals(worker.version) = Patches(Candidate1)
<1> DEFINE c == Candidate1
           F == versions[worker.version].finger
<1>1. F = {<<o, c.items[o].patch, c.items[o].title>> : o \in Patches(c)}
  BY DEF ViewInv, FingerAtWork, Fingerprint
<1> HIDE DEF F, c
<1>2. Ordinals(worker.version) = {f[1] : f \in F}
  BY DEF Ordinals, F
<1>3. \A o \in Patches(c) : <<o, c.items[o].patch, c.items[o].title>>[1] = o
  OBVIOUS
<1>4. {f[1] : f \in F} = Patches(c)
  BY <1>1, <1>3
<1> QED
  BY <1>2, <1>4 DEF c

LEMMA ItemsViews ==
  ASSUME TypeInv, ViewInv, [Next]_vars, WriteItems
  PROVE  ViewInv'
<1> DEFINE v == worker.version
           new == Candidate1.items
<1>1. /\ worker.at = "items" /\ worker'.at = "view" /\ worker'.todo = worker.todo
      /\ worker'.made = worker.made /\ worker'.version = v /\ UNCHANGED <<versions, view, breaks>>
  BY WorkFields DEF TypeInv, WriteItems
<1>2. /\ \A w \in DOMAIN versions \ {v} : items'[w] = items[w]
      /\ DOMAIN items'[v] = DOMAIN new \cup DOMAIN items[v]
  BY WriteItemsIs
<1>3. v \in DOMAIN versions /\ Ordinals(v) = DOMAIN new \ {0}
  BY <1>1, VersionIs, PatchesAtWork DEF WithVersion, Patches
<1>4. worker.made \subseteq DOMAIN versions
  BY DEF TypeInv, WorkInStep
<1>5. \A w \in DOMAIN versions : Ordinals(w)' = Ordinals(w)
  BY <1>1 DEF Ordinals
<1>6. \/ DOMAIN items[v] \ {0} = Ordinals(v)
      \/ DOMAIN items[v] = {} /\ (v \in Range(breaks) \/ versions[v].sent = Candidate1.sent)
  BY <1>3 DEF ViewInv, ItemsWhole
<1>7. DOMAIN items'[v] \ {0} = Ordinals(v)
  BY <1>2, <1>3, <1>6
<1>8. \A u \in worker.made : versions[u].sent \in Nat /\ versions[u].sent =< Candidate1.sent
  BY <1>1, <1>4, FirstIsOldest DEF TypeInv, VersionRows, ViewInv, DatesRise, WithVersion, WithCandidate, WithSeries
<1> HIDE DEF v, new
<1>9. ItemsWhole'
  <2> SUFFICES ASSUME NEW w \in DOMAIN versions
               PROVE  \/ DOMAIN items'[w] \ {0} = Ordinals(w)
                      \/ DOMAIN items'[w] = {} /\ w \in Range(breaks)
    BY <1>1, <1>5 DEF ItemsWhole, Range
  <2>1. CASE w = v
    BY <1>7, <2>1
  <2>2. CASE w # v
    BY <1>2, <2>2 DEF ViewInv, ItemsWhole, v
  <2> QED
    BY <2>1, <2>2
<1>10. FingerAtWork'
  BY <1>1 DEF ViewInv, FingerAtWork, Fingerprint, Patches, Candidate1, WithVersion, v
<1>11. DatesRise'
  BY <1>1 DEF ViewInv, DatesRise
<1>12. ViewsShow'
  <2> SUFFICES ASSUME NEW u \in worker'.made, ~AtWork(u, {"items", "view"})', Dated(u)'
               PROVE  Shows(u)'
    BY ViewsFollow
  <2>1. u \in worker.made /\ u # v /\ u \in DOMAIN versions
    BY <1>1, <1>4 DEF AtWork
  <2>2. Dated(u) => Shows(u)
    BY <2>1 DEF ViewInv, ViewsShow, AtWork, v
  <2>3. ASSUME NEW w \in Older(u)'
        PROVE  w \in DOMAIN versions /\ DOMAIN items'[w] \ {0} = DOMAIN items[w] \ {0}
    <3>1. w \in DOMAIN versions /\ versions[w].sent < versions[u].sent /\ w \notin Range(breaks)
      BY <1>1, <2>3 DEF Dated, Older, VersionsOf, Range
    <3>2. CASE w # v
      BY <1>2, <3>1, <3>2
    <3>3. CASE w = v
      <4>1. versions[v].sent # Candidate1.sent
        BY <1>8, <2>1, <3>1, <3>3 DEF TypeInv, VersionRows
      <4> QED
        BY <1>6, <1>7, <3>1, <3>3, <4>1
    <3> QED
      BY <3>1, <3>2, <3>3
  <2> QED
    BY <1>1, <1>2, <2>1, <2>2, <2>3, ShowsStays
<1>13. FlagsShow'
  <2> SUFFICES ASSUME NEW u \in worker'.made, u # v
               PROVE  versions'[u].partial = \E o \in DOMAIN view'[u] : view'[u][o][1] # u
    BY <1>1 DEF FlagsShow, AtWork
  <2>1. versions[u].partial = \E o \in DOMAIN view[u] : view[u][o][1] # u
    BY <1>1 DEF ViewInv, FlagsShow, AtWork, v
  <2> QED
    BY <1>1, <2>1
<1>14. CoverOwn'
  BY <1>1 DEF ViewInv, CoverOwn
<1> QED
  BY <1>9, <1>10, <1>11, <1>12, <1>13, <1>14 DEF ViewInv

\* What is assembled shows each ordinal as it is in the newest version that has it.
LEMMA AssembledShows ==
  ASSUME TypeInv, ViewInv, WriteView
  PROVE  LET v == worker.version IN
           /\ \A o \in DOMAIN view'[v] \ {0} :
                o \in Span(v) /\ \E w : view'[v][o] = <<w, o>> /\ Source(v, o, w)
           /\ \A o \in Span(v) :
                o \in DOMAIN items[v] \/ (\E w \in Older(v) : o \in DOMAIN items[w]) => o \in DOMAIN view'[v]
           /\ 0 \in DOMAIN view'[v] => view'[v][0][1] = v
           /\ \A w \in DOMAIN versions \ {v} : view'[w] = view[w]
<1> DEFINE v == worker.version
           own == DOMAIN Candidate1.items
           T == {items[v][o].total : o \in own \ {0}}
           from(o) == IF o \in own THEN v ELSE Inherited(versions[v].series, versions[v].num, o)
<1>1. worker.at = "view" /\ view' = [view EXCEPT ![v] = Assembled(v, own)]
  BY DEF WriteView, Step
<1>2. v \in DOMAIN versions /\ own \subseteq DOMAIN items[v]
  BY <1>1, VersionIs DEF WithVersion, TypeInv, WorkInStep
<1>3. own \ {0} = DOMAIN items[v] \ {0}
  <2>1. Ordinals(v) = own \ {0} /\ own \ {0} # {}
    BY <1>1, VersionIs, PatchesAtWork DEF WithVersion, Patches, CandidateOf
  <2>2. DOMAIN items[v] # {}
    BY <1>2, <2>1
  <2> QED
    BY <1>2, <2>1, <2>2 DEF ViewInv, ItemsWhole
<1>4. view'[v] = Assembled(v, own) /\ \A w \in DOMAIN versions \ {v} : view'[w] = view[w]
  BY <1>1, <1>2, Domains DEF TypeInv
<1>5. Span(v) = 1..Max(T)
  <2>1. {items[v][o].total : o \in DOMAIN items[v] \ {0}} = T
    BY <1>3
  <2> QED
    BY <2>1 DEF Span
<1>6. Assembled(v, own) = [o \in (own \cap {0}) \cup {o \in 1..Max(T) : from(o) # 0} |-> <<from(o), o>>]
  BY DEF Assembled
<1> HIDE DEF T
<1>7. ASSUME NEW o, o # 0
      PROVE  /\ o \in DOMAIN items[v] => from(o) = v /\ v # 0
             /\ o \notin DOMAIN items[v] => 
                  LET S == {w \in Older(v) : o \in DOMAIN items[w]}
                  IN  /\ S = {} => from(o) = 0
                      /\ S # {} => /\ from(o) \in S /\ from(o) # 0
                                   /\ \A y \in S \ {from(o)} : Newer(from(o), y)
  <2>1. o \in own <=> o \in DOMAIN items[v]
    BY <1>3, <1>7
  <2>2. v # 0
    BY <1>2, Domains DEF TypeInv
  <2>3. {w \in Older(v) : o \in DOMAIN items[w]} =
          {w \in VersionsOf(versions[v].series) : versions[w].num < versions[v].num /\ o \in DOMAIN items[w]}
    BY DEF Older
  <2>4. o \notin own => from(o) = Inherited(versions[v].series, versions[v].num, o)
    OBVIOUS
  <2>5. LET S == {w \in VersionsOf(versions[v].series) : versions[w].num < versions[v].num /\ o \in DOMAIN items[w]}
            i == Inherited(versions[v].series, versions[v].num, o)
        IN  /\ S = {} => i = 0
            /\ S # {} => i \in S /\ i # 0 /\ \A y \in S \ {i} : Newer(i, y)
    BY InheritedIs DEF TypeInv
  <2> QED
    BY <2>1, <2>2, <2>3, <2>4, <2>5
<1> HIDE DEF from
<1>8. /\ DOMAIN view'[v] = (own \cap {0}) \cup {o \in Span(v) : from(o) # 0}
      /\ \A o \in DOMAIN view'[v] : view'[v][o] = <<from(o), o>>
  BY <1>4, <1>5, <1>6, Zenon
<1>9. 0 \notin Span(v)
  BY DEF Span
<1> HIDE DEF own
<1>10. ASSUME NEW o \in DOMAIN view'[v] \ {0}
       PROVE  o \in Span(v) /\ \E w : view'[v][o] = <<w, o>> /\ Source(v, o, w)
  <2>1. o \in Span(v) /\ view'[v][o] = <<from(o), o>> /\ from(o) # 0 /\ o # 0
    BY <1>8, <1>10
  <2>2. Source(v, o, from(o))
    <3>1. CASE o \in DOMAIN items[v]
      BY <1>7, <2>1, <3>1 DEF Source
    <3>2. CASE o \notin DOMAIN items[v]
      <4> DEFINE S == {w \in Older(v) : o \in DOMAIN items[w]}
      <4>1. from(o) \in S /\ \A y \in S \ {from(o)} : Newer(from(o), y)
        BY <1>7, <2>1, <3>2
      <4> QED
        BY <3>2, <4>1 DEF Source
    <3> QED
      BY <3>1, <3>2
  <2> QED
    BY <2>1, <2>2
<1>11. ASSUME NEW o \in Span(v), o \in DOMAIN items[v] \/ \E w \in Older(v) : o \in DOMAIN items[w]
       PROVE  o \in DOMAIN view'[v]
  <2>1. o # 0
    BY <1>9, <1>11
  <2>2. from(o) # 0
    BY <1>7, <1>11, <2>1
  <2> QED
    BY <1>8, <1>11, <2>2
<1>12. ASSUME 0 \in DOMAIN view'[v] PROVE view'[v][0][1] = v
  <2>1. 0 \in own
    BY <1>8, <1>9, <1>12
  <2>2. from(0) = v
    BY <2>1 DEF from
  <2> QED
    BY <1>8, <1>12, <2>2
<1> QED
  BY <1>4, <1>10, <1>11, <1>12 DEF v

LEMMA ViewViews ==
  ASSUME TypeInv, ViewInv, [Next]_vars, WriteView
  PROVE  ViewInv'
<1> DEFINE v == worker.version
<1>1. /\ worker.at = "view" /\ worker'.at = "flag" /\ worker'.todo = worker.todo
      /\ worker'.made = worker.made /\ worker'.version = v /\ UNCHANGED <<versions, items, breaks>>
  BY WorkFields DEF TypeInv, WriteView
<1>2. /\ \A o \in DOMAIN view'[v] \ {0} :
           o \in Span(v) /\ \E w : view'[v][o] = <<w, o>> /\ Source(v, o, w)
      /\ \A o \in Span(v) :
           o \in DOMAIN items[v] \/ (\E w \in Older(v) : o \in DOMAIN items[w]) => o \in DOMAIN view'[v]
      /\ 0 \in DOMAIN view'[v] => view'[v][0][1] = v
      /\ \A w \in DOMAIN versions \ {v} : view'[w] = view[w]
  BY AssembledShows
<1>3. v \in DOMAIN versions /\ worker.made \subseteq DOMAIN versions
  BY <1>1, VersionIs DEF WithVersion, TypeInv, WorkInStep
<1> HIDE DEF v
<1>4. ItemsWhole'
  BY <1>1 DEF ViewInv, ItemsWhole, Ordinals, Range
<1>5. FingerAtWork'
  BY <1>1 DEF ViewInv, FingerAtWork, Fingerprint, Patches, Candidate1, WithVersion, v
<1>6. DatesRise'
  BY <1>1 DEF ViewInv, DatesRise
<1>7. ViewsShow'
  <2> SUFFICES ASSUME NEW u \in worker'.made, ~AtWork(u, {"items", "view"})', Dated(u)'
               PROVE  Shows(u)'
    BY ViewsFollow
  <2>1. u \in worker.made /\ u \in DOMAIN versions
    BY <1>1, <1>3
  <2>2. CASE u = v
    <3>1. Span(u)' = Span(u)
      <4> DEFINE T == {items[u][o].total : o \in DOMAIN items[u] \ {0}}
      <4>1. T' = T
        BY <1>1
      <4> HIDE DEF T
      <4>2. Span(u) = 1..Max(T) /\ Span(u)' = 1..Max(T')
        BY DEF Span, T
      <4> QED
        BY <4>1, <4>2
    <3>2. Older(u)' = Older(u)
      BY <1>1 DEF Older, VersionsOf
    <3>3. \A w, x : Newer(w, x)' <=> Newer(w, x)
      BY <1>1 DEF Newer
    <3>4. ASSUME NEW o, NEW w, Source(u, o, w) PROVE Source(u, o, w)'
      BY <1>1, <3>2, <3>3, <3>4 DEF Source
    <3>5. ASSUME NEW o \in DOMAIN view'[u] \ {0}
          PROVE  o \in Span(u)' /\ \E w : view'[u][o] = <<w, o>> /\ Source(u, o, w)'
      <4>1. o \in Span(u) /\ \E w : view'[u][o] = <<w, o>> /\ Source(u, o, w)
        BY <1>2, <2>2, <3>5
      <4>2. PICK w : view'[u][o] = <<w, o>> /\ Source(u, o, w)
        BY <4>1
      <4>3. Source(u, o, w)'
        BY <3>4, <4>2
      <4> QED
        BY <3>1, <4>1, <4>2, <4>3
    <3>6. ASSUME NEW o \in Span(u)', o \in DOMAIN items'[u] \/ \E w \in Older(u)' : o \in DOMAIN items'[w]
          PROVE  o \in DOMAIN view'[u]
      BY <1>1, <1>2, <2>2, <3>1, <3>2, <3>6
    <3> QED
      BY <3>5, <3>6, Zenon DEF Shows
  <2>3. CASE u # v
    <3>1. Dated(u) => Shows(u)
      BY <2>1, <2>3 DEF ViewInv, ViewsShow, AtWork, v
    <3>2. \A w \in Older(u)' : w \in DOMAIN versions
      BY <1>1 DEF Older, VersionsOf
    <3> QED
      BY <1>1, <1>2, <2>1, <2>3, <3>1, <3>2, ShowsStays
  <2> QED
    BY <2>2, <2>3
<1>8. FlagsShow'
  <2> SUFFICES ASSUME NEW u \in worker'.made, u # v
               PROVE  versions'[u].partial = \E o \in DOMAIN view'[u] : view'[u][o][1] # u
    BY <1>1 DEF FlagsShow, AtWork
  <2>1. versions[u].partial = \E o \in DOMAIN view[u] : view[u][o][1] # u
    BY <1>1 DEF ViewInv, FlagsShow, AtWork, v
  <2> QED
    BY <1>1, <1>2, <1>3, <2>1
<1>9. CoverOwn'
  <2> SUFFICES ASSUME NEW w \in DOMAIN versions, 0 \in DOMAIN view'[w] PROVE view'[w][0][1] = w
    BY <1>1 DEF CoverOwn
  <2> QED
    BY <1>2 DEF ViewInv, CoverOwn
<1> QED
  BY <1>4, <1>5, <1>6, <1>7, <1>8, <1>9 DEF ViewInv

LEMMA FlagViews ==
  ASSUME TypeInv, ViewInv, [Next]_vars, FlagPartial
  PROVE  ViewInv'
<1> DEFINE v == worker.version
<1>1. /\ worker.at = "flag" /\ worker'.at = "plan" /\ worker'.todo = worker.todo
      /\ worker'.made = worker.made /\ worker'.version = v /\ UNCHANGED <<view, items, breaks>>
  BY WorkFields DEF TypeInv, FlagPartial
<1>2. /\ DOMAIN versions' = DOMAIN versions
      /\ \A w \in DOMAIN versions :
           /\ versions'[w].finger = versions[w].finger /\ versions'[w].sent = versions[w].sent
           /\ w # v => versions'[w] = versions[w]
      /\ versions'[v].partial = \E o \in DOMAIN view[v] : view[v][o][1] # v
  BY FlagPartialIs
<1>3. v \in DOMAIN versions /\ worker.made \subseteq DOMAIN versions
  BY <1>1, VersionIs DEF WithVersion, TypeInv, WorkInStep
<1> HIDE DEF v
<1>4. ItemsWhole'
  <2>1. \A w \in DOMAIN versions : Ordinals(w)' = Ordinals(w)
    BY <1>2 DEF Ordinals
  <2> QED
    BY <1>1, <1>2, <2>1 DEF ViewInv, ItemsWhole, Range
<1>5. FingerAtWork'
  <2>1. versions[v].finger = Fingerprint(Candidate1)
    BY <1>1 DEF ViewInv, FingerAtWork, WithVersion, v
  <2>2. Fingerprint(Candidate1)' = Fingerprint(Candidate1)
    BY <1>1 DEF Fingerprint, Patches, Candidate1
  <2> QED
    BY <1>1, <1>2, <1>3, <2>1, <2>2 DEF FingerAtWork
<1>6. DatesRise'
  BY <1>1, <1>2, <1>3 DEF ViewInv, DatesRise
<1>7. ViewsShow'
  <2> SUFFICES ASSUME NEW u \in worker'.made, ~AtWork(u, {"items", "view"})', Dated(u)'
               PROVE  Shows(u)'
    BY ViewsFollow
  <2>1. u \in worker.made /\ u \in DOMAIN versions /\ (Dated(u) => Shows(u))
    BY <1>1, <1>3 DEF ViewInv, ViewsShow, AtWork
  <2>2. \A w \in Older(u)' : w \in DOMAIN versions
    BY <1>2 DEF Older, VersionsOf
  <2> QED
    BY <1>1, <1>2, <2>1, <2>2, ShowsStays
<1>8. FlagsShow'
  <2> SUFFICES ASSUME NEW u \in worker'.made
               PROVE  versions'[u].partial = \E o \in DOMAIN view'[u] : view'[u][o][1] # u
    BY <1>1 DEF FlagsShow
  <2>1. CASE u = v
    BY <1>1, <1>2, <2>1
  <2>2. CASE u # v
    <3>1. versions[u].partial = \E o \in DOMAIN view[u] : view[u][o][1] # u
      BY <1>1, <2>2 DEF ViewInv, FlagsShow, AtWork, v
    <3> QED
      BY <1>1, <1>2, <1>3, <2>2, <3>1
  <2> QED
    BY <2>1, <2>2
<1>9. CoverOwn'
  BY <1>1, <1>2 DEF ViewInv, CoverOwn
<1> QED
  BY <1>4, <1>5, <1>6, <1>7, <1>8, <1>9 DEF ViewInv

LEMMA EnrichViews ==
  ASSUME TypeInv, ViewInv, [Next]_vars, Enriches
  PROVE  ViewInv'
<1>1. /\ UNCHANGED <<versions, view, breaks>> /\ worker.at \in {"enrich", "diffs"}
      /\ worker'.at \in {"idle", "diffs"} /\ worker'.made = worker.made
      /\ worker'.todo = worker.todo \/ worker'.todo = <<>>
  <2>1. CASE Hydrate
    BY <2>1, WorkFields DEF Hydrate, TypeInv
  <2>2. CASE ComputePatchIds
    BY <2>2, IdleIs DEF ComputePatchIds, Idle
  <2> QED
    BY <2>1, <2>2 DEF Enriches
<1>2. \A v \in DOMAIN versions :
        DOMAIN items'[v] = DOMAIN items[v] /\ \A o \in DOMAIN items[v] : items'[v][o].total = items[v][o].total
  BY PatchIdsIs
<1>3. worker.made \subseteq DOMAIN versions
  BY DEF TypeInv, WorkInStep
<1>4. ItemsWhole'
  <2>1. \A w \in DOMAIN versions : Ordinals(w)' = Ordinals(w)
    BY <1>1 DEF Ordinals
  <2> QED
    BY <1>1, <1>2, <2>1 DEF ViewInv, ItemsWhole, Range
<1>5. FingerAtWork'
  BY <1>1, IdleIs DEF FingerAtWork
<1>6. DatesRise'
  BY <1>1, EmptyRows DEF ViewInv, DatesRise
<1>7. ViewsShow'
  <2> SUFFICES ASSUME NEW u \in worker'.made, ~AtWork(u, {"items", "view"})', Dated(u)'
               PROVE  Shows(u)'
    BY ViewsFollow
  <2>1. u \in worker.made /\ u \in DOMAIN versions /\ (Dated(u) => Shows(u))
    BY <1>1, <1>3 DEF ViewInv, ViewsShow, AtWork
  <2>2. \A w \in Older(u)' : w \in DOMAIN versions
    BY <1>1 DEF Older, VersionsOf
  <2> QED
    BY <1>1, <1>2, <2>1, <2>2, ShowsStays
<1>8. FlagsShow'
  <2>1. \A u \in worker.made : versions[u].partial = \E o \in DOMAIN view[u] : view[u][o][1] # u
    BY <1>1 DEF ViewInv, FlagsShow, AtWork
  <2> QED
    BY <1>1, <2>1 DEF FlagsShow
<1>9. CoverOwn'
  BY <1>1 DEF ViewInv, CoverOwn
<1> QED
  BY <1>4, <1>5, <1>6, <1>7, <1>8, <1>9 DEF ViewInv

\* A pass begins with no row, and ends so when it breaks off: then a new row without items is noted.
LEMMA EndsViews ==
  ASSUME TypeInv, ViewInv, [Next]_vars, Break \/ \E threads \in SUBSET Threads : Begin(threads)
  PROVE  ViewInv'
<1>1. UNCHANGED <<versions, items, view>> /\ worker'.made = {} /\ worker'.at \notin WithVersion
  <2>1. CASE Break
    BY <2>1, IdleIs DEF Break, tables
  <2>2. ASSUME NEW threads \in SUBSET Threads, Begin(threads)
        PROVE  UNCHANGED <<versions, items, view>> /\ worker'.made = {} /\ worker'.at \notin WithVersion
    <3>1. worker'.made = Idle.made /\ worker'.at = "series"
      BY <2>2, IdleIs DEF Begin, WorkerFields
    <3> QED
      BY <2>2, <3>1, IdleIs DEF Begin, tables
  <2> QED
    BY <2>1, <2>2
<1>2. ItemsWhole'
  <2> SUFFICES ASSUME NEW w \in DOMAIN versions, DOMAIN items[w] \ {0} # Ordinals(w)
               PROVE  DOMAIN items[w] = {} /\ w \in Range(breaks')
    BY <1>1 DEF ItemsWhole, Ordinals, Range
  <2>1. /\ DOMAIN items[w] = {}
        /\ w \in Range(breaks) \/ (worker.at = "items" /\ worker.version = w)
    BY DEF ViewInv, ItemsWhole
  <2>2. CASE Break
    <3> DEFINE e == IF worker.at = "items" /\ DOMAIN items[worker.version] = {} THEN worker.version ELSE 0
    <3>1. breaks' = Append(breaks, e)
      BY <2>2 DEF Break
    <3>2. w \in Range(breaks) \/ w = e
      BY <2>1
    <3>3. IsSeq(breaks)
      BY DEF TypeInv, CountsInStep
    <3> HIDE DEF e
    <3>4. /\ DOMAIN Append(breaks, e) = DOMAIN breaks \cup {Len(breaks) + 1}
          /\ Append(breaks, e)[Len(breaks) + 1] = e
          /\ \A i \in DOMAIN breaks : Append(breaks, e)[i] = breaks[i]
      BY <3>3, AppendIs, Zenon
    <3> QED
      BY <2>1, <3>1, <3>2, <3>4 DEF Range
  <2>3. CASE \E threads \in SUBSET Threads : Begin(threads)
    BY <2>1, <2>3 DEF Begin
  <2> QED
    BY <2>1, <2>2, <2>3
<1>3. CoverOwn'
  BY <1>1 DEF ViewInv, CoverOwn
<1>4. FingerAtWork' /\ DatesRise' /\ ViewsShow' /\ FlagsShow'
  BY <1>1 DEF FingerAtWork, DatesRise, ViewsShow, FlagsShow
<1> QED
  BY <1>2, <1>3, <1>4 DEF ViewInv

LEMMA ViewsStay ==
  ASSUME TypeInv, ViewInv, [Next]_vars
  PROVE  ViewInv'
<1> HIDE DEF Candidate1
<1>1. CASE UNCHANGED vars \/ \E m \in DOMAIN Mail : Arrive(m)
  <2>1. UNCHANGED <<versions, items, view, breaks, worker>>
    BY <1>1 DEF vars, tables, Arrive
  <2>2. Candidate1' = Candidate1
    BY <2>1 DEF Candidate1
  <2> QED
    BY <2>1, <2>2, CalmStays
<1>2. CASE FindSeries
  <2>1. UNCHANGED <<versions, items, view, breaks>>
    BY <1>2 DEF FindSeries
  <2>2. /\ worker.at = "series" /\ worker'.at = "version" /\ worker'.todo = worker.todo
        /\ worker'.made = worker.made
    BY <1>2, FindSeriesIs
  <2> QED
    BY <2>1, <2>2, IdleIs, CalmStays
<1>3. CASE \/ \E newestFirst \in BOOLEAN : PlanSlots(newestFirst)
           \/ WriteSlot \/ WriteMapping
  <2>1. /\ UNCHANGED <<versions, items, view, breaks>> /\ worker.at \in {"plan", "slots"}
        /\ worker'.at \in {"slots", "touch"} /\ worker'.todo = worker.todo
        /\ worker'.made = worker.made /\ worker'.version = worker.version
    <3>1. CASE WriteMapping
      BY <1>3, <3>1, WorkFields DEF WriteMapping, TypeInv
    <3>2. ASSUME NEW newestFirst \in BOOLEAN, PlanSlots(newestFirst)
          PROVE  /\ UNCHANGED <<versions, items, view, breaks>> /\ worker.at = "plan"
                 /\ worker'.at = "slots" /\ worker'.todo = worker.todo
                 /\ worker'.made = worker.made /\ worker'.version = worker.version
      <4> DEFINE plan == Plan(worker.series, newestFirst)
      <4>1. worker' = [worker EXCEPT !.at = "slots", !.plan = plan, !.left = DOMAIN plan.titles]
        BY <3>2 DEF PlanSlots
      <4> HIDE DEF plan
      <4> QED
        BY <3>2, <4>1 DEF TypeInv, WorkInStep, WorkerFields, PlanSlots, tables
    <3>3. CASE WriteSlot
      <4> DEFINE k == Min(worker.left)
      <4>1. worker' = [worker EXCEPT !.left = @ \ {k}]
        BY <3>3 DEF WriteSlot
      <4> HIDE DEF k
      <4> QED
        BY <3>3, <4>1 DEF TypeInv, WorkInStep, WorkerFields, WriteSlot
    <3> QED
      BY <1>3, <3>1, <3>2, <3>3
  <2>2. Candidate1' = Candidate1
    BY <2>1 DEF Candidate1
  <2>3. worker.at \in WithVersion /\ {worker.at, worker'.at} \cap {"items", "view", "flag"} = {}
    BY <2>1 DEF WithVersion
  <2> QED
    BY <2>1, <2>2, <2>3, CalmStays
<1>4. CASE Touch
  <2>1. /\ UNCHANGED <<versions, items, view, breaks>> /\ worker.at = "touch"
    BY <1>4 DEF Touch
  <2>2. /\ worker'.made = worker.made /\ worker'.at \in {"enrich", "series"}
        /\ worker'.todo = Tail(worker.todo)
    BY <1>4, TouchIs
  <2>3. \A i \in DOMAIN worker'.todo : \E j \in DOMAIN worker.todo : worker'.todo[i] = worker.todo[j]
    <3>1. worker.todo # <<>> /\ worker.todo \in Seq({worker.todo[i] : i \in DOMAIN worker.todo})
      BY <2>1, FirstCandidate, IdleIs DEF TypeInv, WorkInStep, IsSeq
    <3>2. \A i \in DOMAIN Tail(worker.todo) : i + 1 \in DOMAIN worker.todo /\ Tail(worker.todo)[i] = worker.todo[i + 1]
      BY <3>1, TailIs, Zenon
    <3> QED
      BY <2>2, <3>2
  <2> QED
    BY <2>1, <2>2, <2>3, IdleIs, CalmStays
<1>5. CASE WriteVersion
  BY <1>5, VersionViews
<1>6. CASE WriteItems
  BY <1>6, ItemsViews
<1>7. CASE WriteView
  BY <1>7, ViewViews
<1>8. CASE FlagPartial
  BY <1>8, FlagViews
<1>9. CASE Hydrate \/ ComputePatchIds
  BY <1>9, EnrichViews DEF Enriches
<1>10. CASE Break \/ \E threads \in SUBSET Threads : Begin(threads)
  BY <1>10, EndsViews
<1> QED
  BY <1>1, <1>2, <1>3, <1>4, <1>5, <1>6, <1>7, <1>8, <1>9, <1>10 DEF Next

\* Between passes the views are what they should be.
LEMMA ViewsAreComplete ==
  ASSUME TypeInv, ViewInv
  PROVE  ViewsComplete
<1> SUFFICES ASSUME worker.at = "idle", NEW v \in worker.made
             PROVE  LET row     == versions[v]
                        older   == {w \in VersionsOf(row.series) : versions[w].num < row.num}
                        top     == Max({items[v][o].total : o \in DOMAIN items[v] \ {0}})
                        from(o) == IF o \in DOMAIN items[v] THEN v
                                   ELSE Pick({w \in older : o \in DOMAIN items[w]}, Newer)
                    IN  (\A w \in older : versions[w].sent < row.sent /\ w \notin Range(breaks)) =>
                          /\ DOMAIN view[v] \ {0} = {o \in 1..top : from(o) # 0}
                          /\ \A o \in DOMAIN view[v] \ {0} : view[v][o] = <<from(o), o>>
                          /\ row.partial = (\E o \in 1..top : from(o) \notin {0, v})
  BY Zenon DEF ViewsComplete
<1> DEFINE from(o) == IF o \in DOMAIN items[v] THEN v ELSE Pick({w \in Older(v) : o \in DOMAIN items[w]}, Newer)
<1>1. v \in DOMAIN versions /\ v # 0
  BY Domains DEF TypeInv, WorkInStep
<1> SUFFICES ASSUME Dated(v)
             PROVE  /\ DOMAIN view[v] \ {0} = {o \in Span(v) : from(o) # 0}
                    /\ \A o \in DOMAIN view[v] \ {0} : view[v][o] = <<from(o), o>>
                    /\ versions[v].partial = (\E o \in Span(v) : from(o) \notin {0, v})
  BY Zenon DEF Dated, Older, Span
<1>2. Shows(v)
  BY DEF ViewInv, ViewsShow, AtWork
<1>3. versions[v].partial = \E o \in DOMAIN view[v] : view[v][o][1] # v
  BY DEF ViewInv, FlagsShow, AtWork
<1>4. ASSUME NEW o, NEW w, Source(v, o, w)
      PROVE  from(o) = w /\ w # 0
  <2>1. CASE o \in DOMAIN items[v]
    BY <1>1, <1>4, <2>1 DEF Source
  <2>2. CASE o \notin DOMAIN items[v]
    <3> DEFINE S == {x \in Older(v) : o \in DOMAIN items[x]}
    <3>1. w \in S /\ \A x \in S : x # w => Newer(w, x)
      BY <1>4, <2>2 DEF Source
    <3>2. S \in SUBSET DOMAIN versions
      BY DEF Older, VersionsOf
    <3>3. from(o) = Pick(S, Newer)
      BY <2>2
    <3> HIDE DEF S, from
    <3>4. Pick(S, Newer) = w
      BY <3>1, <3>2, PickIs DEF TypeInv
    <3> QED
      BY <3>1, <3>2, <3>3, <3>4, Domains DEF TypeInv
  <2> QED
    BY <2>1, <2>2
<1>5. ASSUME NEW o, from(o) # 0
      PROVE  o \in DOMAIN items[v] \/ \E w \in Older(v) : o \in DOMAIN items[w]
  <2> SUFFICES ASSUME o \notin DOMAIN items[v], {x \in Older(v) : o \in DOMAIN items[x]} = {}
               PROVE  from(o) = 0
    BY <1>5, Zenon
  <2> QED
    BY DEF Pick
<1> HIDE DEF from
<1>6. ASSUME NEW o \in DOMAIN view[v] \ {0}
      PROVE  o \in Span(v) /\ view[v][o] = <<from(o), o>> /\ from(o) # 0
  <2>1. o \in Span(v) /\ \E w : view[v][o] = <<w, o>> /\ Source(v, o, w)
    BY <1>2, <1>6, Zenon DEF Shows
  <2>2. PICK w : view[v][o] = <<w, o>> /\ Source(v, o, w)
    BY <2>1
  <2> QED
    BY <1>4, <2>1, <2>2
<1>7. 0 \notin Span(v)
  BY DEF Span
<1>8. ASSUME NEW o \in Span(v), from(o) # 0
      PROVE  o \in DOMAIN view[v] \ {0}
  BY <1>2, <1>5, <1>7, <1>8 DEF Shows
<1>9. versions[v].partial = (\E o \in Span(v) : from(o) \notin {0, v})
  <2>1. ASSUME NEW o \in DOMAIN view[v], view[v][o][1] # v
        PROVE  o \in Span(v) /\ from(o) \notin {0, v}
    <3>1. o # 0
      BY <2>1 DEF ViewInv, CoverOwn, TypeInv, WorkInStep
    <3>2. o \in Span(v) /\ view[v][o] = <<from(o), o>> /\ from(o) # 0
      BY <1>6, <2>1, <3>1
    <3> QED
      BY <2>1, <3>2
  <2>2. ASSUME NEW o \in Span(v), from(o) \notin {0, v}
        PROVE  o \in DOMAIN view[v] /\ view[v][o][1] # v
    <3>1. o \in DOMAIN view[v] \ {0}
      BY <1>8, <2>2
    <3>2. view[v][o] = <<from(o), o>>
      BY <1>6, <3>1
    <3> QED
      BY <2>2, <3>1, <3>2
  <2>3. (\E o \in DOMAIN view[v] : view[v][o][1] # v) <=> (\E o \in Span(v) : from(o) \notin {0, v})
    BY <2>1, <2>2
  <2>4. versions[v].partial \in BOOLEAN
    BY <1>1 DEF TypeInv, VersionRows
  <2> QED
    BY <1>3, <2>3, <2>4
<1> QED
  BY <1>6, <1>8, <1>9

\* After a whole pass each version that it wrote shows every ordinal as it is in the newest version
\* that has it, and is partial if one is inherited, unless an older version is dated later or was
\* left without its items by a break.
THEOREM ViewsShowAll == Spec => []ViewsComplete
<1>1. TypeInv /\ ViewInv /\ [Next]_vars => ViewInv'
  BY ViewsStay
<1>2. TypeInv /\ ViewInv => ViewsComplete
  BY ViewsAreComplete
<1> QED
  BY <1>1, <1>2, ViewsFromStart, TypesHold, PTL DEF Spec

=============================================================================
