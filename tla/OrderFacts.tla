------------------------------ MODULE OrderFacts ------------------------------
(* What finite sets have that are put in order: a least and a greatest member, *)
(* and one at every rank.  An order is the set of its pairs.                   *)
EXTENDS FiniteSets, Integers, TLAPS, FiniteSetTheorems, FunctionTheorems, WellFoundedInduction,
        NaturalsInduction

StrictOrder(R, S) ==
  /\ \A x \in S : <<x, x>> \notin R
  /\ \A x, y, z \in S : <<x, y>> \in R /\ <<y, z>> \in R => <<x, z>> \in R
  /\ \A x, y \in S : x # y => <<x, y>> \in R \/ <<y, x>> \in R

\* The members before one.
Before(R, S, x) == {y \in S : <<y, x>> \in R}

LEMMA LeastIn ==
  ASSUME NEW S, IsFiniteSet(S), S # {}, NEW R, StrictOrder(R, S)
  PROVE  \E m \in S : \A x \in S : x # m => <<m, x>> \in R
<1> DEFINE Less == StrictSubsetOrdering(S)
           Family == {Before(R, S, x) : x \in S}
<1>1. IsWellFoundedOn(Less, FiniteSubsetsOf(S))
  BY FS_StrictSubsetOrderingWellFounded
<1>2. Family \subseteq FiniteSubsetsOf(S) /\ Family # {}
  <2>1. \A x \in S : Before(R, S, x) \in SUBSET S
    BY DEF Before
  <2>2. Family # {}
    OBVIOUS
  <2> QED
    BY <2>1, <2>2, FS_FiniteSubsetsOfFinite
<1>3. PICK B \in Family : \A C \in Family : <<C, B>> \notin Less
  <2> HIDE DEF Less, Family
  <2> QED
    BY <1>1, <1>2, WFMin
<1>4. PICK m \in S : B = Before(R, S, m)
  OBVIOUS
<1>5. ASSUME NEW x \in S, x # m PROVE <<m, x>> \in R
  <2> SUFFICES ASSUME <<x, m>> \in R PROVE FALSE
    BY <1>5 DEF StrictOrder
  <2>1. Before(R, S, x) \subseteq Before(R, S, m)
    BY DEF Before, StrictOrder
  <2>2. x \in Before(R, S, m) /\ x \notin Before(R, S, x)
    BY DEF Before, StrictOrder
  <2>3. Before(R, S, x) \in SUBSET S /\ Before(R, S, m) \in SUBSET S
    BY DEF Before
  <2>4. <<Before(R, S, x), Before(R, S, m)>> \in Less
    BY <2>1, <2>2, <2>3 DEF StrictSubsetOrdering
  <2> QED
    BY <1>3, <1>4, <2>4
<1> QED
  BY <1>5

\* The members before one are fewer than those before a later one.
LEMMA RankGrows ==
  ASSUME NEW S, IsFiniteSet(S), NEW R, StrictOrder(R, S), NEW x \in S, NEW y \in S, <<x, y>> \in R
  PROVE  Cardinality(Before(R, S, x)) < Cardinality(Before(R, S, y))
<1>1. ASSUME NEW z \in S PROVE IsFiniteSet(Before(R, S, z)) /\ Cardinality(Before(R, S, z)) \in Nat
  <2>1. Before(R, S, z) \in SUBSET S
    BY DEF Before
  <2> QED
    BY <2>1, FS_Subset, FS_CardinalityType
<1>2. Before(R, S, x) \in SUBSET Before(R, S, y)
  BY DEF Before, StrictOrder
<1>3. x \in Before(R, S, y) /\ x \notin Before(R, S, x)
  BY DEF Before, StrictOrder
<1>4. /\ Cardinality(Before(R, S, x)) <= Cardinality(Before(R, S, y))
      /\ Cardinality(Before(R, S, y)) # Cardinality(Before(R, S, x))
  BY <1>1, <1>2, <1>3, FS_Subset
<1> QED
  BY <1>1, <1>4

\* Every rank is taken.
LEMMA Ranked ==
  ASSUME NEW S, IsFiniteSet(S), NEW R, StrictOrder(R, S), NEW n \in 1..Cardinality(S)
  PROVE  \E c \in S : Cardinality(Before(R, S, c)) = n - 1
<1> DEFINE N == 0..Cardinality(S) - 1
           rank == [x \in S |-> Cardinality(Before(R, S, x))]
<1>1. Cardinality(S) \in Nat
  BY FS_CardinalityType
<1>2. ASSUME NEW x \in S
      PROVE  IsFiniteSet(Before(R, S, x)) /\ Cardinality(Before(R, S, x)) \in N
  <2>1. Before(R, S, x) \in SUBSET S /\ x \notin Before(R, S, x)
    BY DEF Before, StrictOrder
  <2>2. IsFiniteSet(Before(R, S, x)) /\ Cardinality(Before(R, S, x)) <= Cardinality(S)
        /\ (Cardinality(S) = Cardinality(Before(R, S, x)) => S = Before(R, S, x))
    BY <2>1, FS_Subset
  <2>3. Cardinality(Before(R, S, x)) \in Nat
    BY <2>2, FS_CardinalityType
  <2> QED
    BY <1>1, <2>1, <2>2, <2>3
<1>3. ASSUME NEW x \in S, NEW y \in S, <<x, y>> \in R
      PROVE  Cardinality(Before(R, S, x)) < Cardinality(Before(R, S, y))
  BY <1>3, RankGrows
<1>4. rank \in Injection(S, N)
  <2>1. rank \in [S -> N]
    BY <1>2
  <2>2. ASSUME NEW x \in S, NEW y \in S, rank[x] = rank[y] PROVE x = y
    <3>1. Cardinality(Before(R, S, x)) = Cardinality(Before(R, S, y))
          /\ Cardinality(Before(R, S, x)) \in Nat
      BY <1>2, <2>2
    <3>2. <<x, y>> \notin R /\ <<y, x>> \notin R
      BY <1>3, <3>1
    <3> QED
      BY <3>2 DEF StrictOrder
  <2> HIDE DEF rank, N
  <2> QED
    BY <2>1, <2>2, Fun_IsInj
<1>5. IsFiniteSet(N) /\ Cardinality(N) = Cardinality(S)
  <2> DEFINE k == Cardinality(S) - 1
  <2>1. k \in Int /\ 0 =< k
    BY <1>1
  <2> HIDE DEF k
  <2>2. IsFiniteSet(0..k) /\ Cardinality(0..k) = k - 0 + 1
    BY <2>1, FS_Interval
  <2> QED
    BY <1>1, <2>1, <2>2 DEF k
<1>6. rank \in Surjection(S, N)
  <2> HIDE DEF rank, N
  <2> QED
    BY <1>4, <1>5, FS_Injection
<1>7. n - 1 \in N
  BY <1>1
<1>8. \E c \in S : rank[c] = n - 1
  <2> HIDE DEF rank, N
  <2> QED
    BY <1>6, <1>7, Fun_SurjectionProperties
<1> QED
  BY <1>8

\* A set of numbers has a least one, and a greatest one if it is finite.
LEMMA LeastOf ==
  ASSUME NEW T \in SUBSET Nat, T # {}
  PROVE  \E m \in T : \A n \in T : m =< n
<1> DEFINE Below == {p \in Nat \X Nat : p[1] < p[2]}
<1>1. IsWellFoundedOn(Below, Nat)
  BY NatLessThanWellFounded DEF OpToRel
<1>2. PICK m \in T : \A n \in T : <<n, m>> \notin Below
  <2> HIDE DEF Below
  <2> QED
    BY <1>1, WFMin
<1>3. ASSUME NEW n \in T PROVE m =< n
  <2>1. m \in Nat /\ n \in Nat /\ <<n, m>> \notin Below
    BY <1>2
  <2> QED
    BY <2>1
<1> QED
  BY <1>3

LEMMA GreatestOf ==
  ASSUME NEW T \in SUBSET Nat, IsFiniteSet(T), T # {}
  PROVE  \E m \in T : \A n \in T : n =< m
<1> DEFINE Above == {p \in T \X T : p[1] > p[2]}
<1>1. StrictOrder(Above, T)
  BY DEF StrictOrder
<1>2. PICK m \in T : \A x \in T : x # m => <<m, x>> \in Above
  <2> HIDE DEF Above
  <2> QED
    BY <1>1, LeastIn
<1>3. ASSUME NEW x \in T PROVE x =< m
  <2>1. x = m \/ <<m, x>> \in Above
    BY <1>2
  <2> QED
    BY <2>1
<1> QED
  BY <1>3

LEMMA ImageFinite ==
  ASSUME NEW S, IsFiniteSet(S), NEW T, NEW f \in [S -> T]
  PROVE  IsFiniteSet({f[x] : x \in S})
<1> DEFINE I == {f[x] : x \in S}
<1>1. f \in [S -> I] /\ \A y \in I : \E x \in S : f[x] = y
  OBVIOUS
<1>2. f \in Surjection(S, I)
  <2> HIDE DEF I
  <2> QED
    BY <1>1, Fun_IsSurj
<1> HIDE DEF I
<1>3. IsFiniteSet(I)
  BY <1>2, FS_Surjection
<1> QED
  BY <1>3 DEF I

=============================================================================
