------------------------------ MODULE MCThreads ------------------------------
(* Instances of Threads for TLC: mailboxes of three messages, in the order of *)
(* their dates.                                                               *)
EXTENDS Threads

Box(ids, refs, subjects, epochs) ==
    [m \in 1..3 |-> [id |-> ids[m], refs |-> refs[m], date |-> m, epoch |-> epochs[m],
                     subject |-> subjects[m][1], reply |-> subjects[m][2]]]

Ids     == <<1, 2, 3>>
None    == <<0, FALSE>>
Topic   == <<1, FALSE>>
Re      == <<1, TRUE>>
Plain   == <<None, None, None>>
OneRepo == <<0, 0, 0>>

\* Reference chains among the three messages and a missing one.
Chains(m) ==
    {s \in UNION {[1..n -> 1..4 \ {m}] : n \in 0..2} : \A i, j \in DOMAIN s : i # j => s[i] # s[j]}

\* Chains in any direction, to the missing message, and in the wrong order.
Tangled == {Box(Ids, <<a, b, c>>, Plain, OneRepo) :
              a \in {<<>>, <<2>>}, b \in Chains(2) \ {<<3, 1>>, <<3, 4>>, <<4, 3>>, <<4, 1>>},
              c \in {<<4>>, <<1, 2>>, <<2, 1>>}}

\* Mail of several epochs, with a gap between them.
Epochal == {Box(Ids, <<<<>>, b, c>>, Plain, e) :
              b \in {<<>>, <<1>>, <<4>>}, c \in {<<1>>, <<2>>, <<4>>},
              e \in {<<0, 0, 1>>, <<0, 1, 3>>, <<3, 1, 0>>}}

\* Replies by their subject.
Fallbacks == {Box(Ids, <<<<>>, <<>>, c>>, s, OneRepo) :
              c \in {<<>>, <<1>>, <<2>>},
              s \in {<<Topic, Re, Re>>, <<Re, Topic, Re>>, <<Re, Re, Topic>>, <<Topic, Topic, Re>>}}

\* Two messages of one id.
Duplicates == {Box(i, <<<<>>, b, c>>, Plain, OneRepo) :
              b \in {<<>>, <<1>>}, c \in {<<>>, <<1>>, <<2>>, <<1, 2>>},
              i \in {<<1, 1, 3>>, <<1, 2, 1>>}}

AnyMail == Tangled \cup Epochal \cup Fallbacks \cup Duplicates
LateMail == {Box(Ids, <<a, <<>>, c>>, Plain, OneRepo) : a \in {<<>>, <<2>>, <<4>>}, c \in Chains(3)}
=============================================================================
