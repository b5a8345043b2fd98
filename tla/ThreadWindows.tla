---------------------------- MODULE ThreadWindows ----------------------------
(* How the threading stage and the threading rebuild cut a list's repositories *)
(* git/<epoch>.git into windows: build_threading_epoch_windows.                 *)
EXTENDS Integers, FiniteSets

CONSTANT Epochs   \* epoch numbers of the list's repositories

ASSUME EpochsAssumption == Epochs \subseteq Nat /\ Epochs # {} /\ IsFiniteSet(Epochs)

\* The epochs from the one before the first touched epoch on.
Scoped(touched) == {e \in Epochs : \E t \in touched : e >= t - 1}
Neighbours(es) == {p \in es \X es : p[1] < p[2] /\ \A e \in es : ~(p[1] < e /\ e < p[2])}

\* Mutant of EpochWindows: the last pair is left out.
EpochWindowsShort(touched) ==
    LET scoped == Scoped(touched)
    IN  IF Cardinality(scoped) = 1
        THEN {scoped}
        ELSE {{p[1], p[2]} : p \in {q \in Neighbours(scoped) : \E e \in scoped : q[2] < e}}

EpochWindows(touched) ==
    LET scoped == Scoped(touched)
    IN  IF Cardinality(scoped) = 1
        THEN {scoped}
        ELSE {{p[1], p[2]} : p \in Neighbours(scoped)}

\* The windows of a job, and those it takes next.
WindowsOf(touched) == IF touched = {} THEN {} ELSE EpochWindows(touched)
FirstWindows(left) == {w \in left : \A v \in left : \E e \in w : \A f \in v : e =< f}
=============================================================================
