---------------------------- MODULE OrderedChannel ----------------------------
(***************************************************************************)
(* What sending on an OpenFlow connection promises: the units a connection *)
(* is given, numbered from 1, are taken once each and in order, perhaps    *)
(* not to the last.                                                        *)
(***************************************************************************)
EXTENDS Naturals, Sequences

CONSTANT Conns

VARIABLES given,    \* how many units each connection was given
          taken     \* those its socket has taken, in order

vars == <<given, taken>>

FirstUnits(n) == [k \in 1..n |-> k]

Init == given = [c \in Conns |-> 0] /\ taken = [c \in Conns |-> << >>]

\* One connection is given units, or takes some, or both.
Move(c, g, t) ==
    /\ given[c] <= g /\ Len(taken[c]) <= t /\ t <= g
    /\ given' = [given EXCEPT ![c] = g]
    /\ taken' = [taken EXCEPT ![c] = FirstUnits(t)]

Next == \E c \in Conns : Move(c, given'[c], Len(taken'[c]))

Spec == Init /\ [][Next]_vars
=============================================================================
