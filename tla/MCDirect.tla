------------------------------ MODULE MCDirect ------------------------------
(* DirectSwitch for TLC: of two hosts the first moves, there and back or on   *)
(* to the third port; only the mover sends to a group or a filtered address,  *)
(* at most once in a tick.                                                    *)
EXTENDS DirectSwitch

CONSTANTS h1, p1, p2

OneMoves ==
    /\ at[CHOOSE h \in Hosts : h # h1] = p2
    /\ moves = 0 => at[h1] = p1

Sparse ==
    \A d, g \in Groups \cup Filtered, h \in Hosts :
        <<h, d>> \in sent => h = h1 /\ (<<h, g>> \in sent => g = d)

Small == OneMoves /\ Sparse
=============================================================================
