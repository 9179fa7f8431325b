------------------------------ MODULE MCOpenFlow ------------------------------
(* OpenFlowChannel for TLC: connections a and b of one switch.                *)
EXTENDS OpenFlowChannel

CONSTANTS a, b, s1

TwoOfOne == [c \in Conns |-> s1]

\* The switch of a connects a second time, as b, once a is known to be its own; b
\* gets through the handshake, a is sent two messages more.
Reconnects == stage[b] # "none" => Identified(a) /\ given[b] <= 4
=============================================================================
