------------------------------- MODULE MCRecoco -------------------------------
(* Recoco for TLC: the OpenFlow task, a thread that may quit POX, and either a *)
(* timer's thread or another caller, which is a bound on who begins.          *)
EXTENDS Recoco

CONSTANTS t1, c1, c2

OneStays == \E x \in {t1, c1} : ~Begun(x)
=============================================================================
