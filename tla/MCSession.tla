------------------------------ MODULE MCSession ------------------------------
(* P2PSession for TLC: sleeps that guarantee nothing.                        *)
EXTENDS P2PSession

NoSleeps == {}
=============================================================================
