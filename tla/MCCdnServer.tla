----------------------------- MODULE MCCdnServer -----------------------------
(* CdnServer for TLC: which losses a run allows. *)
EXTENDS CdnServer

Losses == {"close", "deaf", "timeout"}
=============================================================================
