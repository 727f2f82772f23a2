----------------------------- MODULE MCFineTune ----------------------------
(* FineTune with a few workers and faults.                                   *)
EXTENDS FineTune
=============================================================================
