----------------------------- MODULE MCTriggers -----------------------------
(* Triggers for TLC.                                                       *)
EXTENDS Triggers
=============================================================================
