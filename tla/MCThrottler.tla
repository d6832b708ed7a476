---------------------------- MODULE MCThrottler ----------------------------
(* Model-checking instance of Throttler.                                   *)
EXTENDS Throttler
=============================================================================
