----------------------------- MODULE MCNewDeploy ----------------------------
(* NewDeploy for TLC.                                                      *)
EXTENDS NewDeploy
=============================================================================
