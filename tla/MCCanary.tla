------------------------------ MODULE MCCanary ------------------------------
(* Model-checking instances of Canary.                                     *)
EXTENDS Canary
=============================================================================
