------------------------------ MODULE MCRouter ------------------------------
(* Model-checking instances of Router.                                     *)
EXTENDS Router
=============================================================================
