--------------------------- MODULE MCPoolManager ---------------------------
(* Model-checking instances of PoolManager.                                *)
EXTENDS PoolManager
=============================================================================
