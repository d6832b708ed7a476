--------------------------- MODULE MCPackageBuild ---------------------------
(* Model-checking instance of PackageBuild.                                *)
EXTENDS PackageBuild
=============================================================================
