----------------------------- MODULE MCExecutor -----------------------------
(* Model-checking instances of Executor.                                   *)
EXTENDS Executor

(* Functions are alike, and no property names one: it is enough to look at *)
(* the behaviours in which a certain request is for a certain function.    *)
MCInit == Init /\ fn[CHOOSE r \in Req : TRUE] = CHOOSE f \in Fn : TRUE

MCSpec == MCInit /\ [][Next]_vars /\ Fairness
=============================================================================
