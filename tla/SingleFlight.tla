---------------------------- MODULE SingleFlight ----------------------------
(***************************************************************************)
(* What the executor promises for each function: at any time at most one   *)
(* worker builds the service of a given key, other keys are independent,   *)
(* and a restart of the process abandons all work in progress.             *)
(***************************************************************************)
CONSTANTS Worker, Key

VARIABLE running   \* running[k]: the workers that are building for key k

Init == running = [k \in Key |-> {}]

Begin(k, w) ==
    /\ running[k] = {}
    /\ running' = [running EXCEPT ![k] = {w}]

End(k) ==
    /\ running[k] # {}
    /\ running' = [running EXCEPT ![k] = {}]

Abandon == running' = [k \in Key |-> {}]

Next ==
    \/ \E k \in Key : End(k) \/ \E w \in Worker : Begin(k, w)
    \/ Abandon

Spec == Init /\ [][Next]_running
=============================================================================
