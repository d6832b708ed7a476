----------------------------- MODULE TriggerList -----------------------------
(***************************************************************************)
(* A trigger resource as the processes that poll the triggers see it: the  *)
(* message queue trigger manager, the timer and the Kubernetes watcher all *)
(* list their kind of trigger every three seconds and compare the list     *)
(* with what they run.  A trigger is known by its UID and its resource     *)
(* version (crd.CacheKey); users update it, delete it and create one with  *)
(* the same name again.  The list call fails on network errors.            *)
(***************************************************************************)
EXTENDS Integers, FiniteSets

CONSTANTS MaxChanges, \* how often users change the trigger
          MaxFaults,  \* how many calls fail
          Varied      \* versions that may be of another type, or lack a builder image

ASSUME ListAssumption ==
  MaxChanges \in Nat /\ MaxFaults \in Nat /\ Varied \subseteq 1 .. MaxChanges + 1

VARIABLES
  trigger, \* the set that holds the trigger, empty when it is deleted
  changes, \* changes by users so far
  faults,  \* failures so far
  listed   \* the triggers that the present round has listed

listVars == <<trigger, changes, faults, listed>>

\* Every creation follows a deletion.
Uids == 1 .. MaxChanges \div 2 + 1
Keys == [uid : Uids, rv : 1 .. MaxChanges + 1]

ListTypeOK ==
  /\ trigger \in SUBSET Keys /\ Cardinality(trigger) <= 1
  /\ changes \in 0 .. MaxChanges
  /\ faults \in 0 .. MaxFaults
  /\ listed \in SUBSET Keys

ListInit ==
  /\ trigger = {[uid |-> 1, rv |-> 1]}
  /\ changes = 0 /\ faults = 0 /\ listed = {}

\* Every change of the cluster has a new resource version.
Change ==
  /\ changes < MaxChanges /\ changes' = changes + 1
  /\ trigger' \in
       IF trigger = {}
       THEN {{[uid |-> (changes + 3) \div 2, rv |-> changes + 2]}}
       ELSE {{}} \union {{[t EXCEPT !.rv = changes + 2]} : t \in trigger}
  /\ UNCHANGED <<faults, listed>>

\* A call fails, as far as the bound on failures allows.
Fault == faults < MaxFaults /\ faults' = faults + 1

NoFault == UNCHANGED faults

\* A call fails or succeeds.
Fails(failed) == IF failed THEN Fault ELSE NoFault
==============================================================================
