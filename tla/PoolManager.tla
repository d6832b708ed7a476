---------------------------- MODULE PoolManager ----------------------------
(***************************************************************************)
(* pkg/executor/executortype/poolmgr: the generic pools of one environment.*)
(*                                                                         *)
(* The manager's service goroutine owns the map from environment versions  *)
(* to pools and handles GET_POOL and CLEANUP_POOLS one after the other.    *)
(* A pool has a deployment of generic pods, and a goroutine that chooses   *)
(* pods for functions, one request at a time; a pool that is cleaned up    *)
(* is destroyed by a goroutine of its own.  The eager pool creator lists   *)
(* the environments, asks for their pools and for the clean-up, and sleeps.*)
(*                                                                         *)
(* A caller is a function for which GetFuncSvc is executed (the executor   *)
(* lets one call per function run at a time).  The deployments and pods of *)
(* Kubernetes are external; a deployment has one replica here.  The labels *)
(* by which a pool lists its pods do not hold the environment's version.   *)
(***************************************************************************)
EXTENDS Naturals

CONSTANTS
    Caller,       \* functions of the environment
    Pool,         \* GenericPool objects
    GenericPod,   \* pods of its pools
    MaxVersion,   \* bound on the updates of the environment
    MaxCalls,     \* bound on the calls of GetFuncSvc
    MaxErrors,    \* bound on failed API calls and slow pods
    Nil           \* no version, pool, pod or function

ASSUME BoundAssumption ==
    MaxVersion \in Nat /\ MaxCalls \in Nat /\ MaxErrors \in Nat

ASSUME NilAssumption == Nil \notin Caller \cup Pool \cup GenericPod \cup Nat

Version == 0 .. MaxVersion

VARIABLES
    env,          \* the environment's version in the API server
    functionEnv,  \* functionEnv[c]: the version cached for function c
    pools,        \* pools[v]: the pool of version v in the manager's map
    pool,         \* pool[p]: the pool objects
    deployments,  \* versions that have a deployment
    pods,         \* pods[q]: what pod q is
    call,         \* call[c]: the call of GetFuncSvc for function c
    eager,        \* the eager pool creator
    calls,        \* number of calls so far
    errors        \* number of errors so far

kubeVars == <<deployments, pods>>
poolsVars == <<env, functionEnv, pools, pool, kubeVars, call, eager, calls, errors>>

(* A pool object: its version, where its choosePodService is, the function *)
(* served, the pod chosen, and how far its destruction has come.           *)
PoolState ==
    [version : Version, svc : {"idle", "list", "relabel", "exited"},
     serving : Caller \cup {Nil}, chosen : GenericPod \cup {Nil},
     destroy : {"no", "delete", "done"}]

(* A ready pod: the deployment's version, and the function the pod was     *)
(* relabelled for.                                                         *)
PodState == [version : Version, label : Caller \cup {Nil}]

CallState ==
    [pc : {"idle", "pool", "choose", "wait", "specialize", "stuck"},
     version : Version \cup {Nil}, pool : Pool \cup {Nil}, pod : GenericPod \cup {Nil}]

EagerState == [list : Version \cup {Nil}, pool : BOOLEAN, cleanup : BOOLEAN]

PoolsTypeOK ==
    /\ env \in Version
    /\ functionEnv \in [Caller -> Version \cup {Nil}]
    /\ pools \in [Version -> Pool \cup {Nil}]
    /\ pool \in [Pool -> PoolState]
    /\ deployments \subseteq Version
    /\ pods \in [GenericPod -> PodState \cup {Nil}]
    /\ call \in [Caller -> CallState]
    /\ \A c \in Caller :
         /\ call[c].pc = "pool" => call[c].version # Nil
         /\ call[c].pc \in {"choose", "wait"} => call[c].pool # Nil
         /\ call[c].pc = "specialize" => call[c].pod # Nil
    /\ eager \in EagerState
    /\ calls \in 0 .. MaxCalls
    /\ errors \in 0 .. MaxErrors

NoCall == [pc |-> "idle", version |-> Nil, pool |-> Nil, pod |-> Nil]

PoolsInit ==
    /\ env = 0
    /\ functionEnv = [c \in Caller |-> Nil]
    /\ pools = [v \in Version |-> Nil]
    /\ pool = [p \in Pool |-> [version |-> 0, svc |-> "exited", serving |-> Nil,
                               chosen |-> Nil, destroy |-> "done"]]
    /\ deployments = {}
    /\ pods = [q \in GenericPod |-> Nil]
    /\ call = [c \in Caller |-> NoCall]
    /\ eager = [list |-> Nil, pool |-> FALSE, cleanup |-> FALSE]
    /\ calls = 0
    /\ errors = 0
-----------------------------------------------------------------------------
Error ==
    /\ errors < MaxErrors
    /\ errors' = errors + 1

Exists(q) == pods[q] # Nil

(* Pods with the labels of the environment's pools: not relabelled.        *)
Managed(q) == Exists(q) /\ pods[q].label = Nil

(* Faulty: the pods are listed by labels that relabelling does not change. *)
ReadyOfAnyLabel == {q \in GenericPod : Exists(q)}

(* The pods that _choosePod finds, of every version.                       *)
ReadyPods == {q \in GenericPod : Managed(q)}

(* A pool object that nothing refers to any more stands for a new one.     *)
Unused(p) ==
    /\ pool[p].svc = "exited"
    /\ pool[p].destroy = "done"
    /\ \A c \in Caller : call[c].pool # p

(* The pool that GET_POOL answers for version v: the one in the map, or a  *)
(* new one.                                                                *)
PoolOf(v) == IF pools[v] # Nil THEN pools[v] ELSE CHOOSE p \in Pool : Unused(p)

(* GET_POOL in the service goroutine: a pool that is not in the map is     *)
(* created, with the deployment of its name, which may exist already.      *)
GetPool(v) ==
    \/ /\ pools[v] # Nil
       /\ UNCHANGED <<pools, pool, deployments>>
    \/ /\ pools[v] = Nil
       /\ \E p \in Pool : Unused(p)
       /\ pools' = [pools EXCEPT ![v] = PoolOf(v)]
       /\ pool' = [pool EXCEPT ![PoolOf(v)] =
            [version |-> v, svc |-> "idle", serving |-> Nil, chosen |-> Nil,
             destroy |-> "no"]]
       /\ deployments' = deployments \cup {v}
-----------------------------------------------------------------------------
(* GetFuncSvc for function c.                                              *)

(* GetFuncSvc returns, with a pod or an error.                             *)
CallEnds(c) == call' = [call EXCEPT ![c] = NoCall]

(* A call begins with getFunctionEnv: the version is taken from the cache, *)
(* or from the API server into the cache.                                  *)
GetFunctionEnv(c) ==
    /\ call[c].pc = "idle"
    /\ calls < MaxCalls
    /\ calls' = calls + 1
    /\ LET v == IF functionEnv[c] # Nil THEN functionEnv[c] ELSE env IN
       \/ /\ functionEnv' = [functionEnv EXCEPT ![c] = v]
          /\ call' = [call EXCEPT ![c].pc = "pool", ![c].version = v]
          /\ UNCHANGED errors
       \/ /\ functionEnv[c] = Nil
          /\ Error
          /\ CallEnds(c)
          /\ UNCHANGED functionEnv
    /\ UNCHANGED <<env, pools, pool, kubeVars, eager>>

(* Ten seconds after it was stored the entry of the cache is no longer     *)
(* returned.  (An entry that is up to date is read again as it was.)       *)
FunctionEnvExpires(c) ==
    /\ functionEnv[c] \notin {Nil, env}
    /\ functionEnv' = [functionEnv EXCEPT ![c] = Nil]
    /\ UNCHANGED <<env, pools, pool, kubeVars, call, eager, calls, errors>>

(* GetFuncSvc asks the service goroutine for the pool.                     *)
CallGetsPool(c) ==
    /\ call[c].pc = "pool"
    /\ \/ /\ GetPool(call[c].version)
          /\ call' = [call EXCEPT ![c] = [NoCall EXCEPT
                         !.pc = "choose", !.pool = PoolOf(call[c].version)]]
          /\ UNCHANGED errors
       \/ /\ pools[call[c].version] = Nil
          /\ Error
          /\ CallEnds(c)
          /\ UNCHANGED <<pools, pool, deployments>>
    /\ UNCHANGED <<env, functionEnv, pods, eager, calls>>

(* choosePodService receives the request that choosePod sends.             *)
Accept(p) ==
    /\ pool[p].svc = "idle"
    /\ \E c \in Caller :
         /\ call[c].pc = "choose" /\ call[c].pool = p
         /\ call' = [call EXCEPT ![c].pc = "wait"]
         /\ pool' = [pool EXCEPT ![p].svc = "list", ![p].serving = c]
    /\ UNCHANGED <<env, functionEnv, pools, kubeVars, eager, calls, errors>>

(* choosePodService returns when the pool's context is done.  Calls that   *)
(* are about to send it a request block for ever: nothing receives from    *)
(* the channel any more.                                                   *)
Exit(p) ==
    /\ pool[p].svc = "idle"
    /\ pool[p].destroy \in {"delete", "done"}
    /\ pool' = [pool EXCEPT ![p].svc = "exited"]
    /\ call' = [c \in Caller |-> IF call[c].pc = "choose" /\ call[c].pool = p
                                 THEN [NoCall EXCEPT !.pc = "stuck"] ELSE call[c]]
    /\ UNCHANGED <<env, functionEnv, pools, kubeVars, eager, calls, errors>>

(* The pool's goroutine answers the call and waits for the next one.       *)
Served(p) == [pool EXCEPT ![p].svc = "idle", ![p].serving = Nil, ![p].chosen = Nil]

(* Faulty: choosePodService goes on after an error without an answer.      *)
ListPodsSilently(p) ==
    /\ pool[p].svc = "list"
    /\ \/ /\ \E q \in ReadyPods :
               pool' = [pool EXCEPT ![p].svc = "relabel", ![p].chosen = q]
          /\ UNCHANGED errors
       \/ /\ Error
          /\ pool' = Served(p)
    /\ UNCHANGED <<env, functionEnv, pools, kubeVars, call, eager, calls>>

(* _choosePod lists the pods and picks one.  Without one it polls the      *)
(* deployment (waitForReadyPod): an error when that is gone or cannot be   *)
(* read, and when no pod becomes ready in time.                            *)
ListPods(p) ==
    /\ pool[p].svc = "list"
    /\ \/ /\ \E q \in ReadyPods :
               pool' = [pool EXCEPT ![p].svc = "relabel", ![p].chosen = q]
          /\ UNCHANGED <<call, errors>>
       \/ /\ ReadyPods = {} /\ pool[p].version \notin deployments
          /\ pool' = Served(p)
          /\ CallEnds(pool[p].serving)
          /\ UNCHANGED errors
       \/ /\ Error
          /\ pool' = Served(p)
          /\ CallEnds(pool[p].serving)
    /\ UNCHANGED <<env, functionEnv, pools, kubeVars, eager, calls>>

(* The chosen pod is patched with the function's labels.  The patch        *)
(* names no resource version: it succeeds on a pod that has been relabelled*)
(* since it was listed, and fails when the pod is gone or the call fails;  *)
(* then the pods are listed again.  A patch that changed nothing is an     *)
(* error.                                                                  *)
RelabelPod(p) ==
    LET c == pool[p].serving
        q == pool[p].chosen
    IN
    /\ pool[p].svc = "relabel"
    /\ \/ /\ Exists(q)
          /\ pods' = [pods EXCEPT ![q].label = c]
          /\ call' = [call EXCEPT ![c] = [NoCall EXCEPT !.pc = "specialize", !.pod = q]]
          /\ pool' = Served(p)
          /\ UNCHANGED errors
       \/ /\ IF Exists(q) THEN Error ELSE UNCHANGED errors
          /\ pool' = [pool EXCEPT ![p].svc = "list", ![p].chosen = Nil]
          /\ UNCHANGED <<pods, call>>
       \/ /\ Exists(q) /\ Error
          /\ pool' = Served(p)
          /\ CallEnds(c)
          /\ UNCHANGED pods
    /\ UNCHANGED <<env, functionEnv, pools, deployments, eager, calls>>

(* The fetcher loads the function into the pod, or fails: then the pod is  *)
(* deleted.                                                                *)
SpecializeChosen(c) ==
    /\ call[c].pc = "specialize"
    /\ \/ /\ Exists(call[c].pod)
          /\ CallEnds(c)
          /\ UNCHANGED <<pods, errors>>
       \/ /\ IF Exists(call[c].pod) THEN Error ELSE UNCHANGED errors
          /\ pods' = [pods EXCEPT ![call[c].pod] = Nil]
          /\ CallEnds(c)
    /\ UNCHANGED <<env, functionEnv, pools, pool, deployments, eager, calls>>
-----------------------------------------------------------------------------
(* eagerPoolCreator.                                                       *)

EagerLists ==
    /\ eager.list = Nil
    /\ eager' = [list |-> env, pool |-> TRUE, cleanup |-> TRUE]
    /\ UNCHANGED <<env, functionEnv, pools, pool, kubeVars, call, calls, errors>>

(* Both requests handled: the creator sleeps before it lists again.        *)
EagerAfter(e) ==
    IF e.pool \/ e.cleanup THEN e ELSE [e EXCEPT !.list = Nil]

EagerGetsPool ==
    /\ eager.pool
    /\ \/ GetPool(eager.list) /\ UNCHANGED errors
       \/ /\ pools[eager.list] = Nil
          /\ Error
          /\ UNCHANGED <<pools, pool, deployments>>
    /\ eager' = EagerAfter([eager EXCEPT !.pool = FALSE])
    /\ UNCHANGED <<env, functionEnv, pods, call, calls>>

(* Faulty: the clean-up leaves the pools of older versions in the map.     *)
CleanupSkipped ==
    /\ eager.cleanup
    /\ eager' = EagerAfter([eager EXCEPT !.cleanup = FALSE])
    /\ UNCHANGED <<env, functionEnv, pools, pool, kubeVars, call, calls, errors>>

(* CLEANUP_POOLS in the service goroutine: the pools of versions that are  *)
(* not in the list leave the map and are destroyed by other goroutines,    *)
(* which begin by cancelling the pool's context.                           *)
CleanupPools ==
    LET gone == {v \in Version : v # eager.list /\ pools[v] # Nil} IN
    /\ eager.cleanup
    /\ pools' = [v \in Version |-> IF v \in gone THEN Nil ELSE pools[v]]
    /\ pool' = [p \in Pool |-> IF \E v \in gone : pools[v] = p
                               THEN [pool[p] EXCEPT !.destroy = "delete"] ELSE pool[p]]
    /\ eager' = EagerAfter([eager EXCEPT !.cleanup = FALSE])
    /\ UNCHANGED <<env, functionEnv, kubeVars, call, calls, errors>>

(* destroy deletes the deployment by its name.                             *)
DestroyDeletes(p) ==
    /\ pool[p].destroy = "delete"
    /\ pool' = [pool EXCEPT ![p].destroy = "done"]
    /\ \/ /\ deployments' = deployments \ {pool[p].version}
          /\ UNCHANGED errors
       \/ /\ Error
          /\ UNCHANGED deployments
    /\ UNCHANGED <<env, functionEnv, pools, pods, call, eager, calls>>
-----------------------------------------------------------------------------
(* A user updates the environment.                                         *)
EnvUpdated ==
    /\ env < MaxVersion
    /\ env' = env + 1
    /\ UNCHANGED <<functionEnv, pools, pool, kubeVars, call, eager, calls, errors>>

(* Kubernetes: a deployment replaces a pod that was relabelled or deleted, *)
(* and the new pod becomes ready.                                          *)
PodCreated(v) ==
    /\ v \in deployments
    /\ \A x \in GenericPod : Managed(x) => pods[x].version # v
    /\ \E q \in GenericPod : ~Exists(q)
    /\ pods' = [pods EXCEPT ![CHOOSE q \in GenericPod : ~Exists(q)] =
                              [version |-> v, label |-> Nil]]
    /\ UNCHANGED <<env, functionEnv, pools, pool, deployments, call, eager, calls, errors>>

(* The pods of a deleted deployment go with it, relabelled ones do not;    *)
(* those are deleted when they have been idle for a while.                 *)
PodDeleted(q) ==
    /\ Exists(q)
    /\ IF Managed(q) THEN pods[q].version \notin deployments
       ELSE \A c \in Caller : call[c].pod = q => call[c].pc # "specialize"
    /\ pods' = [pods EXCEPT ![q] = Nil]
    /\ UNCHANGED <<env, functionEnv, pools, pool, deployments, call, eager, calls, errors>>

CallSteps(c) ==
    CallGetsPool(c) \/ SpecializeChosen(c)

PoolSteps(p) ==
    Accept(p) \/ ListPods(p) \/ RelabelPod(p) \/ Exit(p)

PoolsNext ==
    \/ \E c \in Caller : GetFunctionEnv(c) \/ CallSteps(c) \/ FunctionEnvExpires(c)
    \/ \E p \in Pool : PoolSteps(p) \/ DestroyDeletes(p)
    \/ EagerLists \/ EagerGetsPool \/ CleanupPools
    \/ EnvUpdated
    \/ \E v \in Version : PodCreated(v)
    \/ \E q \in GenericPod : PodDeleted(q)

PoolsSpec == PoolsInit /\ [][PoolsNext]_poolsVars

(* Goroutines run, and Kubernetes starts and removes pods.                 *)
PoolsFairness ==
    /\ \A c \in Caller : WF_poolsVars(CallSteps(c))
    /\ \A p \in Pool : WF_poolsVars(PoolSteps(p)) /\ WF_poolsVars(DestroyDeletes(p))
    /\ WF_poolsVars(EagerLists) /\ WF_poolsVars(EagerGetsPool) /\ WF_poolsVars(CleanupPools)
    /\ \A v \in Version : WF_poolsVars(PodCreated(v))
    /\ \A q \in GenericPod : WF_poolsVars(PodDeleted(q))

FairPoolsSpec == PoolsSpec /\ PoolsFairness
-----------------------------------------------------------------------------
Relabelled(q) == Exists(q) /\ pods[q].label # Nil

(* choosePodService serializes the choosing of pods so that choices do not *)
(* conflict: as long as the environment is not updated, a pod that carries *)
(* a function's labels is not taken by the call of another function.       *)
PodChosenOnce ==
    [][env = 0 => \A q \in GenericPod : Relabelled(q) => pods'[q] \in {pods[q], Nil}]_poolsVars

(* A call of GetFuncSvc ends, with a pod or an error, as long as the       *)
(* environment is not updated.  (After an update a call may have got a     *)
(* pool whose goroutine ends before it receives the request.)              *)
EveryCallReturns ==
    \A c \in Caller :
        call[c].pc # "idle" ~> (call[c].pc = "idle" \/ env # 0)

(* Once the environment is no longer updated only the pool of its latest   *)
(* version stays, although cached versions of it may have brought back the *)
(* pool of an older one; a deployment stays only if its deletion failed.   *)
OldPoolsGo ==
    <>[](\A v \in Version \ {env} :
            pools[v] = Nil /\ (v \in deployments => errors > 0))

(* The comment in _choosePod: if a pod already got picked and modified the *)
(* relabelling fails. The code does not keep it: the patch has no resource *)
(* version. No run checks it.                                              *)
RelabelFailsIfPicked ==
    [][\A p \in Pool : RelabelPod(p) =>
         \A q \in GenericPod : Relabelled(q) => pods'[q] = pods[q]]_poolsVars
=============================================================================
