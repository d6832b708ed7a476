------------------------------ MODULE NewDeploy -----------------------------
(***************************************************************************)
(* pkg/executor/executortype/newdeploy and pkg/executor/cms: the manager   *)
(* that gives a function a deployment, a service and an autoscaler of its  *)
(* own, for one function.                                                  *)
(*                                                                         *)
(* Every event of the informer of functions is handled by a goroutine of   *)
(* its own; so is every request of the router that finds no valid service  *)
(* in the cache.  Creations go through the throttler.  Environments and    *)
(* the configuration that the function refers to have informers that call  *)
(* their handlers one after the other.                                     *)
(*                                                                         *)
(* All objects of the function have the same name, and the service the     *)
(* same address, whatever the version of the function.                     *)
(***************************************************************************)
EXTENDS Integers, Sequences

CONSTANTS
    MaxGo,        \* bound on the goroutines of one run of the executor
    MaxEvents,    \* bound on changes by users, failures (failed calls,
                  \* time-outs, failed pods) and restarts of the executor
    None, NoLock  \* "no object", "no lock"

ASSUME BoundAssumption ==
    /\ MaxGo \in Nat \ {0} /\ MaxEvents \in Nat
    /\ NoLock \notin 1 .. MaxGo

VARIABLES
    log,        \* the versions of the function
    env, cfg,   \* versions of the environment's image, of the configuration
    svc, hpa,   \* the service, the autoscaler: the executor that made it
    depl,       \* the deployment
    available,  \* the deployment has available replicas
    byFunction, \* the function versions with an entry in the cache
    byAddress,  \* the address has an entry in the cache
    byUid,      \* the version that the function's UID is mapped to, or 0
    seen,       \* what the informers have delivered, a record
    go,         \* the goroutines of this run of the executor
    locks, wg, old, callPc, key, lock,  \* of the throttler
    edits, errors, restarts,
    raced       \* a goroutine was started while another one was running, or for
                \* an old version

userVars == <<log, env, cfg, edits>>
kubeVars == <<svc, hpa, depl, available>>
cacheVars == <<byFunction, byAddress, byUid>>
thrVars == <<locks, wg, old, callPc, key, lock>>
vars == <<userVars, kubeVars, cacheVars, seen, go, thrVars, errors, restarts, raced>>

Thr == INSTANCE Throttler WITH Call <- 1 .. MaxGo, Key <- {"uid"}, pc <- callPc

Pc == {"runOnce", "svc", "depl", "wait", "hpa", "cleanSvc", "cleanDepl", "sweep",
       "delete", "update", "envUpdate", "putDepl", "refresh", "patch", "scale", "end"}

Function == [type : {"newdeploy", "other", "deleted"}, code : Nat, min : {0, 1}]

Instance == 0 .. MaxEvents

DeploymentObject ==
    [code : Nat, img : 0 .. MaxEvents, cfg : 0 .. MaxEvents, replicas : {0, 1},
     instance : Instance]

ASSUME NoneAssumption == None \notin DeploymentObject

(* by: what started it.  v: the version of the function it works for, from *)
(* old if it is an update; img, cfg, replicas: what it has read.           *)
Goroutine ==
    [pc : Pc, by : {"event", "request", "adoption", "other"},
     v : 0 .. MaxEvents + 1, from : 0 .. MaxEvents + 1,
     img : 0 .. MaxEvents, cfg : 0 .. MaxEvents, replicas : {0, 1}]

TypeOK ==
    /\ log \in Seq(Function) /\ Len(log) \in 1 .. MaxEvents + 1
    /\ env \in 0 .. MaxEvents /\ cfg \in 0 .. MaxEvents
    /\ svc \in Instance \cup {None} /\ hpa \in Instance \cup {None}
    /\ depl \in DeploymentObject \cup {None}
    /\ available \in BOOLEAN
    /\ available => depl # None /\ depl.replicas > 0
    /\ byFunction \subseteq 1 .. Len(log)
    /\ byAddress \in BOOLEAN
    /\ byUid \in 0 .. Len(log)
    /\ seen \in [fn : 0 .. Len(log), env : 0 .. env, cfg : 0 .. cfg]
    /\ go \in Seq(Goroutine) /\ Len(go) <= MaxGo
    /\ Thr!TypeOK
    /\ edits \in 0 .. MaxEvents /\ errors \in 0 .. MaxEvents
    /\ restarts \in Instance
    /\ raced \in BOOLEAN

Init ==
    /\ log = << [type |-> "newdeploy", code |-> 1, min |-> 0] >>
    /\ env = 0 /\ cfg = 0
    /\ svc = None /\ hpa = None /\ depl = None /\ available = FALSE
    /\ byFunction = {} /\ byAddress = FALSE /\ byUid = 0
    /\ seen = [fn |-> 0, env |-> 0, cfg |-> 0]
    /\ go = <<>>
    /\ Thr!Init
    /\ edits = 0 /\ errors = 0 /\ restarts = 0
    /\ raced = FALSE
-----------------------------------------------------------------------------
Current == log[Len(log)]

IsNewdeploy(v) == log[v].type = "newdeploy"

Event == edits + errors + restarts < MaxEvents

Error == Event /\ errors' = errors + 1

NoError == UNCHANGED errors

(* No goroutine is at work.                                                *)
Quiet == \A i \in DOMAIN go : go[i].pc = "end"

Start(pc, by, v, from) ==
    [pc |-> pc, by |-> by, v |-> v, from |-> from, img |-> 0, cfg |-> 0, replicas |-> 0]

Ended == Start("end", "other", 0, 0)

(* The throttler before its first call.                                    *)
ThrottlerAnew ==
    /\ locks' = [k \in {"uid"} |-> NoLock]
    /\ wg' = [l \in 1 .. MaxGo |-> 0]
    /\ old' = {}
    /\ callPc' = [c \in 1 .. MaxGo |-> "idle"]
    /\ lock' = [c \in 1 .. MaxGo |-> NoLock]
    /\ UNCHANGED key

(* No goroutine is at work and no DELETE is on its way to the throttler.   *)
AtRest ==
    /\ Quiet
    /\ locks["uid"] = NoLock
    /\ \A i \in 1 .. MaxGo : callPc[i] # "deleting"

(* A goroutine is started.  Those that ended are forgotten when all have.  *)
Spawn(g) ==
    /\ raced' = (raced \/ ~AtRest \/ (g.by = "request" /\ g.v # Len(log)))
    /\ IF AtRest THEN go' = <<g>> /\ ThrottlerAnew
       ELSE Len(go) < MaxGo /\ go' = Append(go, g) /\ UNCHANGED thrVars

Goto(i, pc) == go' = [go EXCEPT ![i].pc = pc]

Return(i) == go' = [go EXCEPT ![i] = Ended]

(* The callback that the throttler ran returns.  A goroutine that adopts   *)
(* was not started by the throttler.                                       *)
CallbackReturns(i) ==
    IF go[i].by = "adoption" THEN UNCHANGED thrVars ELSE Thr!CallbackReturns(i)

(* The adoption is followed by the clean-up of objects not adopted.        *)
CreationEnds(i) ==
    IF go[i].by = "adoption" THEN Goto(i, "sweep") ELSE Return(i)

(* Faulty: fnCreate fails and keeps the throttler's lock.                  *)
CreationFailsWithLock(i) ==
    /\ Goto(i, "cleanSvc")
    /\ UNCHANGED thrVars

(* fnCreate fails: go cleanupNewdeploy.                                    *)
CreationFails(i) ==
    /\ Goto(i, "cleanSvc")
    /\ CallbackReturns(i)
-----------------------------------------------------------------------------
(* The function service cache.  GetByFunctionUID finds an entry.           *)
FoundByUid == byUid # 0 /\ byUid \in byFunction

(* Add: the address is the same for all versions, and if it is known the   *)
(* UID stays mapped to the version that was added first.                   *)
CacheAdd(v) ==
    IF v \in byFunction THEN UNCHANGED cacheVars
    ELSE /\ byFunction' = byFunction \cup {v}
         /\ byAddress' = TRUE
         /\ byUid' = IF byAddress THEN byUid ELSE v

(* Faulty: the mapping of the UID stays.                                   *)
CacheDeleteKeepsUid(v) ==
    /\ byFunction' = byFunction \ {v}
    /\ byAddress' = FALSE
    /\ UNCHANGED byUid

(* DeleteEntry.                                                            *)
CacheDelete(v) ==
    /\ byFunction' = byFunction \ {v}
    /\ byAddress' = FALSE
    /\ byUid' = 0
-----------------------------------------------------------------------------
(* initFuncController: the informer lists the function...                  *)
ListFunctions ==
    /\ seen.fn = 0
    /\ seen' = [seen EXCEPT !.fn = Len(log)]
    /\ IF IsNewdeploy(Len(log))
       THEN Spawn(Start("runOnce", "event", Len(log), 0))
       ELSE UNCHANGED <<go, thrVars, raced>>
    /\ UNCHANGED <<userVars, kubeVars, cacheVars, errors, restarts>>

(* What updateFunction does first.                                         *)
UpdateBegins(o, n) ==
    CASE IsNewdeploy(o) /\ ~IsNewdeploy(n) -> Start("delete", "event", o, 0)
      [] ~IsNewdeploy(o) /\ IsNewdeploy(n) -> Start("runOnce", "event", n, 0)
      [] ~IsNewdeploy(o) /\ ~IsNewdeploy(n) -> Ended
      [] OTHER -> Start("update", "event", n, o)

(* ... and delivers its versions to updateFunction or deleteFunction.      *)
NextFunction ==
    LET o == seen.fn
        n == seen.fn + 1 IN
    /\ o \in 1 .. Len(log) - 1
    /\ seen' = [seen EXCEPT !.fn = n]
    /\ IF log[n].type = "deleted" /\ ~IsNewdeploy(o)
       THEN UNCHANGED <<go, thrVars, raced>>
       ELSE Spawn(UpdateBegins(o, n))
    /\ UNCHANGED <<userVars, kubeVars, cacheVars, errors, restarts>>

Idle(pcs) == \A i \in DOMAIN go : go[i].pc = "end" \/ go[i].by # "other" \/ go[i].pc \notin pcs

(* initEnvController: the image has changed.  The handler reads the        *)
(* function again.                                                         *)
NextEnvironment ==
    /\ seen.env < env
    /\ Idle({"envUpdate", "putDepl"})
    /\ seen' = [seen EXCEPT !.env = @ + 1]
    /\ Spawn(Start("envUpdate", "other", 0, 0))
    /\ UNCHANGED <<userVars, kubeVars, cacheVars, errors, restarts>>

(* ConfigSecretController: the configuration has changed.                  *)
NextConfig ==
    /\ seen.cfg < cfg
    /\ Idle({"refresh", "patch"})
    /\ seen' = [seen EXCEPT !.cfg = @ + 1]
    /\ Spawn(Start("refresh", "other", 0, 0))
    /\ UNCHANGED <<userVars, kubeVars, cacheVars, errors, restarts>>

(* IsValid.                                                                *)
IsValid == svc # None /\ depl # None /\ available

(* getServiceForFunction: the router has version v.  An entry that is not  *)
(* valid is removed.  The executor waits if v is being created already.    *)
Request(v) ==
    /\ IsNewdeploy(v)
    /\ ~(v \in byFunction /\ IsValid)
    /\ \A i \in DOMAIN go : go[i].by = "request" => go[i].v # v
    /\ IF v \in byFunction THEN CacheDelete(v) ELSE UNCHANGED cacheVars
    /\ Spawn(Start("runOnce", "request", v, 0))
    /\ UNCHANGED <<userVars, kubeVars, seen, errors, restarts>>
-----------------------------------------------------------------------------
(* createFunction: RunOnce with the function's UID.                        *)
RunOnce(i) ==
    /\ go[i].pc = "runOnce"
    /\ \/ /\ Thr!GetShared(i)
          /\ UNCHANGED go
       \/ /\ Thr!GetFirst(i)
          /\ Goto(i, "svc")
       \/ /\ Thr!WaitTimeout(i)
          /\ Return(i)
       \/ /\ Thr!WaitReleased(i)
          /\ UNCHANGED go
       \/ /\ callPc[i] = "follower"
          /\ Thr!CallbackReturns(i)
          /\ Return(i)
    /\ UNCHANGED <<userVars, kubeVars, cacheVars, seen, errors, restarts, raced>>

(* fnCreate reads the environment (an error leaves nothing to clean up)    *)
(* and calls createOrGetSvc: a service of an earlier executor is adopted.  *)
CreateOrGetSvc(i) ==
    /\ go[i].pc = "svc"
    /\ \/ /\ svc' = restarts
          /\ go' = [go EXCEPT ![i].img = env, ![i].pc = "depl"]
          /\ UNCHANGED <<thrVars, errors>>
       \/ /\ Error
          /\ UNCHANGED svc
          /\ \/ CreationEnds(i) /\ CallbackReturns(i)
             \/ CreationFails(i)
    /\ UNCHANGED <<userVars, hpa, depl, available, cacheVars, seen, restarts, raced>>

(* referencedResourcesRVSum: it tells the versions of the configuration    *)
(* apart.                                                                  *)
ReferencedResourcesRVSum == cfg

(* getDeploymentSpec, for version v with image img and n replicas.         *)
Deployment(v, img, c, n) ==
    [code |-> log[v].code, img |-> img, cfg |-> c, replicas |-> n, instance |-> restarts]

(* createOrGetDeployment: a deployment of an earlier executor is updated,  *)
(* one of this executor is only scaled up.                                 *)
CreateOrGetDeployment(i) ==
    LET new(n) == Deployment(go[i].v, go[i].img, ReferencedResourcesRVSum, n) IN
    /\ go[i].pc = "depl"
    /\ \/ /\ CASE depl = None ->
                    depl' = new(1) /\ Goto(i, "wait")
               [] depl # None /\ depl.instance # restarts ->
                    depl' = new(depl.replicas) /\ Goto(i, "hpa")
               [] depl # None /\ depl.instance = restarts ->
                    depl' = [depl EXCEPT !.replicas = 1] /\ Goto(i, "wait")
          /\ UNCHANGED <<thrVars, errors>>
       \/ /\ Error
          /\ CreationFails(i)
          /\ UNCHANGED depl
    /\ UNCHANGED <<userVars, svc, hpa, available, cacheVars, seen, restarts, raced>>

(* waitForDeploy: the replicas are available, the deployment has gone or   *)
(* the time is over.                                                       *)
WaitForDeploy(i) ==
    /\ go[i].pc = "wait"
    /\ \/ /\ available
          /\ Goto(i, "hpa")
          /\ UNCHANGED <<thrVars, errors>>
       \/ /\ depl = None
          /\ CreationFails(i)
          /\ NoError
       \/ /\ depl # None /\ ~available
          /\ IF depl.replicas = 0 THEN NoError ELSE Error
          /\ CreationFails(i)
    /\ UNCHANGED <<userVars, kubeVars, cacheVars, seen, restarts, raced>>

(* createOrGetHpa, then fsCache.Add, and fnCreate returns.                 *)
CreateOrGetHpa(i) ==
    /\ go[i].pc = "hpa"
    /\ \/ /\ hpa' = restarts
          /\ CacheAdd(go[i].v)
          /\ CreationEnds(i)
          /\ CallbackReturns(i)
          /\ UNCHANGED errors
       \/ /\ Error
          /\ CreationFails(i)
          /\ UNCHANGED <<hpa, cacheVars>>
    /\ UNCHANGED <<userVars, svc, depl, available, seen, restarts, raced>>
-----------------------------------------------------------------------------
(* fnDelete: without an entry in the cache nothing is deleted.             *)
FnDelete(i) ==
    /\ go[i].pc = "delete"
    /\ IF FoundByUid
       THEN CacheDelete(byUid) /\ Goto(i, "cleanSvc")
       ELSE Return(i) /\ UNCHANGED cacheVars
    /\ UNCHANGED <<userVars, kubeVars, seen, thrVars, errors, restarts, raced>>

(* cleanupNewdeploy: an object that cannot be deleted is left, and the     *)
(* others are deleted all the same.                                        *)
CleanupSvcAndHpa(i) ==
    /\ go[i].pc = "cleanSvc"
    /\ \/ svc' = None /\ hpa' = None /\ NoError
       \/ Error /\ UNCHANGED svc /\ hpa' = None
       \/ Error /\ UNCHANGED hpa /\ svc' = None
    /\ Goto(i, "cleanDepl")
    /\ UNCHANGED <<userVars, depl, available, cacheVars, seen, thrVars, restarts, raced>>

CleanupDeployment(i) ==
    /\ go[i].pc = "cleanDepl"
    /\ \/ depl' = None /\ available' = FALSE /\ NoError
       \/ Error /\ UNCHANGED <<depl, available>>
    /\ CreationEnds(i)
    /\ UNCHANGED <<userVars, svc, hpa, cacheVars, seen, thrVars, restarts, raced>>

(* The reaper's clean-up of objects: what has the id of another executor   *)
(* goes.                                                                   *)
CleanupServices == svc' = IF svc = restarts THEN svc ELSE None

CleanupHpa == hpa' = IF hpa = restarts THEN hpa ELSE None

CleanupDeployments ==
    IF depl # None /\ depl.instance # restarts
    THEN depl' = None /\ available' = FALSE
    ELSE UNCHANGED <<depl, available>>

CleanupOldExecutorObjects(i) ==
    /\ go[i].pc = "sweep"
    /\ CleanupServices /\ CleanupHpa /\ CleanupDeployments
    /\ Return(i)
    /\ UNCHANGED <<userVars, cacheVars, seen, thrVars, errors, restarts, raced>>
-----------------------------------------------------------------------------
(* updateFuncDeployment needs an entry in the cache and the deployment; it *)
(* reads the replicas and the configuration, for version v and image img.  *)
GetDeployment(i, v, img) ==
    IF FoundByUid /\ depl # None
    THEN go' = [go EXCEPT ![i].replicas = depl.replicas, ![i].v = v, ![i].img = img,
                          ![i].cfg = ReferencedResourcesRVSum, ![i].pc = "putDepl"]
    ELSE Return(i)

(* updateFunction: a change of the scale needs the autoscaler (what it is  *)
(* set to is left out), a change of the package reads the environment.     *)
UpdateFunction(i) ==
    LET o == log[go[i].from]
        n == log[go[i].v] IN
    /\ go[i].pc = "update"
    /\ \/ /\ IF (o.min # n.min => hpa # None) /\ o.code # n.code
             THEN GetDeployment(i, go[i].v, env) ELSE Return(i)
          /\ NoError
       \/ Error /\ Return(i)
    /\ UNCHANGED <<userVars, kubeVars, cacheVars, seen, thrVars, restarts, raced>>

(* The handler of environments reads the function again.                   *)
UpdateEnvironment(i) ==
    /\ go[i].pc = "envUpdate"
    /\ \/ /\ IF Current.type = "deleted" THEN Return(i)
             ELSE GetDeployment(i, Len(log), seen.env)
          /\ NoError
       \/ Error /\ Return(i)
    /\ UNCHANGED <<userVars, kubeVars, cacheVars, seen, thrVars, restarts, raced>>

(* Faulty: the deployment is given the version it had.                     *)
PutOldDeployment(i) ==
    /\ go[i].pc = "putDepl"
    /\ Return(i)
    /\ UNCHANGED <<userVars, kubeVars, cacheVars, seen, thrVars, errors, restarts, raced>>

(* ... and writes the deployment without a resource version.               *)
PutDeployment(i) ==
    LET g == go[i] IN
    /\ g.pc = "putDepl"
    /\ \/ /\ depl # None
          /\ depl' = Deployment(g.v, g.img, g.cfg, g.replicas)
          /\ available' = (available /\ g.replicas > 0)
          /\ NoError
       \/ /\ depl = None \/ Event
          /\ IF depl = None THEN NoError ELSE Error
          /\ UNCHANGED <<depl, available>>
    /\ Return(i)
    /\ UNCHANGED <<userVars, svc, hpa, cacheVars, seen, thrVars, restarts, raced>>

(* refreshPods, RefreshFuncPods: the sum of the versions is read...        *)
RefreshFuncPods(i) ==
    /\ go[i].pc = "refresh"
    /\ \/ /\ IF IsNewdeploy(Len(log)) /\ depl # None
             THEN go' = [go EXCEPT ![i].cfg = ReferencedResourcesRVSum, ![i].pc = "patch"]
             ELSE Return(i)
          /\ NoError
       \/ Error /\ Return(i)
    /\ UNCHANGED <<userVars, kubeVars, cacheVars, seen, thrVars, restarts, raced>>

(* ... and patched into the deployment.                                    *)
PatchDeployment(i) ==
    /\ go[i].pc = "patch"
    /\ \/ /\ depl' = IF depl = None THEN None ELSE [depl EXCEPT !.cfg = go[i].cfg]
          /\ NoError
       \/ Error /\ UNCHANGED depl
    /\ Return(i)
    /\ UNCHANGED <<userVars, svc, hpa, available, cacheVars, seen, thrVars, restarts, raced>>

(* idleObjectReaper: a service in the cache is idle, and its function      *)
(* exists, with a scale that is read here...                               *)
ReapIdle ==
    /\ byFunction # {}
    /\ Current.type # "deleted"
    /\ Spawn([Start("scale", "other", 0, 0) EXCEPT !.replicas = Current.min])
    /\ UNCHANGED <<userVars, kubeVars, cacheVars, seen, errors, restarts>>

(* ... and used later by a goroutine.                                      *)
ScaleDown(i) ==
    /\ go[i].pc = "scale"
    /\ IF depl # None /\ depl.replicas > go[i].replicas
       THEN /\ depl' = [depl EXCEPT !.replicas = go[i].replicas]
            /\ available' = FALSE
       ELSE UNCHANGED <<depl, available>>
    /\ Return(i)
    /\ UNCHANGED <<userVars, svc, hpa, cacheVars, seen, thrVars, errors, restarts, raced>>
-----------------------------------------------------------------------------
(* The throttler's service handles the DELETE of a call, and time passes.  *)
ThrottlerDelete(i) ==
    /\ Thr!Delete(i)
    /\ UNCHANGED <<userVars, kubeVars, cacheVars, seen, go, errors, restarts, raced>>

ThrottlerTime(i) ==
    /\ callPc[i] = "first"
    /\ Thr!Age(i)
    /\ Error
    /\ UNCHANGED <<userVars, kubeVars, cacheVars, seen, go, restarts, raced>>

ThrottlerExpire ==
    /\ Thr!Expire
    /\ UNCHANGED <<userVars, kubeVars, cacheVars, seen, go, errors, restarts, raced>>

(* Kubernetes starts the replicas, or they fail.                           *)
ReplicasAvailable ==
    /\ depl # None /\ depl.replicas > 0 /\ ~available
    /\ available' = TRUE
    /\ UNCHANGED <<userVars, svc, hpa, depl, cacheVars, seen, go, thrVars, errors,
                   restarts, raced>>

ReplicasFail ==
    /\ available
    /\ available' = FALSE
    /\ Error
    /\ UNCHANGED <<userVars, svc, hpa, depl, cacheVars, seen, go, thrVars, restarts, raced>>

Edit ==
    /\ Event
    /\ edits' = edits + 1
    /\ Current.type # "deleted"

(* A user changes the function, or deletes it.  If the informer has not    *)
(* listed it since the adoption the change is not an event.                *)
EditFunction ==
    /\ Edit
    /\ \E f \in {[Current EXCEPT !.code = Len(log) + 1, !.min = 1 - @],
                 [Current EXCEPT !.type = IF @ = "other" THEN "newdeploy" ELSE "other"],
                 [Current EXCEPT !.type = "deleted"]} :
         log' = Append(log, f)
    /\ raced' = (raced \/ seen.fn = 0)
    /\ UNCHANGED <<env, cfg, kubeVars, cacheVars, seen, go, thrVars, errors, restarts>>

(* A user changes the environment's image or the configuration.            *)
EditOther ==
    /\ Edit
    /\ \/ env' = env + 1 /\ UNCHANGED cfg
       \/ cfg' = cfg + 1 /\ UNCHANGED env
    /\ UNCHANGED <<log, kubeVars, cacheVars, seen, go, thrVars, errors, restarts, raced>>

(* The executor starts again and adopts what it finds, or does not adopt.  *)
Restart ==
    /\ Event
    /\ restarts' = restarts + 1
    /\ byFunction' = {} /\ byAddress' = FALSE /\ byUid' = 0
    /\ seen' = [fn |-> 0, env |-> env, cfg |-> cfg]
    /\ \/ IsNewdeploy(Len(log)) /\ go' = << Start("svc", "adoption", Len(log), 0) >>
       \/ go' = << Start("sweep", "adoption", 0, 0) >>
    /\ ThrottlerAnew
    /\ UNCHANGED <<userVars, kubeVars, errors, raced>>

Informers == ListFunctions \/ NextFunction \/ NextEnvironment \/ NextConfig

Creation(i) ==
    \/ RunOnce(i) \/ CreateOrGetSvc(i) \/ CreateOrGetDeployment(i)
    \/ WaitForDeploy(i) \/ CreateOrGetHpa(i)

Cleanup(i) ==
    \/ FnDelete(i) \/ CleanupSvcAndHpa(i) \/ CleanupDeployment(i)
    \/ CleanupOldExecutorObjects(i)

Change(i) ==
    \/ UpdateFunction(i) \/ UpdateEnvironment(i)
    \/ PutDeployment(i) \/ RefreshFuncPods(i) \/ PatchDeployment(i) \/ ScaleDown(i)

Next ==
    \/ Informers
    \/ \E v \in DOMAIN log : Request(v)
    \/ \E i \in DOMAIN go : Creation(i) \/ Cleanup(i) \/ Change(i)
                            \/ ThrottlerDelete(i) \/ ThrottlerTime(i)
    \/ ThrottlerExpire
    \/ ReapIdle
    \/ ReplicasAvailable \/ ReplicasFail
    \/ EditFunction \/ EditOther
    \/ Restart

Spec == Init /\ [][Next]_vars

(* Informers and goroutines run, and Kubernetes starts replicas.           *)
Fairness ==
    /\ WF_vars(Informers)
    /\ \A i \in 1 .. MaxGo :
         /\ WF_vars(i \in DOMAIN go /\ (Creation(i) \/ Cleanup(i) \/ Change(i)))
         /\ WF_vars(i \in DOMAIN go /\ ThrottlerDelete(i))
    /\ WF_vars(ReplicasAvailable)

FairSpec == Spec /\ Fairness
-----------------------------------------------------------------------------
(* The handlers of updates and deletions find the service by the UID of    *)
(* the function whenever its address is in the cache, whatever versions    *)
(* were added and removed before.                                          *)
UidFindsService == byAddress <=> FoundByUid

(* Every event was handled before the next goroutine was started, requests *)
(* had the latest version, and no call failed.                             *)
Calm == ~raced /\ errors = 0

(* The comment in updateFuncDeployment: the update of the function changes *)
(* the deployment.  In the end the deployment, if there is one, has the    *)
(* latest package, image and configuration, also after a restart; and of a *)
(* function that was deleted, or has another executor type, nothing is     *)
(* left.                                                                   *)
ObjectsFollow ==
    <>[](Calm =>
          /\ Current.type = "newdeploy" /\ depl # None
               /\ seen = [fn |-> Len(log), env |-> env, cfg |-> cfg] =>
                 depl.code = Current.code /\ depl.img = env /\ depl.cfg = cfg
          /\ Current.type # "newdeploy" /\ seen.fn = Len(log) =>
                 svc = None /\ hpa = None /\ depl = None)

(* Every goroutine ends, those that wait for another one's creation too.   *)
GoroutinesEnd ==
    \A i \in 1 .. MaxGo :
        (i \in DOMAIN go /\ go[i].pc # "end") ~> (i \in DOMAIN go => go[i].pc = "end")

(* The comment in idleObjectReaper: the manager handles the delete event   *)
(* and cleans the cache itself. The code does not keep it: the entry of a  *)
(* later version than that of the UID stays. No run checks it.             *)
DeletedLeavesCache ==
    Calm /\ Current.type = "deleted" /\ seen.fn = Len(log) /\ Quiet => byFunction = {}
=============================================================================
