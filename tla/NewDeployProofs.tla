--------------------------- MODULE NewDeployProofs --------------------------
(***************************************************************************)
(* The manager of new deployments for any number of goroutines, changes,   *)
(* failures and restarts.                                                  *)
(***************************************************************************)
EXTENDS NewDeploy, TLAPS

ThrP == INSTANCE ThrottlerProofs WITH Call <- 1 .. MaxGo, Key <- {"uid"}, pc <- callPc

(* What the throttler keeps.                                               *)
ThrottlerInv ==
    /\ Thr!TypeOK /\ Thr!LocksAreCreated /\ Thr!LockHasReleaser
    /\ Thr!ReleasedExactlyOnce /\ Thr!FollowerAfterRelease

(* The versions there can be are counted by the changes.                   *)
UsersInv ==
    /\ log \in Seq(Function) /\ Len(log) \in 1 .. edits + 1
    /\ env \in Nat /\ cfg \in Nat /\ env + cfg <= edits
    /\ edits \in Nat /\ errors \in Nat /\ restarts \in Nat
    /\ edits + errors + restarts <= MaxEvents

(* A goroutine that creates, updates or replaces the deployment works for  *)
(* a version that there is.                                                *)
NeedsVersion == {"runOnce", "svc", "depl", "wait", "hpa", "update", "putDepl"}

WorksFor(g) ==
    /\ g.pc \in NeedsVersion => g.v \in 1 .. Len(log)
    /\ g.pc = "update" => g.from \in 1 .. Len(log)

GoroutinesInv ==
    /\ go \in Seq(Goroutine) /\ Len(go) <= MaxGo
    /\ \A i \in DOMAIN go : WorksFor(go[i])

KubeInv ==
    /\ svc \in Instance \cup {None} /\ hpa \in Instance \cup {None}
    /\ depl \in DeploymentObject \cup {None}
    /\ available \in BOOLEAN
    /\ available => depl # None /\ depl.replicas > 0

CacheInv ==
    /\ byFunction \subseteq 1 .. Len(log)
    /\ byAddress \in BOOLEAN
    /\ byUid \in 0 .. Len(log)
    /\ UidFindsService

SeenInv ==
    /\ seen \in [fn : Nat, env : Nat, cfg : Nat]
    /\ seen.fn <= Len(log) /\ seen.env <= env /\ seen.cfg <= cfg

NewDeployInv ==
    /\ ThrottlerInv /\ UsersInv /\ GoroutinesInv /\ KubeInv /\ CacheInv /\ SeenInv
    /\ raced \in BOOLEAN

USE BoundAssumption, NoneAssumption
-----------------------------------------------------------------------------
(* The throttler's lemmas, with the goroutines as calls.                   *)
LEMMA ThrottlerInvIs == ThrottlerInv <=> ThrP!IInv
BY DEF ThrottlerInv, ThrP!IInv, Thr!TypeOK, ThrP!TypeOK, Thr!CallState, ThrP!CallState,
       Thr!LocksAreCreated, ThrP!LocksAreCreated, Thr!LockHasReleaser, ThrP!LockHasReleaser,
       Thr!ReleasedExactlyOnce, ThrP!ReleasedExactlyOnce, Thr!InTable, ThrP!InTable,
       Thr!FollowerAfterRelease, ThrP!FollowerAfterRelease

LEMMA ThrottlerInvInit == Thr!Init => ThrottlerInv
BY ThrP!InitInv, ThrottlerInvIs DEF Thr!Init, ThrP!Init

LEMMA ThrottlerInvNext == ThrottlerInv /\ [Thr!Next]_thrVars => ThrottlerInv'
<1>1. ThrP!IInv /\ [ThrP!Next]_thrVars => ThrP!IInv'
  BY ThrP!NextInv DEF thrVars, ThrP!thrVars
<1>2. [Thr!Next]_thrVars => [ThrP!Next]_thrVars
  BY DEF Thr!Next, ThrP!Next, Thr!GetShared, ThrP!GetShared, Thr!GetFirst, ThrP!GetFirst,
     Thr!WaitReleased, ThrP!WaitReleased, Thr!WaitTimeout, ThrP!WaitTimeout,
     Thr!CallbackReturns, ThrP!CallbackReturns, Thr!Delete, ThrP!Delete, Thr!Age, ThrP!Age,
     Thr!Created, ThrP!Created, Thr!Expire, ThrP!Expire
<1>3. ThrottlerInv' <=> ThrP!IInv'  BY ThrottlerInvIs, PTL
<1> QED  BY <1>1, <1>2, <1>3, ThrottlerInvIs

(* A throttler that starts anew satisfies what it keeps.                   *)
LEMMA ThrottlerInvAnew ==
    ASSUME ThrottlerInv, ThrottlerAnew
    PROVE  ThrottlerInv'
BY DEF ThrottlerInv, ThrottlerAnew, Thr!TypeOK, Thr!CallState, Thr!LocksAreCreated,
   Thr!LockHasReleaser, Thr!ReleasedExactlyOnce, Thr!InTable, Thr!FollowerAfterRelease

(* The goroutines are calls of the throttler.                              *)
LEMMA GoroutineIsCall ==
    ASSUME GoroutinesInv, NEW i \in DOMAIN go
    PROVE  i \in 1 .. MaxGo /\ go[i] \in Goroutine /\ WorksFor(go[i])
<1>1. DOMAIN go = 1 .. Len(go) /\ Len(go) \in Nat  BY DEF GoroutinesInv
<1> QED  BY <1>1 DEF GoroutinesInv

(* Every step is one of the throttler, starts it anew or leaves it alone.  *)
LEMMA ThrottlerStep ==
    ASSUME ThrottlerInv, GoroutinesInv, [Next]_vars
    PROVE  ThrottlerInv'
<1>1. CASE ListFunctions
  BY <1>1, ThrottlerInvAnew, ThrottlerInvNext DEF ListFunctions, Spawn
<1>2. CASE NextFunction
  BY <1>2, ThrottlerInvAnew, ThrottlerInvNext DEF NextFunction, Spawn
<1>3. CASE NextEnvironment
  BY <1>3, ThrottlerInvAnew, ThrottlerInvNext DEF NextEnvironment, Spawn
<1>4. CASE NextConfig
  BY <1>4, ThrottlerInvAnew, ThrottlerInvNext DEF NextConfig, Spawn
<1>5. CASE ThrottlerExpire
  BY <1>5, ThrottlerInvNext DEF ThrottlerExpire, Thr!Next
<1>6. CASE ReapIdle
  BY <1>6, ThrottlerInvAnew, ThrottlerInvNext DEF ReapIdle, Spawn
<1>7. CASE ReplicasAvailable
  BY <1>7, ThrottlerInvNext DEF ReplicasAvailable
<1>8. CASE ReplicasFail
  BY <1>8, ThrottlerInvNext DEF ReplicasFail
<1>9. CASE EditFunction
  BY <1>9, ThrottlerInvNext DEF EditFunction
<1>10. CASE EditOther
  BY <1>10, ThrottlerInvNext DEF EditOther
<1>11. CASE Restart
  BY <1>11, ThrottlerInvAnew DEF Restart
<1>12. ASSUME NEW v \in DOMAIN log, Request(v)  PROVE  ThrottlerInv'
  BY <1>12, ThrottlerInvAnew, ThrottlerInvNext DEF Request, Spawn
<1>13. ASSUME NEW i \in DOMAIN go, RunOnce(i)  PROVE  ThrottlerInv'
  BY <1>13, GoroutineIsCall, ThrottlerInvNext DEF RunOnce, Thr!Next
<1>14. ASSUME NEW i \in DOMAIN go, CreateOrGetSvc(i)  PROVE  ThrottlerInv'
  BY <1>14, GoroutineIsCall, ThrottlerInvNext
  DEF CreateOrGetSvc, CreationFails, CallbackReturns, Thr!Next
<1>15. ASSUME NEW i \in DOMAIN go, CreateOrGetDeployment(i)  PROVE  ThrottlerInv'
  BY <1>15, GoroutineIsCall, ThrottlerInvNext
  DEF CreateOrGetDeployment, CreationFails, CallbackReturns, Thr!Next
<1>16. ASSUME NEW i \in DOMAIN go, WaitForDeploy(i)  PROVE  ThrottlerInv'
  BY <1>16, GoroutineIsCall, ThrottlerInvNext
  DEF WaitForDeploy, CreationFails, CallbackReturns, Thr!Next
<1>17. ASSUME NEW i \in DOMAIN go, CreateOrGetHpa(i)  PROVE  ThrottlerInv'
  BY <1>17, GoroutineIsCall, ThrottlerInvNext
  DEF CreateOrGetHpa, CreationFails, CallbackReturns, Thr!Next
<1>18. ASSUME NEW i \in DOMAIN go, FnDelete(i)  PROVE  ThrottlerInv'
  BY <1>18, ThrottlerInvNext DEF FnDelete
<1>19. ASSUME NEW i \in DOMAIN go, CleanupSvcAndHpa(i)  PROVE  ThrottlerInv'
  BY <1>19, ThrottlerInvNext DEF CleanupSvcAndHpa
<1>20. ASSUME NEW i \in DOMAIN go, CleanupDeployment(i)  PROVE  ThrottlerInv'
  BY <1>20, ThrottlerInvNext DEF CleanupDeployment
<1>21. ASSUME NEW i \in DOMAIN go, CleanupOldExecutorObjects(i)  PROVE  ThrottlerInv'
  BY <1>21, ThrottlerInvNext DEF CleanupOldExecutorObjects
<1>22. ASSUME NEW i \in DOMAIN go, UpdateFunction(i)  PROVE  ThrottlerInv'
  BY <1>22, ThrottlerInvNext DEF UpdateFunction
<1>23. ASSUME NEW i \in DOMAIN go, UpdateEnvironment(i)  PROVE  ThrottlerInv'
  BY <1>23, ThrottlerInvNext DEF UpdateEnvironment
<1>24. ASSUME NEW i \in DOMAIN go, PutDeployment(i)  PROVE  ThrottlerInv'
  BY <1>24, ThrottlerInvNext DEF PutDeployment
<1>25. ASSUME NEW i \in DOMAIN go, RefreshFuncPods(i)  PROVE  ThrottlerInv'
  BY <1>25, ThrottlerInvNext DEF RefreshFuncPods
<1>26. ASSUME NEW i \in DOMAIN go, PatchDeployment(i)  PROVE  ThrottlerInv'
  BY <1>26, ThrottlerInvNext DEF PatchDeployment
<1>27. ASSUME NEW i \in DOMAIN go, ScaleDown(i)  PROVE  ThrottlerInv'
  BY <1>27, ThrottlerInvNext DEF ScaleDown
<1>28. ASSUME NEW i \in DOMAIN go, ThrottlerDelete(i)  PROVE  ThrottlerInv'
  BY <1>28, GoroutineIsCall, ThrottlerInvNext DEF ThrottlerDelete, Thr!Next
<1>29. ASSUME NEW i \in DOMAIN go, ThrottlerTime(i)  PROVE  ThrottlerInv'
  BY <1>29, GoroutineIsCall, ThrottlerInvNext DEF ThrottlerTime, Thr!Next
<1>30. CASE UNCHANGED vars
  BY <1>30, ThrottlerInvNext DEF vars
<1> QED
  BY <1>1, <1>2, <1>3, <1>4, <1>5, <1>6, <1>7, <1>8, <1>9, <1>10, <1>11, <1>12, <1>13,
     <1>14, <1>15, <1>16, <1>17, <1>18, <1>19, <1>20, <1>21, <1>22, <1>23, <1>24, <1>25,
     <1>26, <1>27, <1>28, <1>29, <1>30 DEF Next, Informers, Creation, Cleanup, Change

QuietStep == UNCHANGED <<userVars, restarts>> /\ (UNCHANGED errors \/ Error)

(* Only users change the function, its environment and its configuration,  *)
(* and only a restart changes the executor's id.                           *)
LEMMA OnlyUsersChange ==
    ASSUME [Next]_vars
    PROVE  QuietStep \/ EditFunction \/ EditOther \/ Restart
<1>1. CASE ListFunctions
  BY <1>1 DEF QuietStep, ListFunctions
<1>2. CASE NextFunction
  BY <1>2 DEF QuietStep, NextFunction
<1>3. CASE NextEnvironment
  BY <1>3 DEF QuietStep, NextEnvironment
<1>4. CASE NextConfig
  BY <1>4 DEF QuietStep, NextConfig
<1>5. CASE ThrottlerExpire
  BY <1>5 DEF QuietStep, ThrottlerExpire
<1>6. CASE ReapIdle
  BY <1>6 DEF QuietStep, ReapIdle
<1>7. CASE ReplicasAvailable
  BY <1>7 DEF QuietStep, ReplicasAvailable
<1>8. CASE ReplicasFail
  BY <1>8 DEF QuietStep, ReplicasFail, NoError
<1>9. CASE EditFunction
  BY <1>9
<1>10. CASE EditOther
  BY <1>10
<1>11. CASE Restart
  BY <1>11
<1>12. ASSUME NEW v \in DOMAIN log, Request(v)  PROVE  QuietStep
  BY <1>12 DEF QuietStep, Request
<1>13. ASSUME NEW i \in DOMAIN go, RunOnce(i)  PROVE  QuietStep
  BY <1>13 DEF QuietStep, RunOnce
<1>14. ASSUME NEW i \in DOMAIN go, CreateOrGetSvc(i)  PROVE  QuietStep
  BY <1>14 DEF QuietStep, CreateOrGetSvc, NoError
<1>15. ASSUME NEW i \in DOMAIN go, CreateOrGetDeployment(i)  PROVE  QuietStep
  BY <1>15 DEF QuietStep, CreateOrGetDeployment, NoError
<1>16. ASSUME NEW i \in DOMAIN go, WaitForDeploy(i)  PROVE  QuietStep
  BY <1>16 DEF QuietStep, WaitForDeploy, NoError
<1>17. ASSUME NEW i \in DOMAIN go, CreateOrGetHpa(i)  PROVE  QuietStep
  BY <1>17 DEF QuietStep, CreateOrGetHpa, NoError
<1>18. ASSUME NEW i \in DOMAIN go, FnDelete(i)  PROVE  QuietStep
  BY <1>18 DEF QuietStep, FnDelete
<1>19. ASSUME NEW i \in DOMAIN go, CleanupSvcAndHpa(i)  PROVE  QuietStep
  BY <1>19 DEF QuietStep, CleanupSvcAndHpa, NoError
<1>20. ASSUME NEW i \in DOMAIN go, CleanupDeployment(i)  PROVE  QuietStep
  BY <1>20 DEF QuietStep, CleanupDeployment, NoError
<1>21. ASSUME NEW i \in DOMAIN go, CleanupOldExecutorObjects(i)  PROVE  QuietStep
  BY <1>21 DEF QuietStep, CleanupOldExecutorObjects
<1>22. ASSUME NEW i \in DOMAIN go, UpdateFunction(i)  PROVE  QuietStep
  BY <1>22 DEF QuietStep, UpdateFunction, NoError
<1>23. ASSUME NEW i \in DOMAIN go, UpdateEnvironment(i)  PROVE  QuietStep
  BY <1>23 DEF QuietStep, UpdateEnvironment, NoError
<1>24. ASSUME NEW i \in DOMAIN go, PutDeployment(i)  PROVE  QuietStep
  BY <1>24 DEF QuietStep, PutDeployment, NoError
<1>25. ASSUME NEW i \in DOMAIN go, RefreshFuncPods(i)  PROVE  QuietStep
  BY <1>25 DEF QuietStep, RefreshFuncPods, NoError
<1>26. ASSUME NEW i \in DOMAIN go, PatchDeployment(i)  PROVE  QuietStep
  BY <1>26 DEF QuietStep, PatchDeployment, NoError
<1>27. ASSUME NEW i \in DOMAIN go, ScaleDown(i)  PROVE  QuietStep
  BY <1>27 DEF QuietStep, ScaleDown
<1>28. ASSUME NEW i \in DOMAIN go, ThrottlerDelete(i)  PROVE  QuietStep
  BY <1>28 DEF QuietStep, ThrottlerDelete
<1>29. ASSUME NEW i \in DOMAIN go, ThrottlerTime(i)  PROVE  QuietStep
  BY <1>29 DEF QuietStep, ThrottlerTime, NoError
<1>30. CASE UNCHANGED vars
  BY <1>30 DEF QuietStep, vars
<1> QED
  BY <1>1, <1>2, <1>3, <1>4, <1>5, <1>6, <1>7, <1>8, <1>9, <1>10, <1>11, <1>12, <1>13,
     <1>14, <1>15, <1>16, <1>17, <1>18, <1>19, <1>20, <1>21, <1>22, <1>23, <1>24, <1>25,
     <1>26, <1>27, <1>28, <1>29, <1>30 DEF Next, Informers, Creation, Cleanup, Change

(* What an edit makes of the function.                                     *)
LEMMA EditedFunction ==
    ASSUME UsersInv, EditFunction
    PROVE  \E f \in Function : log' = Append(log, f)
<1>1. Len(log) \in Nat /\ Current \in Function  BY DEF UsersInv, Current
<1>2. [Current EXCEPT !.code = Len(log) + 1, !.min = 1 - @] \in Function
  <2>1. Len(log) + 1 \in Nat  BY <1>1
  <2>2. 1 - Current.min \in {0, 1}  BY <1>1 DEF Function
  <2>3. \A x \in Nat, y \in {0, 1} : [Current EXCEPT !.code = x, !.min = y] \in Function
    BY <1>1 DEF Function
  <2> QED  BY <2>1, <2>2, <2>3
<1>3. [Current EXCEPT !.type = IF @ = "other" THEN "newdeploy" ELSE "other"] \in Function
  BY <1>1 DEF Function
<1>4. [Current EXCEPT !.type = "deleted"] \in Function
  BY <1>1 DEF Function
<1> QED  BY <1>2, <1>3, <1>4 DEF EditFunction

(* Every step keeps the counts, and no version is ever taken back.         *)
LEMMA UsersStep ==
    ASSUME UsersInv, [Next]_vars
    PROVE  /\ UsersInv'
           /\ Len(log) <= Len(log') /\ env <= env' /\ cfg <= cfg'
           /\ restarts <= restarts'
<1>1. CASE QuietStep
  BY <1>1 DEF QuietStep, UsersInv, Error, Event, userVars
<1>2. CASE EditFunction
  <2>1. PICK f \in Function : log' = Append(log, f)  BY <1>2, EditedFunction
  <2>2. log' \in Seq(Function) /\ Len(log') = Len(log) + 1  BY <2>1 DEF UsersInv
  <2>3. /\ edits' = edits + 1 /\ edits + errors + restarts < MaxEvents
        /\ UNCHANGED <<env, cfg, errors, restarts>>
    BY <1>2 DEF EditFunction, Edit, Event
  <2>4. Len(log) \in 1 .. edits + 1 /\ edits \in Nat  BY DEF UsersInv
  <2>5. Len(log') \in 1 .. edits' + 1 /\ Len(log) <= Len(log')  BY <2>2, <2>3, <2>4
  <2>6. edits' \in Nat /\ env + cfg <= edits' /\ edits' + errors + restarts <= MaxEvents
    BY <2>3 DEF UsersInv
  <2>7. env <= env' /\ cfg <= cfg' /\ restarts <= restarts'  BY <2>3 DEF UsersInv
  <2> QED  BY <2>2, <2>3, <2>5, <2>6, <2>7 DEF UsersInv
<1>3. CASE EditOther
  BY <1>3 DEF EditOther, Edit, Event, UsersInv
<1>4. CASE Restart
  BY <1>4 DEF Restart, Event, UsersInv, userVars
<1> QED  BY <1>1, <1>2, <1>3, <1>4, OnlyUsersChange

(* The ranges that follow from the counts.                                 *)
LEMMA Ranges ==
    ASSUME UsersInv
    PROVE  /\ Len(log) \in 1 .. MaxEvents + 1 /\ 1 .. Len(log) \subseteq 0 .. MaxEvents + 1
           /\ 0 .. env \subseteq 0 .. MaxEvents /\ 0 .. cfg \subseteq 0 .. MaxEvents
           /\ env \in 0 .. env /\ cfg \in 0 .. cfg
           /\ restarts \in Instance
           /\ 0 \in 0 .. MaxEvents + 1 /\ 0 \in 0 .. MaxEvents
           /\ Len(log) \in 1 .. Len(log)
           /\ DOMAIN log = 1 .. Len(log)
           /\ \A v \in 1 .. Len(log) : log[v] \in Function /\ v # 0 /\ v \in 0 .. Len(log)
BY DEF UsersInv, Instance
-----------------------------------------------------------------------------
(* The goroutines: one is started, replaced or kept.                       *)
Started(g) == go' = <<g>> \/ (Len(go) < MaxGo /\ go' = Append(go, g))

LEMMA StartedInv ==
    ASSUME GoroutinesInv, NEW g \in Goroutine, WorksFor(g), Started(g), log' = log
    PROVE  GoroutinesInv'
<1>1. CASE go' = <<g>>
  <2>1. go' \in Seq(Goroutine) /\ Len(go') = 1 /\ go'[1] = g /\ DOMAIN go' = {1}
    BY <1>1
  <2> QED  BY <2>1 DEF GoroutinesInv, WorksFor
<1>2. CASE Len(go) < MaxGo /\ go' = Append(go, g)
  <2>1. /\ go' \in Seq(Goroutine) /\ Len(go') = Len(go) + 1 /\ Len(go') <= MaxGo
        /\ DOMAIN go' = DOMAIN go \cup {Len(go) + 1}
        /\ go'[Len(go) + 1] = g
        /\ \A i \in DOMAIN go : go'[i] = go[i]
    BY <1>2 DEF GoroutinesInv
  <2> QED  BY <2>1 DEF GoroutinesInv, WorksFor
<1> QED  BY <1>1, <1>2 DEF Started

LEMMA ReplacedInv ==
    ASSUME GoroutinesInv, NEW i \in DOMAIN go, NEW g \in Goroutine, WorksFor(g),
           go' = [go EXCEPT ![i] = g], log' = log
    PROVE  GoroutinesInv'
<1>1. /\ go' \in Seq(Goroutine) /\ Len(go') = Len(go) /\ DOMAIN go' = DOMAIN go
      /\ \A j \in DOMAIN go : go'[j] = IF j = i THEN g ELSE go[j]
  BY DEF GoroutinesInv
<1> QED  BY <1>1 DEF GoroutinesInv, WorksFor

LEMMA StartType ==
    ASSUME NEW pc \in Pc, NEW by \in {"event", "request", "adoption", "other"},
           NEW v \in 0 .. MaxEvents + 1, NEW from \in 0 .. MaxEvents + 1
    PROVE  Start(pc, by, v, from) \in Goroutine
<1>1. 0 \in 0 .. MaxEvents  OBVIOUS
<1> QED  BY <1>1 DEF Start, Goroutine

LEMMA ReturnInv ==
    ASSUME GoroutinesInv, NEW i \in DOMAIN go, Return(i), log' = log
    PROVE  GoroutinesInv'
<1>1. Ended \in Goroutine
  <2>1. 0 \in 0 .. MaxEvents + 1 /\ "end" \in Pc  BY DEF Pc
  <2> QED  BY <2>1, StartType DEF Ended
<1>2. WorksFor(Ended)  BY DEF WorksFor, Ended, Start, NeedsVersion
<1> QED  BY <1>1, <1>2, ReplacedInv DEF Return

(* A goroutine goes on: if it needs a version it had one.                  *)
LEMMA GotoInv ==
    ASSUME GoroutinesInv, NEW i \in DOMAIN go, NEW pc \in Pc \ {"update"}, Goto(i, pc),
           pc \in NeedsVersion => go[i].pc \in NeedsVersion, log' = log
    PROVE  GoroutinesInv'
<1> DEFINE g == [go[i] EXCEPT !.pc = pc]
<1>1. g \in Goroutine  BY GoroutineIsCall DEF Goroutine
<1>2. g.pc = pc /\ g.v = go[i].v  BY GoroutineIsCall DEF Goroutine
<1>3. WorksFor(g)  BY <1>2, GoroutineIsCall DEF WorksFor
<1>4. go' = [go EXCEPT ![i] = g]  BY DEF Goto
<1> QED  BY <1>1, <1>3, <1>4, ReplacedInv

LEMMA CreationEndsInv ==
    ASSUME GoroutinesInv, NEW i \in DOMAIN go, CreationEnds(i), log' = log
    PROVE  GoroutinesInv'
<1>1. "sweep" \in Pc \ {"update"} /\ "sweep" \notin NeedsVersion  BY DEF Pc, NeedsVersion
<1> QED  BY <1>1, GotoInv, ReturnInv DEF CreationEnds

LEMMA CreationFailsInv ==
    ASSUME GoroutinesInv, NEW i \in DOMAIN go, CreationFails(i), log' = log
    PROVE  GoroutinesInv'
<1>1. "cleanSvc" \in Pc \ {"update"} /\ "cleanSvc" \notin NeedsVersion
  BY DEF Pc, NeedsVersion
<1> QED  BY <1>1, GotoInv DEF CreationFails

LEMMA GetDeploymentInv ==
    ASSUME GoroutinesInv, UsersInv, KubeInv, NEW i \in DOMAIN go, NEW v \in 1 .. Len(log),
           NEW img \in 0 .. MaxEvents, GetDeployment(i, v, img), log' = log
    PROVE  GoroutinesInv'
<1>1. CASE FoundByUid /\ depl # None
  <2> DEFINE g == [go[i] EXCEPT !.replicas = depl.replicas, !.v = v, !.img = img,
                                !.cfg = cfg, !.pc = "putDepl"]
  <2>1. depl.replicas \in {0, 1}  BY <1>1 DEF KubeInv, DeploymentObject
  <2>2. v \in 0 .. MaxEvents + 1 /\ cfg \in 0 .. MaxEvents  BY Ranges
  <2>3. g \in Goroutine  BY <2>1, <2>2, GoroutineIsCall DEF Goroutine, Pc
  <2>4. g.pc = "putDepl" /\ g.v = v  BY GoroutineIsCall DEF Goroutine
  <2>5. WorksFor(g)  BY <2>4 DEF WorksFor
  <2>6. go' = [go EXCEPT ![i] = g]
    BY <1>1 DEF GetDeployment, ReferencedResourcesRVSum
  <2> QED  BY <2>3, <2>5, <2>6, ReplacedInv
<1>2. CASE ~(FoundByUid /\ depl # None)
  BY <1>2, ReturnInv DEF GetDeployment
<1> QED  BY <1>1, <1>2

(* A goroutine that is started with a version there is, or needs none.     *)
LEMMA SpawnInv ==
    ASSUME GoroutinesInv, NEW g \in Goroutine, WorksFor(g), Spawn(g), log' = log
    PROVE  GoroutinesInv'
BY StartedInv DEF Spawn, Started

LEMMA SpawnFor ==
    ASSUME UsersInv, NEW pc \in Pc \ {"update"}, NEW by \in {"event", "request", "other", "adoption"},
           NEW v \in 0 .. Len(log), pc \in NeedsVersion => v # 0
    PROVE  Start(pc, by, v, 0) \in Goroutine /\ WorksFor(Start(pc, by, v, 0))
<1>1. v \in 0 .. MaxEvents + 1 /\ 0 \in 0 .. MaxEvents + 1  BY DEF UsersInv
<1>2. Start(pc, by, v, 0) \in Goroutine  BY <1>1, StartType
<1>3. Start(pc, by, v, 0).pc = pc /\ Start(pc, by, v, 0).v = v  BY DEF Start
<1>4. v # 0 => v \in 1 .. Len(log)  BY DEF UsersInv
<1> QED  BY <1>2, <1>3, <1>4 DEF WorksFor

(* What updateFunction is started with.                                    *)
LEMMA UpdateBeginsFor ==
    ASSUME UsersInv, NEW o \in 1 .. Len(log), NEW n \in 1 .. Len(log)
    PROVE  UpdateBegins(o, n) \in Goroutine /\ WorksFor(UpdateBegins(o, n))
<1>1. /\ o \in 0 .. MaxEvents + 1 /\ n \in 0 .. MaxEvents + 1 /\ 0 \in 0 .. MaxEvents + 1
      /\ {"delete", "runOnce", "update", "end"} \subseteq Pc
  BY Ranges DEF Pc
<1>2. ASSUME NEW pc \in {"delete", "runOnce", "update", "end"}, NEW v \in 0 .. MaxEvents + 1,
             NEW from \in 0 .. MaxEvents + 1, NEW by \in {"event", "other"},
             pc \in {"runOnce", "update"} => v \in 1 .. Len(log),
             pc = "update" => from \in 1 .. Len(log)
      PROVE  Start(pc, by, v, from) \in Goroutine /\ WorksFor(Start(pc, by, v, from))
  <2>1. Start(pc, by, v, from) \in Goroutine  BY <1>1, StartType
  <2>2. /\ Start(pc, by, v, from).pc = pc /\ Start(pc, by, v, from).v = v
        /\ Start(pc, by, v, from).from = from
    BY DEF Start
  <2> QED  BY <1>2, <2>1, <2>2 DEF WorksFor, NeedsVersion
<1>3. /\ Start("delete", "event", o, 0) \in Goroutine /\ WorksFor(Start("delete", "event", o, 0))
      /\ Start("runOnce", "event", n, 0) \in Goroutine
      /\ WorksFor(Start("runOnce", "event", n, 0))
      /\ Start("update", "event", n, o) \in Goroutine /\ WorksFor(Start("update", "event", n, o))
      /\ Start("end", "other", 0, 0) \in Goroutine /\ WorksFor(Start("end", "other", 0, 0))
  BY <1>1, <1>2
<1> QED  BY <1>3 DEF UpdateBegins, Ended

(* Every step keeps the goroutines working for versions that there are.    *)
LEMMA GoroutinesStep ==
    ASSUME GoroutinesInv, UsersInv, KubeInv, SeenInv, [Next]_vars
    PROVE  GoroutinesInv'
<1>1. CASE ListFunctions
  <2>1. Len(log) \in 0 .. Len(log) /\ Len(log) # 0  BY DEF UsersInv
  <2>2. "runOnce" \in Pc \ {"update"}  BY DEF Pc
  <2>3. log' = log  BY <1>1 DEF ListFunctions, userVars
  <2> QED  BY <1>1, <2>1, <2>2, <2>3, SpawnFor, SpawnInv DEF ListFunctions, GoroutinesInv, WorksFor
<1>2. CASE NextFunction
  <2> DEFINE o == seen.fn
             n == seen.fn + 1
  <2>1. o \in 1 .. Len(log) /\ n \in 1 .. Len(log)  BY <1>2 DEF NextFunction, UsersInv
  <2>2. UpdateBegins(o, n) \in Goroutine /\ WorksFor(UpdateBegins(o, n))
    BY <2>1, UpdateBeginsFor
  <2>3. log' = log  BY <1>2 DEF NextFunction, userVars
  <2> QED  BY <1>2, <2>2, <2>3, SpawnInv DEF NextFunction, GoroutinesInv, WorksFor
<1>3. CASE NextEnvironment
  <2>1. 0 \in 0 .. Len(log)  BY DEF UsersInv
  <2>2. "envUpdate" \in Pc \ {"update"} /\ "envUpdate" \notin NeedsVersion  BY DEF Pc, NeedsVersion
  <2>3. log' = log  BY <1>3 DEF NextEnvironment, userVars
  <2> QED  BY <1>3, <2>1, <2>2, <2>3, SpawnFor, SpawnInv DEF NextEnvironment
<1>4. CASE NextConfig
  <2>1. 0 \in 0 .. Len(log)  BY DEF UsersInv
  <2>2. "refresh" \in Pc \ {"update"} /\ "refresh" \notin NeedsVersion  BY DEF Pc, NeedsVersion
  <2>3. log' = log  BY <1>4 DEF NextConfig, userVars
  <2> QED  BY <1>4, <2>1, <2>2, <2>3, SpawnFor, SpawnInv DEF NextConfig
<1>5. CASE ThrottlerExpire
  BY <1>5 DEF ThrottlerExpire, userVars, GoroutinesInv, WorksFor
<1>6. CASE ReapIdle
  <2> DEFINE g == [Start("scale", "other", 0, 0) EXCEPT !.replicas = Current.min]
  <2>1. Current.min \in {0, 1}  BY Ranges DEF Current, Function
  <2>2. 0 \in 0 .. MaxEvents + 1 /\ "scale" \in Pc  BY DEF Pc
  <2>3. Start("scale", "other", 0, 0) \in Goroutine  BY <2>2, StartType
  <2>4. g \in Goroutine  BY <2>1, <2>3 DEF Goroutine
  <2>5. g.pc = "scale"  BY DEF Start
  <2>6. WorksFor(g)  BY <2>5 DEF WorksFor, NeedsVersion
  <2>7. log' = log  BY <1>6 DEF ReapIdle, userVars
  <2> QED  BY <1>6, <2>4, <2>6, <2>7, SpawnInv DEF ReapIdle
<1>7. CASE ReplicasAvailable
  BY <1>7 DEF ReplicasAvailable, userVars, GoroutinesInv, WorksFor
<1>8. CASE ReplicasFail
  BY <1>8 DEF ReplicasFail, userVars, GoroutinesInv, WorksFor
<1>9. CASE EditFunction
  <2>1. Len(log) <= Len(log') /\ Len(log) \in Nat /\ Len(log') \in Nat
    BY UsersStep DEF UsersInv
  <2>2. 1 .. Len(log) \subseteq 1 .. Len(log')  BY <2>1
  <2>3. go' = go  BY <1>9 DEF EditFunction
  <2> QED  BY <2>2, <2>3 DEF GoroutinesInv, WorksFor
<1>10. CASE EditOther
  BY <1>10 DEF EditOther, userVars, GoroutinesInv, WorksFor
<1>11. CASE Restart
  <2>1. Len(log) \in 0 .. Len(log) /\ Len(log) # 0 /\ 0 \in 0 .. Len(log)
    BY DEF UsersInv
  <2>2. {"svc", "sweep"} \subseteq Pc \ {"update"} /\ "sweep" \notin NeedsVersion
    BY DEF Pc, NeedsVersion
  <2>3. log' = log  BY <1>11 DEF Restart, userVars
  <2> QED  BY <1>11, <2>1, <2>2, <2>3, SpawnFor, StartedInv DEF Restart, Started
<1>12. ASSUME NEW v \in DOMAIN log, Request(v)  PROVE  GoroutinesInv'
  <2>1. v \in 0 .. Len(log) /\ v # 0  BY Ranges
  <2>2. "runOnce" \in Pc \ {"update"}  BY DEF Pc
  <2>3. log' = log  BY <1>12 DEF Request, userVars
  <2> QED  BY <1>12, <2>1, <2>2, <2>3, SpawnFor, SpawnInv DEF Request
<1>13. ASSUME NEW i \in DOMAIN go, RunOnce(i)  PROVE  GoroutinesInv'
  <2>1. "svc" \in Pc \ {"update"} /\ go[i].pc \in NeedsVersion
    BY <1>13 DEF RunOnce, Pc, NeedsVersion
  <2>2. log' = log  BY <1>13 DEF RunOnce, userVars
  <2> QED  BY <1>13, <2>1, <2>2, GotoInv, ReturnInv DEF RunOnce, GoroutinesInv, WorksFor
<1>14. ASSUME NEW i \in DOMAIN go, CreateOrGetSvc(i)  PROVE  GoroutinesInv'
  <2>1. log' = log  BY <1>14 DEF CreateOrGetSvc, userVars
  <2>2. ASSUME go' = [go EXCEPT ![i].img = env, ![i].pc = "depl"]  PROVE GoroutinesInv'
    <3> DEFINE g == [go[i] EXCEPT !.img = env, !.pc = "depl"]
    <3>1. env \in 0 .. MaxEvents  BY Ranges
    <3>2. g \in Goroutine  BY <3>1, GoroutineIsCall DEF Goroutine, Pc
    <3>3. g.pc = "depl" /\ g.v = go[i].v  BY GoroutineIsCall DEF Goroutine
    <3>4. WorksFor(g)
      BY <1>14, <3>3, GoroutineIsCall DEF WorksFor, CreateOrGetSvc, NeedsVersion
    <3>5. go' = [go EXCEPT ![i] = g]  BY <2>2
    <3> QED  BY <2>1, <3>2, <3>4, <3>5, ReplacedInv
  <2> QED  BY <1>14, <2>1, <2>2, CreationEndsInv, CreationFailsInv DEF CreateOrGetSvc
<1>15. ASSUME NEW i \in DOMAIN go, CreateOrGetDeployment(i)  PROVE  GoroutinesInv'
  <2>1. {"wait", "hpa"} \subseteq Pc \ {"update"} /\ go[i].pc \in NeedsVersion
    BY <1>15 DEF CreateOrGetDeployment, Pc, NeedsVersion
  <2>2. log' = log  BY <1>15 DEF CreateOrGetDeployment, userVars
  <2>3. Goto(i, "wait") \/ Goto(i, "hpa") \/ CreationFails(i)
    BY <1>15 DEF CreateOrGetDeployment
  <2> QED  BY <2>1, <2>2, <2>3, GotoInv, CreationFailsInv
<1>16. ASSUME NEW i \in DOMAIN go, WaitForDeploy(i)  PROVE  GoroutinesInv'
  <2>1. "hpa" \in Pc \ {"update"} /\ go[i].pc \in NeedsVersion
    BY <1>16 DEF WaitForDeploy, Pc, NeedsVersion
  <2>2. log' = log  BY <1>16 DEF WaitForDeploy, userVars
  <2> QED  BY <1>16, <2>1, <2>2, GotoInv, CreationFailsInv DEF WaitForDeploy
<1>17. ASSUME NEW i \in DOMAIN go, CreateOrGetHpa(i)  PROVE  GoroutinesInv'
  <2>1. log' = log  BY <1>17 DEF CreateOrGetHpa, userVars
  <2> QED  BY <1>17, <2>1, CreationEndsInv, CreationFailsInv DEF CreateOrGetHpa
<1>18. ASSUME NEW i \in DOMAIN go, FnDelete(i)  PROVE  GoroutinesInv'
  <2>1. "cleanSvc" \in Pc \ {"update"} /\ "cleanSvc" \notin NeedsVersion
    BY DEF Pc, NeedsVersion
  <2>2. log' = log  BY <1>18 DEF FnDelete, userVars
  <2> QED  BY <1>18, <2>1, <2>2, GotoInv, ReturnInv DEF FnDelete
<1>19. ASSUME NEW i \in DOMAIN go, CleanupSvcAndHpa(i)  PROVE  GoroutinesInv'
  <2>1. "cleanDepl" \in Pc \ {"update"} /\ "cleanDepl" \notin NeedsVersion
    BY DEF Pc, NeedsVersion
  <2>2. log' = log  BY <1>19 DEF CleanupSvcAndHpa, userVars
  <2> QED  BY <1>19, <2>1, <2>2, GotoInv DEF CleanupSvcAndHpa
<1>20. ASSUME NEW i \in DOMAIN go, CleanupDeployment(i)  PROVE  GoroutinesInv'
  <2>1. log' = log  BY <1>20 DEF CleanupDeployment, userVars
  <2> QED  BY <1>20, <2>1, CreationEndsInv DEF CleanupDeployment
<1>21. ASSUME NEW i \in DOMAIN go, CleanupOldExecutorObjects(i)  PROVE  GoroutinesInv'
  <2>1. log' = log  BY <1>21 DEF CleanupOldExecutorObjects, userVars
  <2> QED  BY <1>21, <2>1, ReturnInv DEF CleanupOldExecutorObjects
<1>22. ASSUME NEW i \in DOMAIN go, UpdateFunction(i)  PROVE  GoroutinesInv'
  <2>1. log' = log  BY <1>22 DEF UpdateFunction, userVars
  <2>2. go[i].v \in 1 .. Len(log)
    BY <1>22, GoroutineIsCall DEF UpdateFunction, WorksFor, NeedsVersion
  <2>3. env \in 0 .. MaxEvents  BY Ranges
  <2> QED  BY <1>22, <2>1, <2>2, <2>3, GetDeploymentInv, ReturnInv DEF UpdateFunction
<1>23. ASSUME NEW i \in DOMAIN go, UpdateEnvironment(i)  PROVE  GoroutinesInv'
  <2>1. log' = log  BY <1>23 DEF UpdateEnvironment, userVars
  <2>2. Len(log) \in 1 .. Len(log) /\ seen.env \in 0 .. env  BY Ranges DEF SeenInv
  <2>3. seen.env \in 0 .. MaxEvents  BY <2>2, Ranges
  <2> QED  BY <1>23, <2>1, <2>2, <2>3, GetDeploymentInv, ReturnInv DEF UpdateEnvironment
<1>24. ASSUME NEW i \in DOMAIN go, PutDeployment(i)  PROVE  GoroutinesInv'
  <2>1. log' = log  BY <1>24 DEF PutDeployment, userVars
  <2> QED  BY <1>24, <2>1, ReturnInv DEF PutDeployment
<1>25. ASSUME NEW i \in DOMAIN go, RefreshFuncPods(i)  PROVE  GoroutinesInv'
  <2>1. log' = log  BY <1>25 DEF RefreshFuncPods, userVars
  <2>2. ASSUME go' = [go EXCEPT ![i].cfg = ReferencedResourcesRVSum, ![i].pc = "patch"]
        PROVE  GoroutinesInv'
    <3> DEFINE g == [go[i] EXCEPT !.cfg = cfg, !.pc = "patch"]
    <3>1. cfg \in 0 .. MaxEvents  BY Ranges
    <3>2. g \in Goroutine  BY <3>1, GoroutineIsCall DEF Goroutine, Pc
    <3>3. g.pc = "patch"  BY GoroutineIsCall DEF Goroutine
    <3>4. WorksFor(g)  BY <3>3 DEF WorksFor, NeedsVersion
    <3>5. go' = [go EXCEPT ![i] = g]  BY <2>2 DEF ReferencedResourcesRVSum
    <3> QED  BY <2>1, <3>2, <3>4, <3>5, ReplacedInv
  <2> QED  BY <1>25, <2>1, <2>2, ReturnInv DEF RefreshFuncPods
<1>26. ASSUME NEW i \in DOMAIN go, PatchDeployment(i)  PROVE  GoroutinesInv'
  <2>1. log' = log  BY <1>26 DEF PatchDeployment, userVars
  <2> QED  BY <1>26, <2>1, ReturnInv DEF PatchDeployment
<1>27. ASSUME NEW i \in DOMAIN go, ScaleDown(i)  PROVE  GoroutinesInv'
  <2>1. log' = log  BY <1>27 DEF ScaleDown, userVars
  <2> QED  BY <1>27, <2>1, ReturnInv DEF ScaleDown
<1>28. ASSUME NEW i \in DOMAIN go, ThrottlerDelete(i)  PROVE  GoroutinesInv'
  BY <1>28 DEF ThrottlerDelete, userVars, GoroutinesInv, WorksFor
<1>29. ASSUME NEW i \in DOMAIN go, ThrottlerTime(i)  PROVE  GoroutinesInv'
  BY <1>29 DEF ThrottlerTime, userVars, GoroutinesInv, WorksFor
<1>30. CASE UNCHANGED vars
  BY <1>30 DEF vars, userVars, GoroutinesInv, WorksFor
<1> QED
  BY <1>1, <1>2, <1>3, <1>4, <1>5, <1>6, <1>7, <1>8, <1>9, <1>10, <1>11, <1>12, <1>13,
     <1>14, <1>15, <1>16, <1>17, <1>18, <1>19, <1>20, <1>21, <1>22, <1>23, <1>24, <1>25,
     <1>26, <1>27, <1>28, <1>29, <1>30 DEF Next, Informers, Creation, Cleanup, Change

-----------------------------------------------------------------------------
(* The objects in Kubernetes.                                              *)
LEMMA DeploymentType ==
    ASSUME UsersInv, NEW v \in 1 .. Len(log), NEW img \in 0 .. MaxEvents,
           NEW c \in 0 .. MaxEvents, NEW n \in {0, 1}
    PROVE  Deployment(v, img, c, n) \in DeploymentObject /\ Deployment(v, img, c, n).replicas = n
<1>1. log[v].code \in Nat /\ restarts \in Instance  BY Ranges DEF Function
<1> QED  BY <1>1 DEF Deployment, DeploymentObject

LEMMA ScaledType ==
    ASSUME NEW d \in DeploymentObject, NEW n \in {0, 1}
    PROVE  [d EXCEPT !.replicas = n] \in DeploymentObject /\ [d EXCEPT !.replicas = n].replicas = n
BY DEF DeploymentObject

(* Every step keeps the objects well formed, and no replica is available   *)
(* without a deployment.                                                   *)
LEMMA KubeStep ==
    ASSUME KubeInv, UsersInv, GoroutinesInv, [Next]_vars
    PROVE  KubeInv'
<1>1. CASE ListFunctions
  BY <1>1 DEF ListFunctions, kubeVars, KubeInv
<1>2. CASE NextFunction
  BY <1>2 DEF NextFunction, kubeVars, KubeInv
<1>3. CASE NextEnvironment
  BY <1>3 DEF NextEnvironment, kubeVars, KubeInv
<1>4. CASE NextConfig
  BY <1>4 DEF NextConfig, kubeVars, KubeInv
<1>5. CASE ThrottlerExpire
  BY <1>5 DEF ThrottlerExpire, kubeVars, KubeInv
<1>6. CASE ReapIdle
  BY <1>6 DEF ReapIdle, kubeVars, KubeInv
<1>7. CASE ReplicasAvailable
  BY <1>7 DEF ReplicasAvailable, kubeVars, KubeInv
<1>8. CASE ReplicasFail
  BY <1>8 DEF ReplicasFail, kubeVars, KubeInv
<1>9. CASE EditFunction
  BY <1>9 DEF EditFunction, kubeVars, KubeInv
<1>10. CASE EditOther
  BY <1>10 DEF EditOther, kubeVars, KubeInv
<1>11. CASE Restart
  BY <1>11 DEF Restart, kubeVars, KubeInv
<1>12. ASSUME NEW v \in DOMAIN log, Request(v)  PROVE  KubeInv'
  BY <1>12 DEF Request, kubeVars, KubeInv
<1>13. ASSUME NEW i \in DOMAIN go, RunOnce(i)  PROVE  KubeInv'
  BY <1>13 DEF RunOnce, kubeVars, KubeInv
<1>14. ASSUME NEW i \in DOMAIN go, CreateOrGetSvc(i)  PROVE  KubeInv'
  BY <1>14, Ranges DEF CreateOrGetSvc, KubeInv
<1>15. ASSUME NEW i \in DOMAIN go, CreateOrGetDeployment(i)  PROVE  KubeInv'
  <2> DEFINE new(n) == Deployment(go[i].v, go[i].img, cfg, n)
  <2>1. /\ go[i].v \in 1 .. Len(log) /\ go[i].img \in 0 .. MaxEvents
        /\ cfg \in 0 .. MaxEvents
    BY <1>15, GoroutineIsCall, Ranges
    DEF CreateOrGetDeployment, WorksFor, NeedsVersion, Goroutine
  <2>2. \A n \in {0, 1} : new(n) \in DeploymentObject /\ new(n).replicas = n
    BY <2>1, DeploymentType
  <2>3. \/ UNCHANGED depl
        \/ depl = None /\ depl' = new(1)
        \/ depl # None /\ depl' = new(depl.replicas)
        \/ depl # None /\ depl' = [depl EXCEPT !.replicas = 1]
    BY <1>15 DEF CreateOrGetDeployment, ReferencedResourcesRVSum
  <2>4. depl # None => depl \in DeploymentObject /\ depl.replicas \in {0, 1}
    BY DEF KubeInv, DeploymentObject
  <2>5. depl' \in DeploymentObject \cup {None} /\ (available => depl' # None /\ depl'.replicas > 0)
    <3> HIDE DEF new
    <3>1. CASE UNCHANGED depl  BY <3>1 DEF KubeInv
    <3>2. CASE depl = None /\ depl' = new(1)  BY <2>2, <3>2 DEF KubeInv
    <3>3. CASE depl # None /\ depl' = new(depl.replicas)
      BY <2>2, <2>4, <3>3 DEF KubeInv
    <3>4. CASE depl # None /\ depl' = [depl EXCEPT !.replicas = 1]
      <4>1. 1 \in {0, 1} /\ 1 > 0  OBVIOUS
      <4>2. depl' \in DeploymentObject /\ depl'.replicas = 1
        BY <2>4, <3>4, <4>1, ScaledType
      <4> QED  BY <4>2
    <3> QED  BY <2>3, <3>1, <3>2, <3>3, <3>4
  <2> QED  BY <1>15, <2>5 DEF CreateOrGetDeployment, KubeInv
<1>16. ASSUME NEW i \in DOMAIN go, WaitForDeploy(i)  PROVE  KubeInv'
  BY <1>16 DEF WaitForDeploy, kubeVars, KubeInv
<1>17. ASSUME NEW i \in DOMAIN go, CreateOrGetHpa(i)  PROVE  KubeInv'
  BY <1>17, Ranges DEF CreateOrGetHpa, KubeInv
<1>18. ASSUME NEW i \in DOMAIN go, FnDelete(i)  PROVE  KubeInv'
  BY <1>18 DEF FnDelete, kubeVars, KubeInv
<1>19. ASSUME NEW i \in DOMAIN go, CleanupSvcAndHpa(i)  PROVE  KubeInv'
  BY <1>19 DEF CleanupSvcAndHpa, kubeVars, KubeInv
<1>20. ASSUME NEW i \in DOMAIN go, CleanupDeployment(i)  PROVE  KubeInv'
  <2>1. CASE depl' = None /\ available' = FALSE
    BY <1>20, <2>1 DEF CleanupDeployment, KubeInv
  <2>2. CASE UNCHANGED <<depl, available>>
    BY <1>20, <2>2 DEF CleanupDeployment, KubeInv
  <2> QED  BY <1>20, <2>1, <2>2 DEF CleanupDeployment
<1>21. ASSUME NEW i \in DOMAIN go, CleanupOldExecutorObjects(i)  PROVE  KubeInv'
  BY <1>21 DEF CleanupOldExecutorObjects, CleanupServices, CleanupHpa, CleanupDeployments, KubeInv
<1>22. ASSUME NEW i \in DOMAIN go, UpdateFunction(i)  PROVE  KubeInv'
  BY <1>22 DEF UpdateFunction, kubeVars, KubeInv
<1>23. ASSUME NEW i \in DOMAIN go, UpdateEnvironment(i)  PROVE  KubeInv'
  BY <1>23 DEF UpdateEnvironment, kubeVars, KubeInv
<1>24. ASSUME NEW i \in DOMAIN go, PutDeployment(i)  PROVE  KubeInv'
  <2> DEFINE new == Deployment(go[i].v, go[i].img, go[i].cfg, go[i].replicas)
  <2>1. /\ go[i].v \in 1 .. Len(log) /\ go[i].img \in 0 .. MaxEvents
        /\ go[i].cfg \in 0 .. MaxEvents /\ go[i].replicas \in {0, 1}
    BY <1>24, GoroutineIsCall DEF PutDeployment, WorksFor, NeedsVersion, Goroutine
  <2>2. new \in DeploymentObject /\ new.replicas = go[i].replicas
    BY <2>1, DeploymentType
  <2>3. \/ depl' = new /\ available' = (available /\ go[i].replicas > 0)
        \/ UNCHANGED <<depl, available>>
    BY <1>24 DEF PutDeployment
  <2>4. svc' = svc /\ hpa' = hpa  BY <1>24 DEF PutDeployment
  <2> HIDE DEF new
  <2>5. CASE depl' = new /\ available' = (available /\ go[i].replicas > 0)
    BY <2>2, <2>4, <2>5 DEF KubeInv
  <2> QED  BY <2>3, <2>4, <2>5 DEF KubeInv
<1>25. ASSUME NEW i \in DOMAIN go, RefreshFuncPods(i)  PROVE  KubeInv'
  BY <1>25 DEF RefreshFuncPods, kubeVars, KubeInv
<1>26. ASSUME NEW i \in DOMAIN go, PatchDeployment(i)  PROVE  KubeInv'
  <2>1. go[i].cfg \in 0 .. MaxEvents  BY GoroutineIsCall DEF Goroutine
  <2>2. ASSUME depl # None
        PROVE  /\ [depl EXCEPT !.cfg = go[i].cfg] \in DeploymentObject
               /\ [depl EXCEPT !.cfg = go[i].cfg].replicas = depl.replicas
    BY <2>1, <2>2 DEF KubeInv, DeploymentObject
  <2> QED  BY <1>26, <2>2 DEF PatchDeployment, KubeInv
<1>27. ASSUME NEW i \in DOMAIN go, ScaleDown(i)  PROVE  KubeInv'
  <2>1. go[i].replicas \in {0, 1}  BY GoroutineIsCall DEF Goroutine
  <2> QED  BY <1>27, <2>1, ScaledType DEF ScaleDown, KubeInv
<1>28. ASSUME NEW i \in DOMAIN go, ThrottlerDelete(i)  PROVE  KubeInv'
  BY <1>28 DEF ThrottlerDelete, kubeVars, KubeInv
<1>29. ASSUME NEW i \in DOMAIN go, ThrottlerTime(i)  PROVE  KubeInv'
  BY <1>29 DEF ThrottlerTime, kubeVars, KubeInv
<1>30. CASE UNCHANGED vars
  BY <1>30 DEF vars, kubeVars, KubeInv
<1> QED
  BY <1>1, <1>2, <1>3, <1>4, <1>5, <1>6, <1>7, <1>8, <1>9, <1>10, <1>11, <1>12, <1>13,
     <1>14, <1>15, <1>16, <1>17, <1>18, <1>19, <1>20, <1>21, <1>22, <1>23, <1>24, <1>25,
     <1>26, <1>27, <1>28, <1>29, <1>30 DEF Next, Informers, Creation, Cleanup, Change

-----------------------------------------------------------------------------
(* The cache: it is left alone, an entry is added for a version there is,  *)
(* or one is deleted.                                                      *)
LEMMA CacheSame ==
    ASSUME CacheInv, UsersInv, UNCHANGED cacheVars, Len(log') \in Nat, Len(log) <= Len(log')
    PROVE  CacheInv'
<1>1. 1 .. Len(log) \subseteq 1 .. Len(log') /\ 0 .. Len(log) \subseteq 0 .. Len(log')
  BY DEF UsersInv
<1> QED  BY <1>1 DEF CacheInv, cacheVars, UidFindsService, FoundByUid

LEMMA CacheAddInv ==
    ASSUME CacheInv, UsersInv, NEW v \in 1 .. Len(log), CacheAdd(v), log' = log
    PROVE  CacheInv'
<1>1. v \in 0 .. Len(log) /\ v # 0  BY Ranges
<1>2. CASE v \in byFunction
  BY <1>2, CacheSame DEF CacheAdd, UsersInv
<1>3. CASE v \notin byFunction
  BY <1>1, <1>3 DEF CacheAdd, CacheInv, UidFindsService, FoundByUid
<1> QED  BY <1>2, <1>3

LEMMA CacheDeleteInv ==
    ASSUME CacheInv, UsersInv, NEW v, CacheDelete(v), log' = log
    PROVE  CacheInv'
<1>1. 0 \in 0 .. Len(log)  BY DEF UsersInv
<1> QED  BY <1>1 DEF CacheDelete, CacheInv, UidFindsService, FoundByUid

(* Every step keeps the address and the UID in the cache together.         *)
LEMMA CacheStep ==
    ASSUME CacheInv, UsersInv, GoroutinesInv, [Next]_vars
    PROVE  CacheInv'
<1>0. Len(log') \in Nat /\ Len(log) <= Len(log')  BY UsersStep DEF UsersInv
<1>1. CASE ListFunctions
  BY <1>1, <1>0, CacheSame DEF ListFunctions
<1>2. CASE NextFunction
  BY <1>2, <1>0, CacheSame DEF NextFunction
<1>3. CASE NextEnvironment
  BY <1>3, <1>0, CacheSame DEF NextEnvironment
<1>4. CASE NextConfig
  BY <1>4, <1>0, CacheSame DEF NextConfig
<1>5. CASE ThrottlerExpire
  BY <1>5, <1>0, CacheSame DEF ThrottlerExpire
<1>6. CASE ReapIdle
  BY <1>6, <1>0, CacheSame DEF ReapIdle
<1>7. CASE ReplicasAvailable
  BY <1>7, <1>0, CacheSame DEF ReplicasAvailable
<1>8. CASE ReplicasFail
  BY <1>8, <1>0, CacheSame DEF ReplicasFail
<1>9. CASE EditFunction
  BY <1>9, <1>0, CacheSame DEF EditFunction
<1>10. CASE EditOther
  BY <1>10, <1>0, CacheSame DEF EditOther
<1>11. CASE Restart
  <2>1. 0 \in 0 .. Len(log)  BY DEF UsersInv
  <2> QED  BY <1>11, <2>1 DEF Restart, userVars, CacheInv, UidFindsService, FoundByUid
<1>12. ASSUME NEW v \in DOMAIN log, Request(v)  PROVE  CacheInv'
  <2>1. log' = log  BY <1>12 DEF Request, userVars
  <2> QED  BY <1>12, <2>1, <1>0, CacheDeleteInv, CacheSame DEF Request
<1>13. ASSUME NEW i \in DOMAIN go, RunOnce(i)  PROVE  CacheInv'
  BY <1>13, <1>0, CacheSame DEF RunOnce
<1>14. ASSUME NEW i \in DOMAIN go, CreateOrGetSvc(i)  PROVE  CacheInv'
  BY <1>14, <1>0, CacheSame DEF CreateOrGetSvc
<1>15. ASSUME NEW i \in DOMAIN go, CreateOrGetDeployment(i)  PROVE  CacheInv'
  BY <1>15, <1>0, CacheSame DEF CreateOrGetDeployment
<1>16. ASSUME NEW i \in DOMAIN go, WaitForDeploy(i)  PROVE  CacheInv'
  BY <1>16, <1>0, CacheSame DEF WaitForDeploy
<1>17. ASSUME NEW i \in DOMAIN go, CreateOrGetHpa(i)  PROVE  CacheInv'
  <2>1. log' = log  BY <1>17 DEF CreateOrGetHpa, userVars
  <2>2. go[i].v \in 1 .. Len(log)
    BY <1>17, GoroutineIsCall DEF CreateOrGetHpa, WorksFor, NeedsVersion
  <2> QED  BY <1>17, <2>1, <2>2, <1>0, CacheAddInv, CacheSame DEF CreateOrGetHpa
<1>18. ASSUME NEW i \in DOMAIN go, FnDelete(i)  PROVE  CacheInv'
  <2>1. log' = log  BY <1>18 DEF FnDelete, userVars
  <2> QED  BY <1>18, <2>1, <1>0, CacheDeleteInv, CacheSame DEF FnDelete
<1>19. ASSUME NEW i \in DOMAIN go, CleanupSvcAndHpa(i)  PROVE  CacheInv'
  BY <1>19, <1>0, CacheSame DEF CleanupSvcAndHpa
<1>20. ASSUME NEW i \in DOMAIN go, CleanupDeployment(i)  PROVE  CacheInv'
  BY <1>20, <1>0, CacheSame DEF CleanupDeployment
<1>21. ASSUME NEW i \in DOMAIN go, CleanupOldExecutorObjects(i)  PROVE  CacheInv'
  BY <1>21, <1>0, CacheSame DEF CleanupOldExecutorObjects
<1>22. ASSUME NEW i \in DOMAIN go, UpdateFunction(i)  PROVE  CacheInv'
  BY <1>22, <1>0, CacheSame DEF UpdateFunction
<1>23. ASSUME NEW i \in DOMAIN go, UpdateEnvironment(i)  PROVE  CacheInv'
  BY <1>23, <1>0, CacheSame DEF UpdateEnvironment
<1>24. ASSUME NEW i \in DOMAIN go, PutDeployment(i)  PROVE  CacheInv'
  BY <1>24, <1>0, CacheSame DEF PutDeployment
<1>25. ASSUME NEW i \in DOMAIN go, RefreshFuncPods(i)  PROVE  CacheInv'
  BY <1>25, <1>0, CacheSame DEF RefreshFuncPods
<1>26. ASSUME NEW i \in DOMAIN go, PatchDeployment(i)  PROVE  CacheInv'
  BY <1>26, <1>0, CacheSame DEF PatchDeployment
<1>27. ASSUME NEW i \in DOMAIN go, ScaleDown(i)  PROVE  CacheInv'
  BY <1>27, <1>0, CacheSame DEF ScaleDown
<1>28. ASSUME NEW i \in DOMAIN go, ThrottlerDelete(i)  PROVE  CacheInv'
  BY <1>28, <1>0, CacheSame DEF ThrottlerDelete
<1>29. ASSUME NEW i \in DOMAIN go, ThrottlerTime(i)  PROVE  CacheInv'
  BY <1>29, <1>0, CacheSame DEF ThrottlerTime
<1>30. CASE UNCHANGED vars
  BY <1>30, <1>0, CacheSame DEF vars
<1> QED
  BY <1>1, <1>2, <1>3, <1>4, <1>5, <1>6, <1>7, <1>8, <1>9, <1>10, <1>11, <1>12, <1>13,
     <1>14, <1>15, <1>16, <1>17, <1>18, <1>19, <1>20, <1>21, <1>22, <1>23, <1>24, <1>25,
     <1>26, <1>27, <1>28, <1>29, <1>30 DEF Next, Informers, Creation, Cleanup, Change

-----------------------------------------------------------------------------
(* What the informers have delivered, there is.                            *)
LEMMA SeenSame ==
    ASSUME SeenInv, UsersInv, UsersInv', UNCHANGED seen,
           Len(log) <= Len(log'), env <= env', cfg <= cfg'
    PROVE  SeenInv'
BY DEF SeenInv, UsersInv

(* No informer delivers what there is not.                                 *)
LEMMA SeenStep ==
    ASSUME SeenInv, UsersInv, [Next]_vars
    PROVE  SeenInv'
<1>0. UsersInv' /\ Len(log) <= Len(log') /\ env <= env' /\ cfg <= cfg'
  BY UsersStep
<1>1. CASE ListFunctions
  <2>1. seen' = [seen EXCEPT !.fn = Len(log)] /\ UNCHANGED <<log, env, cfg>>
    BY <1>1 DEF ListFunctions, userVars
  <2>2. Len(log) \in Nat /\ Len(log) <= Len(log)  BY <1>1 DEF ListFunctions, SeenInv, UsersInv
  <2> QED  BY <2>1, <2>2 DEF SeenInv
<1>2. CASE NextFunction
  <2>1. seen' = [seen EXCEPT !.fn = seen.fn + 1] /\ UNCHANGED <<log, env, cfg>>
    BY <1>2 DEF NextFunction, userVars
  <2>2. seen.fn + 1 \in Nat /\ seen.fn + 1 <= Len(log)  BY <1>2 DEF NextFunction, SeenInv, UsersInv
  <2> QED  BY <2>1, <2>2 DEF SeenInv
<1>3. CASE NextEnvironment
  <2>1. seen' = [seen EXCEPT !.env = seen.env + 1] /\ UNCHANGED <<log, env, cfg>>
    BY <1>3 DEF NextEnvironment, userVars
  <2>2. seen.env + 1 \in Nat /\ seen.env + 1 <= env  BY <1>3 DEF NextEnvironment, SeenInv, UsersInv
  <2> QED  BY <2>1, <2>2 DEF SeenInv
<1>4. CASE NextConfig
  <2>1. seen' = [seen EXCEPT !.cfg = seen.cfg + 1] /\ UNCHANGED <<log, env, cfg>>
    BY <1>4 DEF NextConfig, userVars
  <2>2. seen.cfg + 1 \in Nat /\ seen.cfg + 1 <= cfg  BY <1>4 DEF NextConfig, SeenInv, UsersInv
  <2> QED  BY <2>1, <2>2 DEF SeenInv
<1>5. CASE ThrottlerExpire
  BY <1>5, <1>0, SeenSame DEF ThrottlerExpire
<1>6. CASE ReapIdle
  BY <1>6, <1>0, SeenSame DEF ReapIdle
<1>7. CASE ReplicasAvailable
  BY <1>7, <1>0, SeenSame DEF ReplicasAvailable
<1>8. CASE ReplicasFail
  BY <1>8, <1>0, SeenSame DEF ReplicasFail
<1>9. CASE EditFunction
  BY <1>9, <1>0, SeenSame DEF EditFunction
<1>10. CASE EditOther
  BY <1>10, <1>0, SeenSame DEF EditOther
<1>11. CASE Restart
  BY <1>11 DEF Restart, userVars, SeenInv, UsersInv
<1>12. ASSUME NEW v \in DOMAIN log, Request(v)  PROVE  SeenInv'
  BY <1>12, <1>0, SeenSame DEF Request
<1>13. ASSUME NEW i \in DOMAIN go, RunOnce(i)  PROVE  SeenInv'
  BY <1>13, <1>0, SeenSame DEF RunOnce
<1>14. ASSUME NEW i \in DOMAIN go, CreateOrGetSvc(i)  PROVE  SeenInv'
  BY <1>14, <1>0, SeenSame DEF CreateOrGetSvc
<1>15. ASSUME NEW i \in DOMAIN go, CreateOrGetDeployment(i)  PROVE  SeenInv'
  BY <1>15, <1>0, SeenSame DEF CreateOrGetDeployment
<1>16. ASSUME NEW i \in DOMAIN go, WaitForDeploy(i)  PROVE  SeenInv'
  BY <1>16, <1>0, SeenSame DEF WaitForDeploy
<1>17. ASSUME NEW i \in DOMAIN go, CreateOrGetHpa(i)  PROVE  SeenInv'
  BY <1>17, <1>0, SeenSame DEF CreateOrGetHpa
<1>18. ASSUME NEW i \in DOMAIN go, FnDelete(i)  PROVE  SeenInv'
  BY <1>18, <1>0, SeenSame DEF FnDelete
<1>19. ASSUME NEW i \in DOMAIN go, CleanupSvcAndHpa(i)  PROVE  SeenInv'
  BY <1>19, <1>0, SeenSame DEF CleanupSvcAndHpa
<1>20. ASSUME NEW i \in DOMAIN go, CleanupDeployment(i)  PROVE  SeenInv'
  BY <1>20, <1>0, SeenSame DEF CleanupDeployment
<1>21. ASSUME NEW i \in DOMAIN go, CleanupOldExecutorObjects(i)  PROVE  SeenInv'
  BY <1>21, <1>0, SeenSame DEF CleanupOldExecutorObjects
<1>22. ASSUME NEW i \in DOMAIN go, UpdateFunction(i)  PROVE  SeenInv'
  BY <1>22, <1>0, SeenSame DEF UpdateFunction
<1>23. ASSUME NEW i \in DOMAIN go, UpdateEnvironment(i)  PROVE  SeenInv'
  BY <1>23, <1>0, SeenSame DEF UpdateEnvironment
<1>24. ASSUME NEW i \in DOMAIN go, PutDeployment(i)  PROVE  SeenInv'
  BY <1>24, <1>0, SeenSame DEF PutDeployment
<1>25. ASSUME NEW i \in DOMAIN go, RefreshFuncPods(i)  PROVE  SeenInv'
  BY <1>25, <1>0, SeenSame DEF RefreshFuncPods
<1>26. ASSUME NEW i \in DOMAIN go, PatchDeployment(i)  PROVE  SeenInv'
  BY <1>26, <1>0, SeenSame DEF PatchDeployment
<1>27. ASSUME NEW i \in DOMAIN go, ScaleDown(i)  PROVE  SeenInv'
  BY <1>27, <1>0, SeenSame DEF ScaleDown
<1>28. ASSUME NEW i \in DOMAIN go, ThrottlerDelete(i)  PROVE  SeenInv'
  BY <1>28, <1>0, SeenSame DEF ThrottlerDelete
<1>29. ASSUME NEW i \in DOMAIN go, ThrottlerTime(i)  PROVE  SeenInv'
  BY <1>29, <1>0, SeenSame DEF ThrottlerTime
<1>30. CASE UNCHANGED vars
  BY <1>30, <1>0, SeenSame DEF vars
<1> QED
  BY <1>1, <1>2, <1>3, <1>4, <1>5, <1>6, <1>7, <1>8, <1>9, <1>10, <1>11, <1>12, <1>13,
     <1>14, <1>15, <1>16, <1>17, <1>18, <1>19, <1>20, <1>21, <1>22, <1>23, <1>24, <1>25,
     <1>26, <1>27, <1>28, <1>29, <1>30 DEF Next, Informers, Creation, Cleanup, Change

(* The flag stays a flag.                                                  *)
LEMMA RacedStep ==
    ASSUME raced \in BOOLEAN, [Next]_vars
    PROVE  raced' \in BOOLEAN
<1>1. CASE ListFunctions
  BY <1>1 DEF ListFunctions, Spawn
<1>2. CASE NextFunction
  BY <1>2 DEF NextFunction, Spawn
<1>3. CASE NextEnvironment
  BY <1>3 DEF NextEnvironment, Spawn
<1>4. CASE NextConfig
  BY <1>4 DEF NextConfig, Spawn
<1>5. CASE ThrottlerExpire
  BY <1>5 DEF ThrottlerExpire
<1>6. CASE ReapIdle
  BY <1>6 DEF ReapIdle, Spawn
<1>7. CASE ReplicasAvailable
  BY <1>7 DEF ReplicasAvailable
<1>8. CASE ReplicasFail
  BY <1>8 DEF ReplicasFail
<1>9. CASE EditFunction
  BY <1>9 DEF EditFunction
<1>10. CASE EditOther
  BY <1>10 DEF EditOther
<1>11. CASE Restart
  BY <1>11 DEF Restart
<1>12. ASSUME NEW v \in DOMAIN log, Request(v)  PROVE  raced' \in BOOLEAN
  BY <1>12 DEF Request, Spawn
<1>13. ASSUME NEW i \in DOMAIN go, RunOnce(i)  PROVE  raced' \in BOOLEAN
  BY <1>13 DEF RunOnce
<1>14. ASSUME NEW i \in DOMAIN go, CreateOrGetSvc(i)  PROVE  raced' \in BOOLEAN
  BY <1>14 DEF CreateOrGetSvc
<1>15. ASSUME NEW i \in DOMAIN go, CreateOrGetDeployment(i)  PROVE  raced' \in BOOLEAN
  BY <1>15 DEF CreateOrGetDeployment
<1>16. ASSUME NEW i \in DOMAIN go, WaitForDeploy(i)  PROVE  raced' \in BOOLEAN
  BY <1>16 DEF WaitForDeploy
<1>17. ASSUME NEW i \in DOMAIN go, CreateOrGetHpa(i)  PROVE  raced' \in BOOLEAN
  BY <1>17 DEF CreateOrGetHpa
<1>18. ASSUME NEW i \in DOMAIN go, FnDelete(i)  PROVE  raced' \in BOOLEAN
  BY <1>18 DEF FnDelete
<1>19. ASSUME NEW i \in DOMAIN go, CleanupSvcAndHpa(i)  PROVE  raced' \in BOOLEAN
  BY <1>19 DEF CleanupSvcAndHpa
<1>20. ASSUME NEW i \in DOMAIN go, CleanupDeployment(i)  PROVE  raced' \in BOOLEAN
  BY <1>20 DEF CleanupDeployment
<1>21. ASSUME NEW i \in DOMAIN go, CleanupOldExecutorObjects(i)  PROVE  raced' \in BOOLEAN
  BY <1>21 DEF CleanupOldExecutorObjects
<1>22. ASSUME NEW i \in DOMAIN go, UpdateFunction(i)  PROVE  raced' \in BOOLEAN
  BY <1>22 DEF UpdateFunction
<1>23. ASSUME NEW i \in DOMAIN go, UpdateEnvironment(i)  PROVE  raced' \in BOOLEAN
  BY <1>23 DEF UpdateEnvironment
<1>24. ASSUME NEW i \in DOMAIN go, PutDeployment(i)  PROVE  raced' \in BOOLEAN
  BY <1>24 DEF PutDeployment
<1>25. ASSUME NEW i \in DOMAIN go, RefreshFuncPods(i)  PROVE  raced' \in BOOLEAN
  BY <1>25 DEF RefreshFuncPods
<1>26. ASSUME NEW i \in DOMAIN go, PatchDeployment(i)  PROVE  raced' \in BOOLEAN
  BY <1>26 DEF PatchDeployment
<1>27. ASSUME NEW i \in DOMAIN go, ScaleDown(i)  PROVE  raced' \in BOOLEAN
  BY <1>27 DEF ScaleDown
<1>28. ASSUME NEW i \in DOMAIN go, ThrottlerDelete(i)  PROVE  raced' \in BOOLEAN
  BY <1>28 DEF ThrottlerDelete
<1>29. ASSUME NEW i \in DOMAIN go, ThrottlerTime(i)  PROVE  raced' \in BOOLEAN
  BY <1>29 DEF ThrottlerTime
<1>30. CASE UNCHANGED vars
  BY <1>30 DEF vars
<1> QED
  BY <1>1, <1>2, <1>3, <1>4, <1>5, <1>6, <1>7, <1>8, <1>9, <1>10, <1>11, <1>12, <1>13,
     <1>14, <1>15, <1>16, <1>17, <1>18, <1>19, <1>20, <1>21, <1>22, <1>23, <1>24, <1>25,
     <1>26, <1>27, <1>28, <1>29, <1>30 DEF Next, Informers, Creation, Cleanup, Change

-----------------------------------------------------------------------------
(* The invariant holds initially and after every step.                     *)
THEOREM NewDeployInvariance == Spec => []NewDeployInv
<1>1. Init => NewDeployInv
  <2> SUFFICES ASSUME Init  PROVE NewDeployInv  OBVIOUS
  <2>1. ThrottlerInv  BY ThrottlerInvInit DEF Init
  <2>2. UsersInv
    <3>1. [type |-> "newdeploy", code |-> 1, min |-> 0] \in Function  BY DEF Function
    <3>2. log \in Seq(Function) /\ Len(log) = 1  BY <3>1 DEF Init
    <3> QED  BY <3>2 DEF Init, UsersInv
  <2>3. GoroutinesInv
    <3>1. go = <<>>  BY DEF Init
    <3>2. Len(go) = 0 /\ go \in Seq(Goroutine) /\ DOMAIN go = {}  BY <3>1
    <3> QED  BY <3>2 DEF GoroutinesInv
  <2>4. KubeInv  BY DEF Init, KubeInv
  <2>5. CacheInv
    <3>1. 0 \in 0 .. Len(log)  BY <2>2 DEF UsersInv
    <3> QED  BY <3>1 DEF Init, CacheInv, UidFindsService, FoundByUid
  <2>6. SeenInv  BY <2>2 DEF Init, SeenInv, UsersInv
  <2> QED  BY <2>1, <2>2, <2>3, <2>4, <2>5, <2>6 DEF NewDeployInv, Init
<1>2. NewDeployInv /\ [Next]_vars => NewDeployInv'
  BY ThrottlerStep, UsersStep, GoroutinesStep, KubeStep, CacheStep, SeenStep, RacedStep
  DEF NewDeployInv
<1> QED  BY <1>1, <1>2, PTL DEF Spec

(* The objects, the cache, the goroutines and the throttler stay well      *)
(* typed; in particular no replica is available of a deployment that is    *)
(* gone or scaled to zero, and no WaitGroup counter is ever negative.      *)
THEOREM NewDeployTypeCorrect == Spec => []TypeOK
<1>1. NewDeployInv => TypeOK
  <2> SUFFICES ASSUME NewDeployInv  PROVE TypeOK  OBVIOUS
  <2>1. /\ log \in Seq(Function) /\ Len(log) \in 1 .. MaxEvents + 1
        /\ env \in 0 .. MaxEvents /\ cfg \in 0 .. MaxEvents
        /\ edits \in 0 .. MaxEvents /\ errors \in 0 .. MaxEvents /\ restarts \in Instance
    BY DEF NewDeployInv, UsersInv, Instance
  <2>2. seen \in [fn : 0 .. Len(log), env : 0 .. env, cfg : 0 .. cfg]
    BY DEF NewDeployInv, SeenInv, UsersInv
  <2> QED
    BY <2>1, <2>2 DEF NewDeployInv, TypeOK, KubeInv, CacheInv, GoroutinesInv, ThrottlerInv
<1> QED  BY <1>1, NewDeployInvariance, PTL

(* The UID finds the service whenever the address is in the cache: see     *)
(* UidFindsService.                                                        *)
THEOREM UidSafety == Spec => []UidFindsService
<1>1. NewDeployInv => UidFindsService  BY DEF NewDeployInv, CacheInv
<1> QED  BY <1>1, NewDeployInvariance, PTL

(* A lock of the throttler is released exactly once, and a goroutine that  *)
(* has waited for a creation goes on only after the lock is gone, although *)
(* the throttler starts anew with the executor.                            *)
THEOREM CreationLockSafety ==
    Spec => [](Thr!ReleasedExactlyOnce /\ Thr!LockHasReleaser /\ Thr!FollowerAfterRelease)
<1>1. NewDeployInv =>
        Thr!ReleasedExactlyOnce /\ Thr!LockHasReleaser /\ Thr!FollowerAfterRelease
  BY DEF NewDeployInv, ThrottlerInv
<1> QED  BY <1>1, NewDeployInvariance, PTL
=============================================================================
