--------------------------- MODULE ExecutorProofs ---------------------------
(***************************************************************************)
(* Safety of pkg/executor for any number of requests, functions and pods:  *)
(* first of the executor's API with its cache, then of the pool manager,   *)
(* the executor type that has a map of pools.                              *)
(***************************************************************************)
EXTENDS Executor, PoolManager, TLAPS

USE SentinelAssumption, RestartAssumption

(* Steps of the handler goroutine keep the invariant.                      *)
LEMMA HandlerPreserves ==
    ASSUME NEW r \in Req, IInv, Handler(r)
    PROVE  IInv'
<1> USE DEF IInv, TypeOK, ReqState, Creating, Goto, Answer, cacheVars, podVars
<1>1. TypeOK'
  BY DEF Handler, Lookup, Validate, EvictFunction, EvictAddress, WaitDone
<1>2. CreationRecorded'
  BY DEF Handler, Lookup, Validate, EvictFunction, EvictAddress, WaitDone,
         CreationRecorded
<1>3. WarmUnlabelled'
  BY DEF Handler, Lookup, Validate, EvictFunction, EvictAddress, WaitDone,
         WarmUnlabelled
<1>4. CachedForItsFunction'
  BY DEF Handler, Lookup, Validate, EvictFunction, EvictAddress, WaitDone,
         CachedForItsFunction
<1>5. PodInHand'
  BY DEF Handler, Lookup, Validate, EvictFunction, EvictAddress, WaitDone,
         PodInHand, CachedForItsFunction
<1>6. ReapedIsLabelled'
  BY DEF Handler, Lookup, Validate, EvictFunction, EvictAddress, WaitDone,
         ReapedIsLabelled
<1>7. AnswersOwnFunction'
  BY DEF Handler, Lookup, Validate, EvictFunction, EvictAddress, WaitDone,
         AnswersOwnFunction, PodInHand, CachedForItsFunction
<1>8. EvictedBeforeKilled'
  BY DEF Handler, Lookup, Validate, EvictFunction, EvictAddress, WaitDone,
         EvictedBeforeKilled
<1> QED BY <1>1, <1>2, <1>3, <1>4, <1>5, <1>6, <1>7, <1>8

(* The serve loop starts a creation only when none is recorded.            *)
LEMMA ServePreserves ==
    ASSUME NEW r \in Req, IInv, Serve(r)
    PROVE  IInv'
<1> USE DEF IInv, TypeOK, ReqState, Creating, Goto, Answer, cacheVars, podVars
<1>1. TypeOK'
  BY DEF Serve
<1>2. CreationRecorded'
  BY DEF Serve, CreationRecorded
<1>3. WarmUnlabelled'
  BY DEF Serve, WarmUnlabelled
<1>4. CachedForItsFunction'
  BY DEF Serve, CachedForItsFunction
<1>5. PodInHand'
  BY DEF Serve, PodInHand
<1>6. ReapedIsLabelled'
  BY DEF Serve, ReapedIsLabelled
<1>7. AnswersOwnFunction'
  BY DEF Serve, AnswersOwnFunction
<1>8. EvictedBeforeKilled'
  BY DEF Serve, EvictedBeforeKilled
<1> QED BY <1>1, <1>2, <1>3, <1>4, <1>5, <1>6, <1>7, <1>8

(* A chosen pod was warm, so it was not labelled, cached or being reaped.  *)
LEMMA ChoosePreserves ==
    ASSUME NEW r \in Req, NEW p \in Pod, IInv, ChoosePod(r, p)
    PROVE  IInv'
<1> USE DEF IInv, TypeOK, ReqState, Creating, Goto, Answer, cacheVars, podVars
<1>1. TypeOK'
  BY DEF ChoosePod
<1>2. CreationRecorded'
  BY DEF ChoosePod, CreationRecorded
<1>3. WarmUnlabelled'
  BY DEF ChoosePod, WarmUnlabelled
<1>4. CachedForItsFunction'
  BY DEF ChoosePod, CachedForItsFunction, WarmUnlabelled
<1>5. PodInHand'
  BY DEF ChoosePod, PodInHand, WarmUnlabelled, CachedForItsFunction
<1>6. ReapedIsLabelled'
  BY DEF ChoosePod, ReapedIsLabelled, WarmUnlabelled
<1>7. AnswersOwnFunction'
  BY DEF ChoosePod, AnswersOwnFunction, WarmUnlabelled
<1>8. EvictedBeforeKilled'
  BY DEF ChoosePod, EvictedBeforeKilled
<1> QED BY <1>1, <1>2, <1>3, <1>4, <1>5, <1>6, <1>7, <1>8

(* Specialization ends in a live pod or in an error.                       *)
LEMMA SpecializePreserves ==
    ASSUME NEW r \in Req, IInv,
           ChooseFails(r) \/ SpecializePod(r) \/ SpecializeFails(r)
    PROVE  IInv'
<1> USE DEF IInv, TypeOK, ReqState, Creating, Goto, Answer, cacheVars, podVars
<1>1. TypeOK'
  <2>1. CASE ChooseFails(r)
    BY <2>1 DEF ChooseFails
  <2>2. CASE SpecializePod(r)
    BY <2>2 DEF SpecializePod, PodInHand
  <2>3. CASE SpecializeFails(r)
    BY <2>3 DEF SpecializeFails, PodInHand
  <2> QED BY <2>1, <2>2, <2>3
<1>2. CreationRecorded'
  BY DEF ChooseFails, SpecializePod, SpecializeFails,
         CreationRecorded
<1>3. WarmUnlabelled'
  BY DEF ChooseFails, SpecializePod, SpecializeFails, WarmUnlabelled,
         PodInHand
<1>4. CachedForItsFunction'
  BY DEF ChooseFails, SpecializePod, SpecializeFails,
         CachedForItsFunction
<1>5. PodInHand'
  BY DEF ChooseFails, SpecializePod, SpecializeFails, PodInHand
<1>6. ReapedIsLabelled'
  BY DEF ChooseFails, SpecializePod, SpecializeFails,
         ReapedIsLabelled
<1>7. AnswersOwnFunction'
  BY DEF ChooseFails, SpecializePod, SpecializeFails,
         AnswersOwnFunction
<1>8. EvictedBeforeKilled'
  BY DEF ChooseFails, SpecializePod, SpecializeFails,
         EvictedBeforeKilled
<1> QED BY <1>1, <1>2, <1>3, <1>4, <1>5, <1>6, <1>7, <1>8

(* Add puts a pod in the cache that no reaper has seen: only one request   *)
(* has it in hand, since only one creates for its function.                *)
LEMMA AddPreserves ==
    ASSUME NEW r \in Req, IInv,
           AddFunction(r) \/ AddAddress(r) \/ AddTouches(r)
    PROVE  IInv'
<1> USE DEF IInv, TypeOK, ReqState, Creating, Goto, Answer, cacheVars, podVars
<1>1. TypeOK'
  BY DEF AddFunction, AddAddress, AddTouches
<1>2. CreationRecorded'
  BY DEF AddFunction, AddAddress, AddTouches, CreationRecorded
<1>3. WarmUnlabelled'
  BY DEF AddFunction, AddAddress, AddTouches, WarmUnlabelled
<1>4. CachedForItsFunction'
  BY DEF AddFunction, AddAddress, AddTouches, CachedForItsFunction,
         PodInHand
<1>5. PodInHand'
  BY DEF AddFunction, AddAddress, AddTouches, PodInHand,
         CreationRecorded
<1>6. ReapedIsLabelled'
  BY DEF AddFunction, AddAddress, AddTouches, ReapedIsLabelled
<1>7. AnswersOwnFunction'
  BY DEF AddFunction, AddAddress, AddTouches, AnswersOwnFunction,
         PodInHand
<1>8. EvictedBeforeKilled'
  BY DEF AddFunction, AddAddress, AddTouches, EvictedBeforeKilled,
         PodInHand
<1> QED BY <1>1, <1>2, <1>3, <1>4, <1>5, <1>6, <1>7, <1>8

(* The end of a creation forgets it.                                       *)
LEMMA FinishPreserves ==
    ASSUME NEW r \in Req, IInv, DeleteWg(r) \/ Signal(r)
    PROVE  IInv'
<1> USE DEF IInv, TypeOK, ReqState, Creating, Goto, Answer, cacheVars, podVars
<1>1. TypeOK'
  BY DEF DeleteWg, Signal
<1>2. CreationRecorded'
  BY DEF DeleteWg, Signal, CreationRecorded
<1>3. WarmUnlabelled'
  BY DEF DeleteWg, Signal, WarmUnlabelled
<1>4. CachedForItsFunction'
  BY DEF DeleteWg, Signal, CachedForItsFunction
<1>5. PodInHand'
  BY DEF DeleteWg, Signal, PodInHand
<1>6. ReapedIsLabelled'
  BY DEF DeleteWg, Signal, ReapedIsLabelled
<1>7. AnswersOwnFunction'
  BY DEF DeleteWg, Signal, AnswersOwnFunction
<1>8. EvictedBeforeKilled'
  BY DEF DeleteWg, Signal, EvictedBeforeKilled
<1> QED BY <1>1, <1>2, <1>3, <1>4, <1>5, <1>6, <1>7, <1>8

(* The reaper evicts the service it is about to kill.                      *)
LEMMA ReaperPreserves ==
    ASSUME NEW p \in Pod, IInv, Reaper(p)
    PROVE  IInv'
<1> USE DEF IInv, TypeOK, ReqState, Creating, ReapGoto, reqVars, cacheVars, podVars
<1>1. TypeOK'
  BY DEF Reaper, ReapList, ReapCheck, ReapEvictFunction,
         ReapEvictAddress, ReapKill
<1>2. CreationRecorded'
  BY DEF Reaper, ReapList, ReapCheck, ReapEvictFunction,
         ReapEvictAddress, ReapKill, CreationRecorded, reqVars
<1>3. WarmUnlabelled'
  BY DEF Reaper, ReapList, ReapCheck, ReapEvictFunction,
         ReapEvictAddress, ReapKill, WarmUnlabelled,
         CachedForItsFunction, ReapedIsLabelled
<1>4. CachedForItsFunction'
  BY DEF Reaper, ReapList, ReapCheck, ReapEvictFunction,
         ReapEvictAddress, ReapKill, CachedForItsFunction
<1>5. PodInHand'
  BY DEF Reaper, ReapList, ReapCheck, ReapEvictFunction,
         ReapEvictAddress, ReapKill, PodInHand, CachedForItsFunction,
         CreationRecorded
<1>6. ReapedIsLabelled'
  BY DEF Reaper, ReapList, ReapCheck, ReapEvictFunction,
         ReapEvictAddress, ReapKill, ReapedIsLabelled,
         CachedForItsFunction, WarmUnlabelled
<1>7. AnswersOwnFunction'
  BY DEF Reaper, ReapList, ReapCheck, ReapEvictFunction,
         ReapEvictAddress, ReapKill, AnswersOwnFunction
<1>8. EvictedBeforeKilled'
  BY DEF Reaper, ReapList, ReapCheck, ReapEvictFunction,
         ReapEvictAddress, ReapKill, EvictedBeforeKilled,
         CachedForItsFunction, ReapedIsLabelled
<1> QED BY <1>1, <1>2, <1>3, <1>4, <1>5, <1>6, <1>7, <1>8

(* Taps, the clock and failing pods.                                       *)
LEMMA EnvironmentPreserves ==
    ASSUME NEW p \in Pod, IInv, TapService(p) \/ BecomeIdle(p) \/ PodDies(p)
    PROVE  IInv'
<1> USE DEF IInv, TypeOK, ReqState, Creating, reqVars, cacheVars, podVars
<1>1. TypeOK'
  BY DEF TapService, BecomeIdle, PodDies
<1>2. CreationRecorded'
  BY DEF TapService, BecomeIdle, PodDies, CreationRecorded
<1>3. WarmUnlabelled'
  BY DEF TapService, BecomeIdle, PodDies, WarmUnlabelled
<1>4. CachedForItsFunction'
  BY DEF TapService, BecomeIdle, PodDies, CachedForItsFunction
<1>5. PodInHand'
  BY DEF TapService, BecomeIdle, PodDies, PodInHand
<1>6. ReapedIsLabelled'
  BY DEF TapService, BecomeIdle, PodDies, ReapedIsLabelled
<1>7. AnswersOwnFunction'
  BY DEF TapService, BecomeIdle, PodDies, AnswersOwnFunction
<1>8. EvictedBeforeKilled'
  BY DEF TapService, BecomeIdle, PodDies, EvictedBeforeKilled
<1> QED BY <1>1, <1>2, <1>3, <1>4, <1>5, <1>6, <1>7, <1>8

(* A restart leaves no creation, no reaper and no request in flight, and   *)
(* adoption caches a pod for the function in its labels.                   *)
LEMMA RestartPreserves ==
    ASSUME IInv, RestartAndCleanUp \/ RestartAndAdopt
    PROVE  IInv'
<1> USE DEF IInv, TypeOK, ReqState, Creating, cacheVars
<1>1. TypeOK'
  BY DEF RestartAndCleanUp, RestartAndAdopt, LoseMemory
<1>2. CreationRecorded'
  BY DEF RestartAndCleanUp, RestartAndAdopt, LoseMemory,
         CreationRecorded
<1>3. WarmUnlabelled'
  BY DEF RestartAndCleanUp, RestartAndAdopt, LoseMemory,
         WarmUnlabelled
<1>4. CachedForItsFunction'
  BY DEF RestartAndCleanUp, RestartAndAdopt, LoseMemory,
         CachedForItsFunction
<1>5. PodInHand'
  BY DEF RestartAndCleanUp, RestartAndAdopt, LoseMemory, PodInHand
<1>6. ReapedIsLabelled'
  BY DEF RestartAndCleanUp, RestartAndAdopt, LoseMemory,
         ReapedIsLabelled
<1>7. AnswersOwnFunction'
  BY DEF RestartAndCleanUp, RestartAndAdopt, LoseMemory,
         AnswersOwnFunction
<1>8. EvictedBeforeKilled'
  BY DEF RestartAndCleanUp, RestartAndAdopt, LoseMemory,
         EvictedBeforeKilled
<1> QED BY <1>1, <1>2, <1>3, <1>4, <1>5, <1>6, <1>7, <1>8

-----------------------------------------------------------------------------
(* The inductive invariant holds of every behaviour.                       *)
THEOREM InductiveInvariant == Spec => []IInv
<1>1. Init => IInv
  BY DEF Init, IInv, TypeOK, ReqState, Creating, CreationRecorded,
         WarmUnlabelled, CachedForItsFunction, PodInHand, ReapedIsLabelled,
         AnswersOwnFunction, EvictedBeforeKilled
<1>2. IInv /\ [Next]_vars => IInv'
  <2> SUFFICES ASSUME IInv, [Next]_vars
               PROVE  IInv'
    OBVIOUS
  <2>1. ASSUME NEW r \in Req, Handler(r) \/ Serve(r)
        PROVE  IInv'
    BY <2>1, HandlerPreserves, ServePreserves
  <2>2. ASSUME NEW r \in Req, Creator(r)
        PROVE  IInv'
    BY <2>2, ChoosePreserves, SpecializePreserves, AddPreserves,
       FinishPreserves DEF Creator
  <2>3. ASSUME NEW p \in Pod,
               Reaper(p) \/ TapService(p) \/ BecomeIdle(p) \/ PodDies(p)
        PROVE  IInv'
    BY <2>3, ReaperPreserves, EnvironmentPreserves
  <2>4. CASE RestartAndCleanUp \/ RestartAndAdopt
    BY <2>4, RestartPreserves
  <2>5. CASE UNCHANGED vars
    BY <2>5 DEF vars, reqVars, cacheVars, podVars, IInv, TypeOK,
         CreationRecorded, WarmUnlabelled, CachedForItsFunction, PodInHand,
         ReapedIsLabelled, AnswersOwnFunction, EvictedBeforeKilled
  <2> QED BY <2>1, <2>2, <2>3, <2>4, <2>5 DEF Next
<1> QED BY <1>1, <1>2, PTL DEF Spec

(* The variables of the executor keep their types.                         *)
THEOREM TypeCorrect == Spec => []TypeOK
BY InductiveInvariant, PTL DEF IInv

(* At most one creation per function is in progress, and it is recorded.   *)
THEOREM CreationSafety == Spec => []CreationRecorded
BY InductiveInvariant, PTL DEF IInv

(* No request is answered with a pod of another function.                  *)
THEOREM AnswerSafety == Spec => []AnswersOwnFunction
BY InductiveInvariant, PTL DEF IInv

(* The reaper never deletes a pod that is still in the cache.              *)
THEOREM ReaperSafety == Spec => []EvictedBeforeKilled
BY InductiveInvariant, PTL DEF IInv
-----------------------------------------------------------------------------
(* A step that moves no request into or out of a creation is a stutter.    *)
LEMMA RunningUnchanged ==
    ASSUME fn' = fn,
           \A q \in Req : pc'[q] \in Creating <=> pc[q] \in Creating
    PROVE  Running' = Running
BY DEF Running

(* A recorded creation is the only one of its function.                    *)
LEMMA RunningIsRecorded ==
    ASSUME IInv, NEW f \in Fn
    PROVE  /\ fsCreateWg[f] = None => Running[f] = {}
           /\ \A r \in Req : pc[r] \in Creating /\ fn[r] = f => Running[f] = {r}
BY DEF IInv, TypeOK, CreationRecorded, Running

(* A request whose creation ends empties the flight of its function.       *)
LEMMA CreationEnds ==
    ASSUME IInv, NEW r \in Req, pc[r] \in Creating, fn' = fn,
           Goto(r, "delete")
    PROVE  Flight!Next
<1> DEFINE f == fn[r]
<1>1. f \in Fn /\ Running[f] = {r}
  BY RunningIsRecorded DEF IInv, TypeOK
<1>2. Running' = [Running EXCEPT ![f] = {}]
  <2>1. \A q \in Req : pc'[q] \in Creating <=> q # r /\ pc[q] \in Creating
    BY DEF Goto, IInv, TypeOK, Creating
  <2>2. \A g \in Fn : {q \in Req : fn'[q] = g /\ pc'[q] \in Creating}
                       = IF g = f THEN {} ELSE Running[g]
    <3>1. \A q \in Req : fn[q] = f /\ pc[q] \in Creating => q = r
      BY <1>1 DEF Running
    <3> QED BY <1>1, <2>1, <3>1 DEF Running
  <2> QED BY <1>1, <2>2 DEF Running
<1>3. Flight!End(f)
  BY <1>1, <1>2 DEF Flight!End
<1> QED BY <1>1, <1>3 DEF Flight!Next

(* The serve loop starts a creation only for a function that has none.     *)
LEMMA ServeStarts ==
    ASSUME IInv, NEW r \in Req, Serve(r)
    PROVE  Flight!Next \/ Running' = Running
<1> DEFINE f == fn[r]
<1> USE DEF IInv, TypeOK, Serve, Goto, Creating
<1>1. CASE fsCreateWg[f] = None
  <2>1. f \in Fn /\ Running[f] = {}
    BY <1>1, RunningIsRecorded
  <2>2. Running' = [Running EXCEPT ![f] = {r}]
    <3>1. \A q \in Req : pc'[q] \in Creating <=> q = r \/ pc[q] \in Creating
      BY <1>1
    <3>2. \A g \in Fn : {q \in Req : fn'[q] = g /\ pc'[q] \in Creating}
                         = IF g = f THEN {r} ELSE Running[g]
      BY <2>1, <3>1 DEF Running
    <3> QED BY <2>1, <3>2 DEF Running
  <2>3. Flight!Begin(f, r)
    BY <2>1, <2>2 DEF Flight!Begin
  <2> QED BY <2>1, <2>3 DEF Flight!Next
<1>2. CASE fsCreateWg[f] # None
  BY <1>2, RunningUnchanged
<1> QED BY <1>1, <1>2

(* The executor implements the single flight of creations.                 *)
THEOREM Refinement == Spec => FlightSpec
<1>1. Init => Flight!Init
  BY DEF Init, Flight!Init, Running, Creating
<1>2. IInv /\ [Next]_vars => [Flight!Next]_Running
  <2> SUFFICES ASSUME IInv, [Next]_vars
               PROVE  Flight!Next \/ Running' = Running
    OBVIOUS
  <2> USE DEF IInv, TypeOK, Creating, Goto
  <2>1. ASSUME NEW r \in Req, Handler(r)
        PROVE  Running' = Running
    BY <2>1, RunningUnchanged
       DEF Handler, Lookup, Validate, EvictFunction, EvictAddress, WaitDone
  <2>2. ASSUME NEW r \in Req, Serve(r)
        PROVE  Flight!Next \/ Running' = Running
    BY <2>2, ServeStarts
  <2>3. ASSUME NEW r \in Req, Creator(r)
        PROVE  Flight!Next \/ Running' = Running
    <3>1. CASE \/ ChooseFails(r) \/ SpecializeFails(r)
               \/ AddAddress(r) \/ AddTouches(r)
      BY <3>1, CreationEnds DEF ChooseFails, SpecializeFails, AddAddress, AddTouches
    <3>2. CASE \/ \E p \in Pod : ChoosePod(r, p)
               \/ SpecializePod(r) \/ AddFunction(r) \/ DeleteWg(r) \/ Signal(r)
      BY <3>2, RunningUnchanged
         DEF ChoosePod, SpecializePod, AddFunction, DeleteWg, Signal
    <3> QED BY <2>3, <3>1, <3>2 DEF Creator
  <2>4. ASSUME NEW p \in Pod,
               Reaper(p) \/ TapService(p) \/ BecomeIdle(p) \/ PodDies(p)
        PROVE  Running' = Running
    BY <2>4 DEF Reaper, ReapList, ReapCheck, ReapEvictFunction, ReapEvictAddress,
       ReapKill, TapService, BecomeIdle, PodDies, reqVars, Running
  <2>5. CASE RestartAndCleanUp \/ RestartAndAdopt
    <3>1. Flight!Abandon
      BY <2>5 DEF RestartAndCleanUp, RestartAndAdopt, LoseMemory, Flight!Abandon,
         Running
    <3> QED BY <3>1 DEF Flight!Next
  <2>6. CASE UNCHANGED vars
    BY <2>6 DEF vars, reqVars, Running
  <2> QED BY <2>1, <2>2, <2>3, <2>4, <2>5, <2>6 DEF Next
<1> QED BY <1>1, <1>2, InductiveInvariant, PTL DEF Spec, FlightSpec, Flight!Spec

-----------------------------------------------------------------------------
(* The pool manager.                                                       *)

(* The pool in the map for a version is that version's, runs, and has not  *)
(* been told to end.                                                       *)
MappedPoolsLive ==
    \A v \in Version : pools[v] # Nil =>
        /\ pool[pools[v]].version = v
        /\ pool[pools[v]].svc # "exited"
        /\ pool[pools[v]].destroy = "no"

(* A goroutine that chooses a pod does it for a function; one that patches *)
(* a pod has chosen it; a creator with a request to make has its list.     *)
InHand ==
    /\ \A p \in Pool :
         /\ pool[p].svc \in {"list", "relabel"} => pool[p].serving # Nil
         /\ pool[p].svc = "relabel" => pool[p].chosen # Nil
    /\ eager.pool \/ eager.cleanup => eager.list # Nil

(* Until the environment is updated nobody knows another version of it,    *)
(* so that every pool at work is the one in the map.                       *)
OneVersion ==
    env = 0 =>
        /\ \A c \in Caller : functionEnv[c] \in {0, Nil} /\ call[c].version \in {0, Nil}
        /\ eager.list \in {0, Nil}
        /\ \A v \in Version \ {0} : pools[v] = Nil
        /\ \A p \in Pool : pool[p].svc # "exited" => pools[0] = p

(* ...and the pod it is about to take is not taken yet.                    *)
ChosenIsFree ==
    env = 0 =>
        \A p \in Pool : pool[p].svc = "relabel" => ~Relabelled(pool[p].chosen)

PoolsInv == PoolsTypeOK /\ MappedPoolsLive /\ InHand /\ OneVersion /\ ChosenIsFree

USE BoundAssumption, NilAssumption

CallsOK ==
    /\ call \in [Caller -> CallState]
    /\ \A c \in Caller :
         /\ call[c].pc = "pool" => call[c].version # Nil
         /\ call[c].pc \in {"choose", "wait"} => call[c].pool # Nil
         /\ call[c].pc = "specialize" => call[c].pod # Nil

(* A call that ends, or gets a pool or a pod.                              *)
LEMMA CallChanges ==
    ASSUME CallsOK, NEW c, NEW s \in CallState,
           s.pc = "pool" => s.version # Nil,
           s.pc \in {"choose", "wait"} => s.pool # Nil,
           s.pc = "specialize" => s.pod # Nil,
           call' = [call EXCEPT ![c] = s]
    PROVE  CallsOK'
BY DEF CallsOK

LEMMA CallEndsWell ==
    ASSUME CallsOK, NEW c, CallEnds(c)
    PROVE  CallsOK'
<1>1. NoCall \in CallState /\ NoCall.pc = "idle"
  BY DEF NoCall, CallState
<1> QED BY <1>1, CallChanges DEF CallEnds

(* An error is counted.                                                    *)
LEMMA ErrorCounted ==
    ASSUME errors \in 0 .. MaxErrors, Error
    PROVE  errors' \in 0 .. MaxErrors
BY DEF Error

(* The pool that GET_POOL answers is an object, in the map for its version,*)
(* and no other pool is touched.                                           *)
LEMMA PoolGot ==
    ASSUME PoolsInv, NEW v \in Version, GetPool(v)
    PROVE  /\ PoolOf(v) \in Pool
           /\ pools' \in [Version -> Pool \cup {Nil}]
           /\ pool' \in [Pool -> PoolState]
           /\ deployments' \subseteq Version
           /\ pools'[v] = PoolOf(v)
           /\ \A w \in Version \ {v} : pools'[w] = pools[w]
           /\ \A p \in Pool \ {PoolOf(v)} : pool'[p] = pool[p]
           /\ pools[v] = Nil =>
                /\ Unused(PoolOf(v))
                /\ pool'[PoolOf(v)] = [version |-> v, svc |-> "idle", serving |-> Nil,
                                       chosen |-> Nil, destroy |-> "no"]
           /\ pools[v] # Nil => pool' = pool
<1>1. CASE pools[v] # Nil
  BY <1>1 DEF PoolOf, GetPool, PoolsInv, PoolsTypeOK
<1>2. CASE pools[v] = Nil
  <2> DEFINE g == [version |-> v, svc |-> "idle", serving |-> Nil, chosen |-> Nil,
                   destroy |-> "no"]
             p == PoolOf(v)
  <2>1. p \in Pool /\ Unused(p)
    BY <1>2 DEF PoolOf, GetPool
  <2>2. g \in PoolState
    BY DEF PoolState
  <2>3. pool' = [pool EXCEPT ![p] = g] /\ pools' = [pools EXCEPT ![v] = p]
    BY <1>2 DEF GetPool
  <2>4. pool \in [Pool -> PoolState] /\ pools \in [Version -> Pool \cup {Nil}]
        /\ deployments \subseteq Version
    BY DEF PoolsInv, PoolsTypeOK
  <2>5. deployments' \subseteq Version
    BY <1>2, <2>4 DEF GetPool
  <2> HIDE DEF g, p
  <2>6. pool' \in [Pool -> PoolState] /\ pools' \in [Version -> Pool \cup {Nil}]
    BY <2>1, <2>2, <2>3, <2>4
  <2>7. pool'[p] = g /\ pools'[v] = p
    BY <2>1, <2>3, <2>4
  <2>8. /\ \A w \in Version \ {v} : pools'[w] = pools[w]
        /\ \A x \in Pool \ {p} : pool'[x] = pool[x]
    BY <2>3, <2>4
  <2> QED BY <1>2, <2>1, <2>5, <2>6, <2>7, <2>8 DEF p, g
<1> QED BY <1>1, <1>2

LEMMA NewPool ==
    ASSUME PoolsInv, NEW v \in Version, GetPool(v), pools[v] = Nil
    PROVE  /\ Unused(PoolOf(v)) /\ pools'[v] = PoolOf(v)
           /\ pool'[PoolOf(v)].version = v /\ pool'[PoolOf(v)].svc = "idle"
           /\ pool'[PoolOf(v)].destroy = "no"
<1> DEFINE P == PoolOf(v)
<1>1. Unused(P) /\ pools'[v] = P /\ pool'[P] = [version |-> v, svc |-> "idle",
         serving |-> Nil, chosen |-> Nil, destroy |-> "no"]
  BY PoolGot
<1> HIDE DEF P
<1>2. pool'[P].version = v /\ pool'[P].svc = "idle" /\ pool'[P].destroy = "no"
  BY <1>1
<1> QED BY <1>1, <1>2 DEF P

LEMMA MapKept ==
    ASSUME PoolsInv, NEW v \in Version, GetPool(v)
    PROVE  MappedPoolsLive'
<1> DEFINE P == PoolOf(v)
<1>1. CASE pools[v] # Nil
  BY <1>1, PoolGot DEF GetPool, PoolsInv, MappedPoolsLive
<1>2. CASE pools[v] = Nil
  <2> SUFFICES ASSUME NEW w \in Version, pools'[w] # Nil
               PROVE  /\ pool'[pools'[w]].version = w
                      /\ pool'[pools'[w]].svc # "exited"
                      /\ pool'[pools'[w]].destroy = "no"
    BY DEF MappedPoolsLive
  <2>1. CASE w = v
    <3>1. pools'[w] = P /\ pool'[P].version = v /\ pool'[P].svc = "idle"
          /\ pool'[P].destroy = "no"
      BY <1>2, <2>1, NewPool
    <3> QED BY <2>1, <3>1
  <2>2. CASE w # v
    <3>1. pools'[w] = pools[w]
      BY <2>2, PoolGot
    <3>a. pools[w] \in Pool
      BY <3>1 DEF PoolsInv, PoolsTypeOK
    <3>2. pools[w] # P
      BY <1>2, <3>1, NewPool DEF PoolsInv, MappedPoolsLive, Unused
    <3>3. pool'[pools[w]] = pool[pools[w]]
      BY <3>a, <3>2, PoolGot
    <3> QED BY <3>1, <3>3 DEF PoolsInv, MappedPoolsLive
  <2> QED BY <2>1, <2>2
<1> QED BY <1>1, <1>2

(* As long as the environment is not updated the pool in the map is the    *)
(* only one at work.                                                       *)
LEMMA OnePoolKept ==
    ASSUME PoolsInv, NEW v \in Version, GetPool(v), env = 0, v = 0
    PROVE  /\ \A w \in Version \ {0} : pools'[w] = Nil
           /\ \A p \in Pool : pool'[p].svc # "exited" => pools'[0] = p
<1>1. \A w \in Version \ {0} : pools'[w] = Nil
  BY PoolGot DEF PoolsInv, OneVersion
<1>2. CASE pools[v] # Nil
  BY <1>1, <1>2 DEF GetPool, PoolsInv, OneVersion
<1>3. CASE pools[v] = Nil
  <2>1. \A p \in Pool : pool[p].svc = "exited"
    BY <1>3 DEF PoolsInv, OneVersion
  <2> QED BY <1>1, <2>1, PoolGot
<1> QED BY <1>2, <1>3

(* A goroutine that chooses a pod goes on as before.                       *)
LEMMA ChoosersKept ==
    ASSUME PoolsInv, NEW v \in Version, GetPool(v), NEW p \in Pool,
           pool'[p].svc \in {"list", "relabel"}
    PROVE  pool'[p] = pool[p]
<1>1. CASE p = PoolOf(v) /\ pools[v] = Nil
  BY <1>1, NewPool
<1>2. CASE ~(p = PoolOf(v) /\ pools[v] = Nil)
  BY <1>2, PoolGot
<1> QED BY <1>1, <1>2

(* The goroutine of a pool has answered: it has nothing in hand any more.  *)
LEMMA ServedPool ==
    ASSUME PoolsInv, NEW p \in Pool
    PROVE  /\ Served(p) \in [Pool -> PoolState]
           /\ \A x \in Pool \ {p} : Served(p)[x] = pool[x]
           /\ Served(p)[p].version = pool[p].version
           /\ Served(p)[p].destroy = pool[p].destroy
           /\ Served(p)[p].svc = "idle"
<1> DEFINE g == [pool[p] EXCEPT !.svc = "idle", !.serving = Nil, !.chosen = Nil]
<1>1. pool \in [Pool -> PoolState]
  BY DEF PoolsInv, PoolsTypeOK
<1>2. g \in PoolState /\ g.version = pool[p].version /\ g.destroy = pool[p].destroy
      /\ g.svc = "idle"
  BY <1>1 DEF PoolState
<1>3. Served(p) = [pool EXCEPT ![p] = g]
  BY DEF Served
<1> HIDE DEF g
<1> QED BY <1>1, <1>2, <1>3

LEMMA ServedKeeps ==
    ASSUME PoolsInv, NEW p \in Pool, pool[p].svc # "exited", pool' = Served(p),
           UNCHANGED <<env, pools, pods, eager>>
    PROVE  /\ MappedPoolsLive' /\ InHand' /\ ChosenIsFree'
           /\ env = 0 => \A x \in Pool : pool'[x].svc # "exited" => pools[0] = x
<1>1. MappedPoolsLive'
  BY ServedPool DEF PoolsInv, PoolsTypeOK, MappedPoolsLive
<1>2. InHand'
  BY ServedPool DEF PoolsInv, InHand
<1>3. ChosenIsFree'
  BY ServedPool DEF PoolsInv, ChosenIsFree, Relabelled, Exists
<1>4. env = 0 => \A x \in Pool : pool'[x].svc # "exited" => pools[0] = x
  BY ServedPool DEF PoolsInv, OneVersion
<1> QED BY <1>1, <1>2, <1>3, <1>4

LEMMA EagerGoesOn ==
    ASSUME NEW f \in EagerState, f.list # Nil
    PROVE  /\ EagerAfter(f) \in EagerState
           /\ EagerAfter(f).list \in {f.list, Nil}
           /\ EagerAfter(f).pool \/ EagerAfter(f).cleanup => EagerAfter(f).list # Nil
<1>1. CASE f.pool \/ f.cleanup
  BY <1>1 DEF EagerAfter
<1>2. CASE ~(f.pool \/ f.cleanup)
  <2> DEFINE h == [f EXCEPT !.list = Nil]
  <2>1. h \in EagerState /\ h.list = Nil
    BY DEF EagerState
  <2>2. h.pool = f.pool /\ h.cleanup = f.cleanup
    BY DEF EagerState
  <2>3. EagerAfter(f) = h
    BY <1>2 DEF EagerAfter
  <2> HIDE DEF h
  <2> QED BY <1>2, <2>1, <2>2, <2>3
<1> QED BY <1>1, <1>2

(* The steps of a call of GetFuncSvc.                                      *)
LEMMA GetFunctionEnvStep ==
    ASSUME PoolsInv, NEW c \in Caller, GetFunctionEnv(c)
    PROVE  PoolsInv'
<1>1. PoolsTypeOK'
  <2> DEFINE v == IF functionEnv[c] # Nil THEN functionEnv[c] ELSE env
             s == [call[c] EXCEPT !.pc = "pool", !.version = v]
  <2>1. v \in Version /\ v # Nil /\ CallsOK
    BY DEF PoolsInv, PoolsTypeOK, CallsOK, Version
  <2>2. calls' \in 0 .. MaxCalls
    BY DEF GetFunctionEnv, PoolsInv, PoolsTypeOK
  <2>3. CASE /\ functionEnv' = [functionEnv EXCEPT ![c] = v]
             /\ call' = [call EXCEPT ![c].pc = "pool", ![c].version = v]
             /\ UNCHANGED errors
    <3>1. s \in CallState /\ s.pc = "pool" /\ s.version = v
      BY <2>1 DEF CallsOK, CallState
    <3>2. call' = [call EXCEPT ![c] = s]
      BY <2>3
    <3>3. functionEnv' \in [Caller -> Version \cup {Nil}]
      BY <2>1, <2>3 DEF PoolsInv, PoolsTypeOK
    <3> HIDE DEF v, s
    <3>4. CallsOK'
      BY <2>1, <3>1, <3>2, CallChanges
    <3> QED BY <2>2, <2>3, <3>3, <3>4
            DEF GetFunctionEnv, PoolsInv, PoolsTypeOK, CallsOK, kubeVars
  <2>4. CASE Error /\ CallEnds(c) /\ UNCHANGED functionEnv
    BY <2>1, <2>2, <2>4, CallEndsWell, ErrorCounted
       DEF GetFunctionEnv, PoolsInv, PoolsTypeOK, CallsOK, kubeVars
  <2> QED BY <2>3, <2>4 DEF GetFunctionEnv
<1>2. MappedPoolsLive'
  BY DEF PoolsInv, MappedPoolsLive, GetFunctionEnv, Error, CallEnds, NoCall, kubeVars
<1>3. InHand'
  BY DEF PoolsInv, InHand, GetFunctionEnv, Error, CallEnds, NoCall, kubeVars
<1>4. OneVersion'
  <2> SUFFICES ASSUME env = 0
               PROVE  \A x \in Caller : /\ functionEnv'[x] \in {0, Nil}
                                        /\ call'[x].version \in {0, Nil}
    BY DEF GetFunctionEnv, OneVersion, PoolsInv, kubeVars
  <2>1. \A x \in Caller : functionEnv[x] \in {0, Nil} /\ call[x].version \in {0, Nil}
    BY DEF PoolsInv, OneVersion
  <2>2. call \in [Caller -> CallState] /\ functionEnv \in [Caller -> Version \cup {Nil}]
    BY DEF PoolsInv, PoolsTypeOK
  <2>3. CASE CallEnds(c) /\ UNCHANGED functionEnv
    BY <2>1, <2>2, <2>3 DEF CallEnds, NoCall
  <2>4. ASSUME NEW v, v = IF functionEnv[c] # Nil THEN functionEnv[c] ELSE env,
               functionEnv' = [functionEnv EXCEPT ![c] = v],
               call' = [call EXCEPT ![c].pc = "pool", ![c].version = v]
        PROVE  \A x \in Caller : /\ functionEnv'[x] \in {0, Nil}
                                 /\ call'[x].version \in {0, Nil}
    <3>1. v \in {0, Nil}
      BY <2>1, <2>4
    <3>2. call'[c].version = v
      BY <2>2, <2>4 DEF CallState
    <3>3. \A x \in Caller \ {c} : call'[x] = call[x] /\ functionEnv'[x] = functionEnv[x]
      BY <2>2, <2>4
    <3>4. functionEnv'[c] = v
      BY <2>2, <2>4
    <3> QED BY <2>1, <3>1, <3>2, <3>3, <3>4
  <2> QED BY <2>3, <2>4 DEF GetFunctionEnv
<1>5. ChosenIsFree'
  BY DEF PoolsInv, ChosenIsFree, Relabelled, Exists, GetFunctionEnv, Error, CallEnds,
         NoCall, kubeVars
<1> QED BY <1>1, <1>2, <1>3, <1>4, <1>5 DEF PoolsInv

LEMMA FunctionEnvExpiresStep ==
    ASSUME PoolsInv, NEW c \in Caller, FunctionEnvExpires(c)
    PROVE  PoolsInv'
<1>1. PoolsTypeOK'
  BY DEF PoolsInv, PoolsTypeOK, PoolState, PodState, CallState, EagerState, Version,
         FunctionEnvExpires, kubeVars
<1>2. MappedPoolsLive'
  BY DEF PoolsInv, MappedPoolsLive, FunctionEnvExpires, kubeVars
<1>3. InHand'
  BY DEF PoolsInv, InHand, FunctionEnvExpires, kubeVars
<1>4. OneVersion'
  BY DEF PoolsInv, OneVersion, FunctionEnvExpires, kubeVars
<1>5. ChosenIsFree'
  BY DEF PoolsInv, ChosenIsFree, Relabelled, Exists, FunctionEnvExpires, kubeVars
<1> QED BY <1>1, <1>2, <1>3, <1>4, <1>5 DEF PoolsInv

LEMMA CallGetsPoolStep ==
    ASSUME PoolsInv, NEW c \in Caller, CallGetsPool(c)
    PROVE  PoolsInv'
<1> DEFINE v == call[c].version
           s == [NoCall EXCEPT !.pc = "choose", !.pool = PoolOf(v)]
<1>1. v \in Version /\ (env = 0 => v = 0) /\ CallsOK
  BY DEF PoolsInv, PoolsTypeOK, CallsOK, CallState, OneVersion, CallGetsPool
<1>2. CASE /\ GetPool(v)
           /\ call' = [call EXCEPT ![c] = s]
           /\ UNCHANGED errors
  <2>1. PoolOf(v) \in Pool
    BY <1>1, <1>2, PoolGot
  <2>2. s \in CallState /\ s.pc = "choose" /\ s.pool # Nil /\ s.version = Nil
    BY <2>1 DEF NoCall, CallState
  <2> HIDE DEF v, s
  <2>3. CallsOK'
    BY <1>1, <1>2, <2>2, CallChanges
  <2>4. PoolsTypeOK'
    BY <1>1, <1>2, <2>3, PoolGot DEF CallGetsPool, PoolsInv, PoolsTypeOK, CallsOK
  <2>5. MappedPoolsLive'
    BY <1>1, <1>2, MapKept
  <2>6. InHand'
    BY <1>1, <1>2, ChoosersKept DEF CallGetsPool, PoolsInv, InHand
  <2>7. \A x \in Caller : call'[x].version \in {call[x].version, Nil}
    BY <1>1, <1>2, <2>2 DEF CallsOK
  <2>8. OneVersion'
    BY <1>1, <1>2, <2>7, OnePoolKept DEF CallGetsPool, PoolsInv, OneVersion
  <2>9. ChosenIsFree'
    BY <1>1, <1>2, ChoosersKept
       DEF CallGetsPool, PoolsInv, ChosenIsFree, Relabelled, Exists
  <2> QED BY <2>4, <2>5, <2>6, <2>8, <2>9 DEF PoolsInv
<1>3. CASE Error /\ CallEnds(c) /\ UNCHANGED <<pools, pool, deployments>>
  <2>1. PoolsTypeOK'
    BY <1>1, <1>3, CallEndsWell, ErrorCounted
       DEF CallGetsPool, PoolsInv, PoolsTypeOK, CallsOK
  <2>2. \A x \in Caller : call'[x].version \in {call[x].version, Nil}
    BY <1>1, <1>3 DEF CallEnds, NoCall, CallsOK
  <2>3. MappedPoolsLive' /\ InHand' /\ OneVersion' /\ ChosenIsFree'
    BY <1>3, <2>2 DEF CallGetsPool, PoolsInv, MappedPoolsLive, InHand, OneVersion,
       ChosenIsFree, Relabelled, Exists
  <2> QED BY <2>1, <2>3 DEF PoolsInv
<1> QED BY <1>2, <1>3 DEF CallGetsPool

LEMMA SpecializeChosenStep ==
    ASSUME PoolsInv, NEW c \in Caller, SpecializeChosen(c)
    PROVE  PoolsInv'
<1>1. PoolsTypeOK'
  <2>1. CallsOK /\ CallEnds(c)
    BY DEF PoolsInv, PoolsTypeOK, CallsOK, SpecializeChosen
  <2>2. CallsOK'
    BY <2>1, CallEndsWell
  <2>3. errors' \in 0 .. MaxErrors
    BY ErrorCounted DEF PoolsInv, PoolsTypeOK, SpecializeChosen
  <2>4. pods' \in [GenericPod -> PodState \cup {Nil}]
    BY DEF PoolsInv, PoolsTypeOK, SpecializeChosen
  <2> QED BY <2>2, <2>3, <2>4 DEF SpecializeChosen, PoolsInv, PoolsTypeOK, CallsOK
<1>2. MappedPoolsLive'
  BY DEF PoolsInv, MappedPoolsLive, SpecializeChosen, Error, CallEnds, NoCall, Exists
<1>3. InHand'
  BY DEF PoolsInv, InHand, SpecializeChosen, Error, CallEnds, NoCall, Exists
<1>4. OneVersion'
  BY DEF PoolsInv, OneVersion, PoolsTypeOK, SpecializeChosen, Error, CallEnds, NoCall,
         Exists
<1>5. ChosenIsFree'
  <2>1. \A q \in GenericPod : pods'[q] \in {pods[q], Nil}
    BY DEF SpecializeChosen, PoolsInv, PoolsTypeOK
  <2>2. \A p \in Pool : pool[p].svc = "relabel" => pool[p].chosen \in GenericPod
    BY DEF PoolsInv, InHand, PoolsTypeOK, PoolState
  <2> QED BY <2>1, <2>2 DEF SpecializeChosen, PoolsInv, ChosenIsFree, Relabelled, Exists
<1> QED BY <1>1, <1>2, <1>3, <1>4, <1>5 DEF PoolsInv

(* The steps of a pool's goroutine.                                        *)
LEMMA AcceptStep ==
    ASSUME PoolsInv, NEW p \in Pool, Accept(p)
    PROVE  PoolsInv'
<1>1. PoolsTypeOK'
  <2>0. PICK c \in Caller :
         /\ call[c].pc = "choose" /\ call[c].pool = p
         /\ call' = [call EXCEPT ![c].pc = "wait"]
         /\ pool' = [pool EXCEPT ![p].svc = "list", ![p].serving = c]
    BY DEF Accept
  <2> DEFINE s == [call[c] EXCEPT !.pc = "wait"]
             g == [pool[p] EXCEPT !.svc = "list", !.serving = c]
  <2>1. CallsOK /\ pool \in [Pool -> PoolState]
    BY DEF PoolsInv, PoolsTypeOK, CallsOK
  <2>2. s \in CallState /\ s.pc = "wait" /\ s.pool # Nil
    BY <2>0, <2>1 DEF CallsOK, CallState
  <2>3. g \in PoolState
    BY <2>1 DEF PoolState
  <2>4. call' = [call EXCEPT ![c] = s] /\ pool' = [pool EXCEPT ![p] = g]
    BY <2>0
  <2> HIDE DEF s, g
  <2>5. CallsOK'
    BY <2>1, <2>2, <2>4, CallChanges
  <2>6. pool' \in [Pool -> PoolState]
    BY <2>1, <2>3, <2>4
  <2> QED BY <2>5, <2>6 DEF Accept, PoolsInv, PoolsTypeOK, CallsOK, kubeVars
<1>2. MappedPoolsLive'
  BY DEF PoolsInv, MappedPoolsLive, PoolsTypeOK, Accept, kubeVars
<1>3. InHand'
  BY DEF PoolsInv, InHand, PoolsTypeOK, Accept, kubeVars
<1>4. OneVersion'
  BY DEF PoolsInv, OneVersion, PoolsTypeOK, Accept, kubeVars
<1>5. ChosenIsFree'
  BY DEF PoolsInv, ChosenIsFree, Relabelled, Exists, PoolsTypeOK, Accept, kubeVars
<1> QED BY <1>1, <1>2, <1>3, <1>4, <1>5 DEF PoolsInv

(* The goroutine has listed the pods: it has chosen one that is not taken, *)
(* or has answered with an error.                                          *)
LEMMA ListPodsStep ==
    ASSUME PoolsInv, NEW p \in Pool, ListPods(p)
    PROVE  PoolsInv'
<1>1. CallsOK /\ pool \in [Pool -> PoolState]
  BY DEF PoolsInv, PoolsTypeOK, CallsOK
<1>2. CASE /\ \E q \in ReadyPods :
                pool' = [pool EXCEPT ![p].svc = "relabel", ![p].chosen = q]
           /\ UNCHANGED <<call, errors>>
  <2> PICK q \in ReadyPods : pool' = [pool EXCEPT ![p].svc = "relabel", ![p].chosen = q]
    BY <1>2
  <2> DEFINE g == [pool[p] EXCEPT !.svc = "relabel", !.chosen = q]
  <2>1. q \in GenericPod /\ q # Nil /\ ~Relabelled(q)
    BY DEF ReadyPods, Managed, Relabelled
  <2>2. g \in PoolState /\ g.svc = "relabel" /\ g.chosen = q
    BY <1>1, <2>1 DEF PoolState
  <2>3. g.version = pool[p].version /\ g.destroy = pool[p].destroy
        /\ g.serving = pool[p].serving
    BY <1>1 DEF PoolState
  <2>4. pool' = [pool EXCEPT ![p] = g]
    OBVIOUS
  <2> HIDE DEF g
  <2>5. pool' \in [Pool -> PoolState] /\ pool'[p] = g
        /\ \A x \in Pool \ {p} : pool'[x] = pool[x]
    BY <1>1, <2>2, <2>4
  <2>6. PoolsTypeOK'
    BY <1>2, <2>5 DEF ListPods, PoolsInv, PoolsTypeOK, kubeVars
  <2>a. UNCHANGED <<env, pools, pods, eager, functionEnv>> /\ pool[p].svc = "list"
    BY DEF ListPods, kubeVars
  <2>7. MappedPoolsLive'
    <3> SUFFICES ASSUME NEW v \in Version, pools[v] # Nil
                 PROVE  /\ pool'[pools[v]].version = v
                        /\ pool'[pools[v]].svc # "exited"
                        /\ pool'[pools[v]].destroy = "no"
      BY <2>a DEF MappedPoolsLive
    <3>1. /\ pools[v] \in Pool /\ pool[pools[v]].version = v
          /\ pool[pools[v]].svc # "exited" /\ pool[pools[v]].destroy = "no"
      BY DEF PoolsInv, MappedPoolsLive, PoolsTypeOK
    <3>2. CASE pools[v] = p
      BY <2>2, <2>3, <2>5, <3>1, <3>2
    <3>3. CASE pools[v] # p
      BY <2>5, <3>1, <3>3
    <3> QED BY <3>2, <3>3
  <2>8. InHand'
    <3>1. pool[p].serving # Nil
      BY <2>a DEF PoolsInv, InHand
    <3>2. pool'[p].serving # Nil /\ pool'[p].chosen # Nil
      BY <2>1, <2>2, <2>3, <2>5, <3>1
    <3>3. \A x \in Pool \ {p} : pool'[x] = pool[x]
      BY <2>5
    <3> QED BY <2>a, <3>2, <3>3 DEF PoolsInv, InHand
  <2>9. OneVersion'
    BY <1>2, <2>5 DEF ListPods, PoolsInv, OneVersion, kubeVars
  <2>10. ChosenIsFree'
    BY <1>2, <2>1, <2>2, <2>5
       DEF ListPods, PoolsInv, ChosenIsFree, Relabelled, Exists, kubeVars
  <2> QED BY <2>6, <2>7, <2>8, <2>9, <2>10 DEF PoolsInv
<1>3. CASE /\ pool' = Served(p)
           /\ CallEnds(pool[p].serving)
           /\ errors' \in 0 .. MaxErrors
  <2>1. CallsOK'
    BY <1>1, <1>3, CallEndsWell
  <2>2. PoolsTypeOK'
    <3>1. pool' \in [Pool -> PoolState]
      BY <1>1, <1>3, ServedPool
    <3> QED BY <1>3, <2>1, <3>1
            DEF ListPods, PoolsInv, PoolsTypeOK, CallsOK, kubeVars
  <2>3. MappedPoolsLive' /\ InHand' /\ ChosenIsFree'
    BY <1>3, ServedKeeps DEF ListPods, kubeVars
  <2>4. OneVersion'
    <3>1. \A x \in Caller : call'[x].version \in {call[x].version, Nil}
      BY <1>1, <1>3 DEF CallEnds, NoCall, CallsOK
    <3>2. UNCHANGED <<env, pools, pods, eager, functionEnv>> /\ pool[p].svc = "list"
      BY DEF ListPods, kubeVars
    <3>3. env = 0 => \A x \in Pool : pool'[x].svc # "exited" => pools[0] = x
      BY <1>3, <3>2, ServedKeeps
    <3> QED BY <3>1, <3>2, <3>3 DEF PoolsInv, OneVersion
  <2> QED BY <2>2, <2>3, <2>4 DEF PoolsInv
<1>4. Error => errors' \in 0 .. MaxErrors
  BY ErrorCounted DEF PoolsInv, PoolsTypeOK
<1>5. errors \in 0 .. MaxErrors
  BY DEF PoolsInv, PoolsTypeOK
<1> QED BY <1>2, <1>3, <1>4, <1>5 DEF ListPods

LEMMA RelabelPodStep ==
    ASSUME PoolsInv, NEW p \in Pool, RelabelPod(p)
    PROVE  PoolsInv'
<1>1. PoolsTypeOK'
  BY DEF PoolsInv, PoolsTypeOK, PoolState, PodState, CallState, EagerState, Version,
         InHand, RelabelPod, Served, Error, CallEnds, NoCall, Exists
<1>2. MappedPoolsLive'
  BY DEF PoolsInv, MappedPoolsLive, PoolsTypeOK, PoolState, Version, InHand, OneVersion,
         ChosenIsFree, PodState, CallState, EagerState, RelabelPod, Served, Error,
         CallEnds, NoCall, Exists
<1>3. InHand'
  BY DEF PoolsInv, InHand, PoolsTypeOK, PoolState, Version, RelabelPod, Served, Error,
         CallEnds, NoCall, Exists
<1>4. OneVersion'
  BY DEF PoolsInv, OneVersion, PoolsTypeOK, PoolState, Version, InHand, RelabelPod,
         Served, Error, CallEnds, NoCall, Exists
<1>5. ChosenIsFree'
  BY DEF PoolsInv, ChosenIsFree, Relabelled, Exists, PoolsTypeOK, PoolState, Version,
         InHand, OneVersion, RelabelPod, Served, Error, CallEnds, NoCall
<1> QED BY <1>1, <1>2, <1>3, <1>4, <1>5 DEF PoolsInv

LEMMA ExitStep ==
    ASSUME PoolsInv, NEW p \in Pool, Exit(p)
    PROVE  PoolsInv'
<1>1. PoolsTypeOK'
  <2> DEFINE s == [NoCall EXCEPT !.pc = "stuck"]
             g == [pool[p] EXCEPT !.svc = "exited"]
  <2>1. CallsOK /\ pool \in [Pool -> PoolState]
    BY DEF PoolsInv, PoolsTypeOK, CallsOK
  <2>2. s \in CallState /\ s.pc = "stuck"
    BY DEF NoCall, CallState
  <2>3. g \in PoolState
    BY <2>1 DEF PoolState
  <2>4. /\ call' = [c \in Caller |-> IF call[c].pc = "choose" /\ call[c].pool = p
                                     THEN s ELSE call[c]]
        /\ pool' = [pool EXCEPT ![p] = g]
    BY DEF Exit
  <2> HIDE DEF s, g
  <2>5. CallsOK'
    BY <2>1, <2>2, <2>4 DEF CallsOK
  <2>6. pool' \in [Pool -> PoolState]
    BY <2>1, <2>3, <2>4
  <2> QED BY <2>5, <2>6 DEF Exit, PoolsInv, PoolsTypeOK, CallsOK, kubeVars
<1>2. MappedPoolsLive'
  BY DEF PoolsInv, MappedPoolsLive, Exit, NoCall, kubeVars
<1>3. InHand'
  BY DEF PoolsInv, InHand, Exit, NoCall, kubeVars
<1>4. OneVersion'
  BY DEF PoolsInv, OneVersion, Exit, NoCall, kubeVars
<1>5. ChosenIsFree'
  BY DEF PoolsInv, ChosenIsFree, Relabelled, Exists, Exit, NoCall, kubeVars
<1> QED BY <1>1, <1>2, <1>3, <1>4, <1>5 DEF PoolsInv

LEMMA DestroyDeletesStep ==
    ASSUME PoolsInv, NEW p \in Pool, DestroyDeletes(p)
    PROVE  PoolsInv'
<1>1. PoolsTypeOK'
  <2> DEFINE g == [pool[p] EXCEPT !.destroy = "done"]
  <2>1. pool \in [Pool -> PoolState]
    BY DEF PoolsInv, PoolsTypeOK
  <2>2. g \in PoolState
    BY <2>1 DEF PoolState
  <2>3. pool' = [pool EXCEPT ![p] = g]
    BY DEF DestroyDeletes
  <2> HIDE DEF g
  <2>4. pool' \in [Pool -> PoolState]
    BY <2>1, <2>2, <2>3
  <2>5. errors' \in 0 .. MaxErrors /\ deployments' \subseteq Version
    BY ErrorCounted DEF DestroyDeletes, PoolsInv, PoolsTypeOK
  <2> QED BY <2>4, <2>5 DEF DestroyDeletes, PoolsInv, PoolsTypeOK
<1>2. MappedPoolsLive'
  BY DEF PoolsInv, MappedPoolsLive, DestroyDeletes, Error
<1>3. InHand'
  BY DEF PoolsInv, InHand, DestroyDeletes, Error
<1>4. OneVersion'
  BY DEF PoolsInv, OneVersion, DestroyDeletes, Error
<1>5. ChosenIsFree'
  BY DEF PoolsInv, ChosenIsFree, Relabelled, Exists, DestroyDeletes, Error
<1> QED BY <1>1, <1>2, <1>3, <1>4, <1>5 DEF PoolsInv

(* The eager pool creator and the clean-up.                                *)
LEMMA EagerListsStep ==
    ASSUME PoolsInv, EagerLists
    PROVE  PoolsInv'
<1>1. PoolsTypeOK'
  BY DEF PoolsInv, PoolsTypeOK, PoolState, PodState, CallState, EagerState, Version,
         EagerLists, kubeVars
<1>2. MappedPoolsLive'
  BY DEF PoolsInv, MappedPoolsLive, EagerLists, kubeVars
<1>3. InHand'
  BY DEF PoolsInv, InHand, PoolsTypeOK, PoolState, Version, EagerLists, kubeVars
<1>4. OneVersion'
  BY DEF PoolsInv, OneVersion, EagerLists, kubeVars
<1>5. ChosenIsFree'
  BY DEF PoolsInv, ChosenIsFree, Relabelled, Exists, EagerLists, kubeVars
<1> QED BY <1>1, <1>2, <1>3, <1>4, <1>5 DEF PoolsInv

LEMMA EagerGetsPoolStep ==
    ASSUME PoolsInv, EagerGetsPool
    PROVE  PoolsInv'
<1> DEFINE v == eager.list
<1>1. v \in Version /\ (env = 0 => v = 0)
  BY DEF PoolsInv, PoolsTypeOK, EagerState, OneVersion, InHand, EagerGetsPool
<1>2. eager' \in EagerState /\ eager'.list \in {eager.list, Nil}
      /\ (eager'.pool \/ eager'.cleanup => eager'.list # Nil)
  <2> DEFINE f == [eager EXCEPT !.pool = FALSE]
  <2>1. f \in EagerState /\ f.list = eager.list
    BY DEF PoolsInv, PoolsTypeOK, EagerState
  <2>2. eager' = EagerAfter(f)
    BY DEF EagerGetsPool
  <2>3. f.list # Nil
    BY <1>1, <2>1 DEF Version
  <2> HIDE DEF f
  <2> QED BY <2>1, <2>2, <2>3, EagerGoesOn
<1>3. CASE GetPool(v) /\ UNCHANGED errors
  <2> HIDE DEF v
  <2>1. PoolsTypeOK'
    BY <1>1, <1>2, <1>3, PoolGot DEF EagerGetsPool, PoolsInv, PoolsTypeOK
  <2>2. MappedPoolsLive'
    BY <1>1, <1>3, MapKept
  <2>3. InHand'
    BY <1>1, <1>2, <1>3, ChoosersKept DEF PoolsInv, InHand
  <2>4. OneVersion'
    BY <1>1, <1>2, <1>3, OnePoolKept DEF EagerGetsPool, PoolsInv, OneVersion
  <2>5. ChosenIsFree'
    BY <1>1, <1>3, ChoosersKept
       DEF EagerGetsPool, PoolsInv, ChosenIsFree, Relabelled, Exists
  <2> QED BY <2>1, <2>2, <2>3, <2>4, <2>5 DEF PoolsInv
<1>4. CASE Error /\ UNCHANGED <<pools, pool, deployments>>
  <2>1. PoolsTypeOK'
    BY <1>2, <1>4, ErrorCounted DEF EagerGetsPool, PoolsInv, PoolsTypeOK
  <2>2. MappedPoolsLive' /\ InHand' /\ OneVersion' /\ ChosenIsFree'
    BY <1>2, <1>4 DEF EagerGetsPool, PoolsInv, MappedPoolsLive, InHand, OneVersion,
       ChosenIsFree, Relabelled, Exists
  <2> QED BY <2>1, <2>2 DEF PoolsInv
<1> QED BY <1>3, <1>4 DEF EagerGetsPool

LEMMA CleanupPoolsStep ==
    ASSUME PoolsInv, CleanupPools
    PROVE  PoolsInv'
<1>1. PoolsTypeOK'
  <2>1. eager' \in EagerState
    BY DEF PoolsInv, PoolsTypeOK, EagerState, CleanupPools, EagerAfter
  <2>2. pools' \in [Version -> Pool \cup {Nil}]
    BY DEF PoolsInv, PoolsTypeOK, CleanupPools
  <2>3. \A p \in Pool : [pool[p] EXCEPT !.destroy = "delete"] \in PoolState
    BY DEF PoolsInv, PoolsTypeOK, PoolState
  <2>4. pool' \in [Pool -> PoolState]
    BY <2>3 DEF PoolsInv, PoolsTypeOK, CleanupPools
  <2> QED BY <2>1, <2>2, <2>4 DEF CleanupPools, PoolsInv, PoolsTypeOK, kubeVars
<1>2. MappedPoolsLive'
  BY DEF PoolsInv, MappedPoolsLive, PoolsTypeOK, CleanupPools, EagerAfter, kubeVars
<1>3. InHand'
  BY DEF PoolsInv, InHand, CleanupPools, EagerAfter, kubeVars
<1>4. OneVersion'
  BY DEF PoolsInv, OneVersion, PoolsTypeOK, PoolState, Version, InHand, CleanupPools,
         EagerAfter, kubeVars
<1>5. ChosenIsFree'
  BY DEF PoolsInv, ChosenIsFree, Relabelled, Exists, CleanupPools, EagerAfter, kubeVars
<1> QED BY <1>1, <1>2, <1>3, <1>4, <1>5 DEF PoolsInv

(* The user and Kubernetes.                                                *)
LEMMA EnvUpdatedStep ==
    ASSUME PoolsInv, EnvUpdated
    PROVE  PoolsInv'
<1>1. PoolsTypeOK'
  BY DEF PoolsInv, PoolsTypeOK, PoolState, PodState, CallState, EagerState, Version,
         EnvUpdated, kubeVars
<1>2. MappedPoolsLive'
  BY DEF PoolsInv, MappedPoolsLive, EnvUpdated, kubeVars
<1>3. InHand'
  BY DEF PoolsInv, InHand, EnvUpdated, kubeVars
<1>4. OneVersion'
  BY DEF PoolsInv, OneVersion, PoolsTypeOK, PoolState, Version, InHand, EnvUpdated,
         kubeVars
<1>5. ChosenIsFree'
  BY DEF PoolsInv, ChosenIsFree, Relabelled, Exists, PoolsTypeOK, PoolState, Version,
         InHand, OneVersion, EnvUpdated, kubeVars
<1> QED BY <1>1, <1>2, <1>3, <1>4, <1>5 DEF PoolsInv

LEMMA PodCreatedStep ==
    ASSUME PoolsInv, NEW v \in Version, PodCreated(v)
    PROVE  PoolsInv'
<1>1. PoolsTypeOK'
  BY DEF PoolsInv, PoolsTypeOK, PoolState, PodState, CallState, EagerState, Version,
         PodCreated, Exists, Managed
<1>2. MappedPoolsLive'
  BY DEF PoolsInv, MappedPoolsLive, PodCreated, Exists, Managed
<1>3. InHand'
  BY DEF PoolsInv, InHand, PodCreated, Exists, Managed
<1>4. OneVersion'
  BY DEF PoolsInv, OneVersion, PodCreated, Exists, Managed
<1>5. ChosenIsFree'
  BY DEF PoolsInv, ChosenIsFree, Relabelled, Exists, PodCreated, Managed
<1> QED BY <1>1, <1>2, <1>3, <1>4, <1>5 DEF PoolsInv

LEMMA PodDeletedStep ==
    ASSUME PoolsInv, NEW q \in GenericPod, PodDeleted(q)
    PROVE  PoolsInv'
<1>1. PoolsTypeOK'
  BY DEF PoolsInv, PoolsTypeOK, PoolState, PodState, CallState, EagerState, Version,
         PodDeleted, Exists, Managed
<1>2. MappedPoolsLive'
  BY DEF PoolsInv, MappedPoolsLive, PodDeleted, Exists, Managed
<1>3. InHand'
  BY DEF PoolsInv, InHand, PodDeleted, Exists, Managed
<1>4. OneVersion'
  BY DEF PoolsInv, OneVersion, PodDeleted, Exists, Managed
<1>5. ChosenIsFree'
  BY DEF PoolsInv, ChosenIsFree, Relabelled, Exists, PodDeleted, Managed
<1> QED BY <1>1, <1>2, <1>3, <1>4, <1>5 DEF PoolsInv

(* Every step keeps the invariant.                                         *)
LEMMA PoolsInvNext ==
    ASSUME PoolsInv, [PoolsNext]_poolsVars
    PROVE  PoolsInv'
<1>1. CASE UNCHANGED poolsVars
  BY <1>1 DEF poolsVars, kubeVars, PoolsInv, PoolsTypeOK, MappedPoolsLive, InHand,
     OneVersion, ChosenIsFree, Relabelled, Exists
<1>2. CASE \E c \in Caller : GetFunctionEnv(c) \/ CallSteps(c) \/ FunctionEnvExpires(c)
  BY <1>2, GetFunctionEnvStep, CallGetsPoolStep, SpecializeChosenStep,
     FunctionEnvExpiresStep DEF CallSteps
<1>3. CASE \E p \in Pool : PoolSteps(p) \/ DestroyDeletes(p)
  BY <1>3, AcceptStep, ListPodsStep, RelabelPodStep, ExitStep, DestroyDeletesStep
     DEF PoolSteps
<1>4. CASE EagerLists \/ EagerGetsPool \/ CleanupPools \/ EnvUpdated
  BY <1>4, EagerListsStep, EagerGetsPoolStep, CleanupPoolsStep, EnvUpdatedStep
<1>5. CASE (\E v \in Version : PodCreated(v)) \/ (\E q \in GenericPod : PodDeleted(q))
  BY <1>5, PodCreatedStep, PodDeletedStep
<1> QED BY <1>1, <1>2, <1>3, <1>4, <1>5 DEF PoolsNext

LEMMA PoolsInvInit == PoolsInit => PoolsInv
<1> SUFFICES ASSUME PoolsInit PROVE PoolsInv
  OBVIOUS
<1>1. 0 \in Version /\ 0 \in 0 .. MaxCalls /\ 0 \in 0 .. MaxErrors
  BY DEF Version
<1>2. NoCall \in CallState /\ NoCall.pc = "idle" /\ NoCall.version = Nil
  BY DEF NoCall, CallState
<1>3. [version |-> 0, svc |-> "exited", serving |-> Nil, chosen |-> Nil,
       destroy |-> "done"] \in PoolState
  BY <1>1 DEF PoolState
<1>4. PoolsTypeOK
  BY <1>1, <1>2, <1>3 DEF PoolsInit, PoolsTypeOK, EagerState
<1>5. MappedPoolsLive /\ InHand /\ OneVersion /\ ChosenIsFree
  BY <1>1, <1>2 DEF PoolsInit, MappedPoolsLive, InHand, OneVersion, ChosenIsFree
<1> QED BY <1>4, <1>5 DEF PoolsInv

(* The pool manager's state has its types, whatever the number of          *)
(* functions, pools and pods and however often the environment is updated. *)
THEOREM PoolsTypeCorrect == PoolsSpec => []PoolsTypeOK
<1>1. PoolsInv => PoolsTypeOK
  BY DEF PoolsInv
<1> QED BY <1>1, PoolsInvInit, PoolsInvNext, PTL DEF PoolsSpec

(* GET_POOL never answers with a pool that is being destroyed, nor with one*)
(* of another version: the service goroutine takes a pool out of the map   *)
(* before its context is cancelled, and a pool that was created anew for a *)
(* version is another object.                                              *)
THEOREM MappedPoolsSafety == PoolsSpec => []MappedPoolsLive
<1>1. PoolsInv => MappedPoolsLive
  BY DEF PoolsInv
<1> QED BY <1>1, PoolsInvInit, PoolsInvNext, PTL DEF PoolsSpec

LEMMA PodsTakenOnce ==
    ASSUME PoolsInv, [PoolsNext]_poolsVars, env = 0,
           NEW q \in GenericPod, Relabelled(q)
    PROVE  pods'[q] \in {pods[q], Nil}
<1> USE DEF PoolsInv, PoolsTypeOK
<1>1. CASE UNCHANGED pods
  BY <1>1
<1>2. ASSUME NEW p \in Pool, RelabelPod(p)
      PROVE  pods'[q] \in {pods[q], Nil}
  <2>1. pool[p].chosen # q
    BY <1>2 DEF RelabelPod, ChosenIsFree
  <2> QED BY <1>2, <2>1 DEF RelabelPod
<1>3. ASSUME NEW c \in Caller, SpecializeChosen(c)
      PROVE  pods'[q] \in {pods[q], Nil}
  BY <1>3 DEF SpecializeChosen
<1>4. ASSUME NEW v \in Version, PodCreated(v)
      PROVE  pods'[q] \in {pods[q], Nil}
  <2> DEFINE x == CHOOSE y \in GenericPod : ~Exists(y)
  <2>1. ~Exists(x)
    BY <1>4 DEF PodCreated
  <2>2. x # q
    BY <2>1 DEF Relabelled
  <2>3. pods' = [pods EXCEPT ![x] = [version |-> v, label |-> Nil]]
    BY <1>4 DEF PodCreated
  <2> HIDE DEF x
  <2> QED BY <2>2, <2>3
<1>5. ASSUME NEW x \in GenericPod, PodDeleted(x)
      PROVE  pods'[q] \in {pods[q], Nil}
  BY <1>5 DEF PodDeleted
<1> QED
  BY <1>1, <1>2, <1>3, <1>4, <1>5 DEF PoolsNext, CallSteps, PoolSteps, poolsVars, kubeVars,
     GetFunctionEnv, FunctionEnvExpires, CallGetsPool, Accept, ListPods, Exit,
     DestroyDeletes, EagerLists, EagerGetsPool, CleanupPools, EnvUpdated

(* As long as the environment is not updated a pod that carries the labels *)
(* of a function is not given to another one, for any number of functions, *)
(* pools and pods (choosePodService, _choosePod).                          *)
THEOREM PodChosenOnceHolds == PoolsSpec => PodChosenOnce
<1> DEFINE A == env = 0 => \A q \in GenericPod : Relabelled(q) => pods'[q] \in {pods[q], Nil}
<1>1. PoolsInv /\ [PoolsNext]_poolsVars => [A]_poolsVars
  BY PodsTakenOnce
<1>2. [][A]_poolsVars => PodChosenOnce
  BY PTL DEF PodChosenOnce
<1> QED BY <1>1, <1>2, PoolsInvInit, PoolsInvNext, PTL DEF PoolsSpec
=============================================================================
