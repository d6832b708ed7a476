------------------------------ MODULE Executor ------------------------------
(***************************************************************************)
(* pkg/executor with the pool manager's function service cache: how an API *)
(* request for a function's address is answered from the cache, or by the  *)
(* creation of a service (a pod of the pool specialized for the function). *)
(*                                                                         *)
(* Each request is served by a goroutine of its own.  The serve loop       *)
(* (serveCreateFuncServices) takes the requests that missed the cache one  *)
(* by one and starts a goroutine that creates the service, or one that     *)
(* waits for a creation in progress; a request is in one of the two only   *)
(* while its handler waits for the response, so one program counter per    *)
(* request is enough.  The cache of services is two maps, each behind a    *)
(* goroutine of its own, so every single access of a map is atomic and two *)
(* accesses are not.  (The third map, byFunctionUID, is never read by the  *)
(* pool manager and is left out.)                                          *)
(*                                                                         *)
(* The pool is abstract: choosing yields a pod that was warm and relabels  *)
(* it, or an error.  The model is of an environment with one function per  *)
(* container, so a service is identified by its pod.                       *)
(***************************************************************************)
EXTENDS Naturals

CONSTANTS
    Req,          \* requests to getServiceForFunction
    Fn,           \* functions, as cache keys (UID and resource version)
    Pod,          \* pods the pool can provide
    None,         \* no request, function or pod
    Failed,       \* an error answered to a request
    MaxRestarts   \* bound on the number of restarts of the executor

ASSUME SentinelAssumption ==
    /\ None \notin Req \cup Fn \cup Pod
    /\ Failed \notin Pod \cup {None}

ASSUME RestartAssumption == MaxRestarts \in Nat

VARIABLES
    fn,           \* fn[r]: the function request r is about
    pc,           \* pc[r]: where request r is
    pod,          \* pod[r]: the pod in hand, from the cache or the pool
    existing,     \* existing[r]: the service that Add found in the cache
    result,       \* result[r]: the answer: a pod's address, Failed or None
    fsCreateWg,   \* fsCreateWg[f]: the request whose WaitGroup is in the map
    waitsOn,      \* waitsOn[r]: the request whose WaitGroup r waits for
    byFunction,   \* the cache: function -> service
    byAddress,    \* the cache: address -> function
    idle,         \* services whose Atime is older than the idle timeout
    podState,     \* podState[p]: state of the pod in the cluster
    podFn,        \* podFn[p]: the function in the pod's labels
    annotated,    \* pods with the annotations that adoption needs
    reap,         \* reap[p]: where the idle reaper is with service p
    restarts      \* number of restarts so far

reqVars == <<fn, pc, pod, existing, result, fsCreateWg, waitsOn>>
cacheVars == <<byFunction, byAddress, idle>>
podVars == <<podState, podFn, annotated>>
vars == <<reqVars, cacheVars, podVars, reap, restarts>>

(* The states of a request whose goroutine is creating the service.        *)
Creating == {"choose", "specialize", "add", "addAddress", "touch"}

ReqState == {"idle", "validate", "evict", "evictAddress", "send", "wait",
             "delete", "signal", "answered"} \cup Creating

TypeOK ==
    /\ fn \in [Req -> Fn]
    /\ pc \in [Req -> ReqState]
    /\ pod \in [Req -> Pod \cup {None}]
    /\ existing \in [Req -> Pod \cup {None}]
    /\ result \in [Req -> Pod \cup {None, Failed}]
    /\ fsCreateWg \in [Fn -> Req \cup {None}]
    /\ waitsOn \in [Req -> Req \cup {None}]
    /\ byFunction \in [Fn -> Pod \cup {None}]
    /\ byAddress \in [Pod -> Fn \cup {None}]
    /\ idle \subseteq Pod
    /\ podState \in [Pod -> {"warm", "chosen", "live", "dead"}]
    /\ podFn \in [Pod -> Fn \cup {None}]
    /\ annotated \subseteq Pod
    /\ reap \in [Pod -> {"no", "listed", "evict", "evictAddress", "kill"}]
    /\ restarts \in 0..MaxRestarts

Init ==
    /\ fn \in [Req -> Fn]
    /\ pc = [r \in Req |-> "idle"]
    /\ pod = [r \in Req |-> None]
    /\ existing = [r \in Req |-> None]
    /\ result = [r \in Req |-> None]
    /\ fsCreateWg = [f \in Fn |-> None]
    /\ waitsOn = [r \in Req |-> None]
    /\ byFunction = [f \in Fn |-> None]
    /\ byAddress = [p \in Pod |-> None]
    /\ idle = {}
    /\ podState = [p \in Pod |-> "warm"]
    /\ podFn = [p \in Pod |-> None]
    /\ annotated = {}
    /\ reap = [p \in Pod |-> "no"]
    /\ restarts = 0

Goto(r, s) == pc' = [pc EXCEPT ![r] = s]

Answer(r, a) == result' = [result EXCEPT ![r] = a]
-----------------------------------------------------------------------------
(* The API handler.                                                        *)

(* getServiceForFunction looks the function up; a hit updates Atime.       *)
Lookup(r) ==
    LET p == byFunction[fn[r]] IN
    /\ pc[r] = "idle"
    /\ pod' = [pod EXCEPT ![r] = p]
    /\ idle' = idle \ {p}
    /\ Goto(r, IF p = None THEN "send" ELSE "validate")
    /\ UNCHANGED <<fn, existing, result, fsCreateWg, waitsOn, byFunction, byAddress,
                   podVars, reap, restarts>>

(* IsValid asks the API server whether the pod is ready.                   *)
Validate(r) ==
    /\ pc[r] = "validate"
    /\ \/ /\ podState[pod[r]] = "live"
          /\ Answer(r, pod[r])
          /\ Goto(r, "answered")
       \/ /\ podState[pod[r]] # "live"
          /\ Goto(r, "evict")
          /\ UNCHANGED result
    /\ UNCHANGED <<fn, pod, existing, fsCreateWg, waitsOn, cacheVars, podVars, reap,
                   restarts>>

(* DeleteEntry, first access: whatever is cached for the function goes.    *)
EvictFunction(r) ==
    /\ pc[r] = "evict"
    /\ byFunction' = [byFunction EXCEPT ![fn[r]] = None]
    /\ Goto(r, "evictAddress")
    /\ UNCHANGED <<fn, pod, existing, result, fsCreateWg, waitsOn, byAddress, idle,
                   podVars, reap, restarts>>

(* DeleteEntry, second access.                                             *)
EvictAddress(r) ==
    /\ pc[r] = "evictAddress"
    /\ byAddress' = [byAddress EXCEPT ![pod[r]] = None]
    /\ Goto(r, "send")
    /\ UNCHANGED <<fn, pod, existing, result, fsCreateWg, waitsOn, byFunction, idle,
                   podVars, reap, restarts>>
-----------------------------------------------------------------------------
(* The serve loop and the goroutines it starts.                            *)

(* Faulty: the serve loop does not record the creation it starts.          *)
ServeForgetsCreation(r) ==
    /\ pc[r] = "send"
    /\ \/ /\ fsCreateWg[fn[r]] = None
          /\ Goto(r, "choose")
          /\ UNCHANGED <<fsCreateWg, waitsOn>>
       \/ /\ fsCreateWg[fn[r]] # None
          /\ waitsOn' = [waitsOn EXCEPT ![r] = fsCreateWg[fn[r]]]
          /\ Goto(r, "wait")
          /\ UNCHANGED fsCreateWg
    /\ UNCHANGED <<fn, pod, existing, result, cacheVars, podVars, reap, restarts>>

(* The serve loop receives the request: the first one for a function       *)
(* creates the service, later ones wait for it.                            *)
Serve(r) ==
    /\ pc[r] = "send"
    /\ \/ /\ fsCreateWg[fn[r]] = None
          /\ fsCreateWg' = [fsCreateWg EXCEPT ![fn[r]] = r]
          /\ Goto(r, "choose")
          /\ UNCHANGED waitsOn
       \/ /\ fsCreateWg[fn[r]] # None
          /\ waitsOn' = [waitsOn EXCEPT ![r] = fsCreateWg[fn[r]]]
          /\ Goto(r, "wait")
          /\ UNCHANGED fsCreateWg
    /\ UNCHANGED <<fn, pod, existing, result, cacheVars, podVars, reap, restarts>>

(* Faulty: the pod is picked whatever its labels.                          *)
ChooseAnyPod(r, p) ==
    /\ pc[r] = "choose"
    /\ podState[p] # "dead"
    /\ podState' = [podState EXCEPT ![p] = "chosen"]
    /\ podFn' = [podFn EXCEPT ![p] = fn[r]]
    /\ pod' = [pod EXCEPT ![r] = p]
    /\ Goto(r, "specialize")
    /\ UNCHANGED <<fn, existing, result, fsCreateWg, waitsOn, cacheVars, annotated,
                   reap, restarts>>

(* The pool picks a warm pod and relabels it for the function.             *)
ChoosePod(r, p) ==
    /\ pc[r] = "choose"
    /\ podState[p] = "warm"
    /\ podState' = [podState EXCEPT ![p] = "chosen"]
    /\ podFn' = [podFn EXCEPT ![p] = fn[r]]
    /\ pod' = [pod EXCEPT ![r] = p]
    /\ Goto(r, "specialize")
    /\ UNCHANGED <<fn, existing, result, fsCreateWg, waitsOn, cacheVars, annotated,
                   reap, restarts>>

(* The environment, the pool or a ready pod is not to be had.              *)
ChooseFails(r) ==
    /\ pc[r] = "choose"
    /\ Answer(r, Failed)
    /\ Goto(r, "delete")
    /\ UNCHANGED <<fn, pod, existing, fsCreateWg, waitsOn, cacheVars, podVars, reap,
                   restarts>>

(* The fetcher specializes the pod; the patch of the annotations that      *)
(* follows may fail, which is only logged.                                 *)
SpecializePod(r) ==
    /\ pc[r] = "specialize"
    /\ podState[pod[r]] = "chosen"
    /\ podState' = [podState EXCEPT ![pod[r]] = "live"]
    /\ annotated' \in {annotated, annotated \cup {pod[r]}}
    /\ Goto(r, "add")
    /\ UNCHANGED <<fn, pod, existing, result, fsCreateWg, waitsOn, cacheVars, podFn,
                   reap, restarts>>

(* Specialization fails or times out: the pod is deleted.                  *)
SpecializeFails(r) ==
    /\ pc[r] = "specialize"
    /\ podState' = [podState EXCEPT ![pod[r]] = "dead"]
    /\ Answer(r, Failed)
    /\ Goto(r, "delete")
    /\ UNCHANGED <<fn, pod, existing, fsCreateWg, waitsOn, cacheVars, podFn, annotated,
                   reap, restarts>>

(* fsCache.Add, first access: Set refuses to replace an existing entry.    *)
AddFunction(r) ==
    LET q == byFunction[fn[r]] IN
    /\ pc[r] = "add"
    /\ existing' = [existing EXCEPT ![r] = q]
    /\ \/ /\ q = None
          /\ byFunction' = [byFunction EXCEPT ![fn[r]] = pod[r]]
          /\ Goto(r, "addAddress")
       \/ /\ q # None
          /\ Goto(r, "touch")
          /\ UNCHANGED byFunction
    /\ UNCHANGED <<fn, pod, result, fsCreateWg, waitsOn, byAddress, idle,
                   podVars, reap, restarts>>

(* fsCache.Add, second access; that the name exists is ignored.            *)
AddAddress(r) ==
    /\ pc[r] = "addAddress"
    /\ byAddress' = [byAddress EXCEPT ![pod[r]] = IF @ = None THEN fn[r] ELSE @]
    /\ Answer(r, pod[r])
    /\ Goto(r, "delete")
    /\ UNCHANGED <<fn, pod, existing, fsCreateWg, waitsOn, byFunction, idle, podVars,
                   reap, restarts>>

(* fsCache.Add found a service and touches it by its address.  The caller  *)
(* ignores the service that Add returns and answers its own pod; when the  *)
(* touch fails it answers an error and leaves its own pod running.  The    *)
(* two reads of a touch are one step: an eviction between them has the     *)
(* effect of one before or after both.                                     *)
AddTouches(r) ==
    LET f == byAddress[existing[r]]
        found == f # None /\ byFunction[f] # None IN
    /\ pc[r] = "touch"
    /\ idle' = IF found THEN idle \ {byFunction[f]} ELSE idle
    /\ Answer(r, IF found THEN pod[r] ELSE Failed)
    /\ Goto(r, "delete")
    /\ UNCHANGED <<fn, pod, existing, fsCreateWg, waitsOn, byFunction,
                   byAddress, podVars, reap, restarts>>

(* Having sent its response the goroutine removes the WaitGroup from the   *)
(* map, which it shares with the serve loop without a lock.  When the two  *)
(* meet, the Go runtime either stops the process, which is a restart and   *)
(* possible in every state, or one access takes effect after the other.    *)
DeleteWg(r) ==
    /\ pc[r] = "delete"
    /\ fsCreateWg' = [fsCreateWg EXCEPT ![fn[r]] = None]
    /\ Goto(r, "signal")
    /\ UNCHANGED <<fn, pod, existing, result, waitsOn, cacheVars, podVars,
                   reap, restarts>>

(* Faulty: after an error the goroutine returns before wg.Done.            *)
SignalUnlessFailed(r) ==
    /\ pc[r] = "signal"
    /\ result[r] # Failed
    /\ Goto(r, "answered")
    /\ UNCHANGED <<fn, pod, existing, result, fsCreateWg, waitsOn, cacheVars,
                   podVars, reap, restarts>>

(* wg.Done.                                                                *)
Signal(r) ==
    /\ pc[r] = "signal"
    /\ Goto(r, "answered")
    /\ UNCHANGED <<fn, pod, existing, result, fsCreateWg, waitsOn, cacheVars,
                   podVars, reap, restarts>>

(* wg.Wait returns and the waiter reads the cache, with no check that the  *)
(* pod is valid.                                                           *)
WaitDone(r) ==
    LET p == byFunction[fn[r]] IN
    /\ pc[r] = "wait"
    /\ pc[waitsOn[r]] = "answered"
    /\ Answer(r, IF p = None THEN Failed ELSE p)
    /\ idle' = idle \ {p}
    /\ Goto(r, "answered")
    /\ UNCHANGED <<fn, pod, existing, fsCreateWg, waitsOn, byFunction,
                   byAddress, podVars, reap, restarts>>
-----------------------------------------------------------------------------
(* Taps, the idle reaper, the cluster and restarts.                        *)

(* The router taps an address it has used.                                 *)
TapService(p) ==
    LET f == byAddress[p] IN
    /\ f # None
    /\ byFunction[f] \in idle
    /\ idle' = idle \ {byFunction[f]}
    /\ UNCHANGED <<reqVars, byFunction, byAddress, podVars, reap, restarts>>

(* A cached service has not been used for the idle timeout.                *)
BecomeIdle(p) ==
    /\ p \notin idle
    /\ \E f \in Fn : byFunction[f] = p
    /\ idle' = idle \cup {p}
    /\ UNCHANGED <<reqVars, byFunction, byAddress, podVars, reap, restarts>>

ReapGoto(p, s) == reap' = [reap EXCEPT ![p] = s]

(* idleObjectReaper lists the cache and starts a goroutine per old service.*)
ReapList(p) ==
    /\ reap[p] = "no"
    /\ p \in idle
    /\ \E f \in Fn : byFunction[f] = p
    /\ ReapGoto(p, "listed")
    /\ UNCHANGED <<reqVars, cacheVars, podVars, restarts>>

(* DeleteOld looks at Atime once more, then deletes the entry.             *)
ReapCheck(p) ==
    /\ reap[p] = "listed"
    /\ ReapGoto(p, IF p \in idle THEN "evict" ELSE "no")
    /\ UNCHANGED <<reqVars, cacheVars, podVars, restarts>>

ReapEvictFunction(p) ==
    /\ reap[p] = "evict"
    /\ byFunction' = [byFunction EXCEPT ![podFn[p]] = None]
    /\ ReapGoto(p, "evictAddress")
    /\ UNCHANGED <<reqVars, byAddress, idle, podVars, restarts>>

ReapEvictAddress(p) ==
    /\ reap[p] = "evictAddress"
    /\ byAddress' = [byAddress EXCEPT ![p] = None]
    /\ ReapGoto(p, "kill")
    /\ UNCHANGED <<reqVars, byFunction, idle, podVars, restarts>>

(* CleanupKubeObject deletes the pod; an error is only logged.             *)
ReapKill(p) ==
    /\ reap[p] = "kill"
    /\ \/ podState' = [podState EXCEPT ![p] = "dead"]
       \/ UNCHANGED podState
    /\ ReapGoto(p, "no")
    /\ UNCHANGED <<reqVars, cacheVars, podFn, annotated, restarts>>

(* A pod fails, or is deleted by somebody else.                            *)
PodDies(p) ==
    /\ podState[p] \in {"chosen", "live"}
    /\ podState' = [podState EXCEPT ![p] = "dead"]
    /\ UNCHANGED <<reqVars, cacheVars, podFn, annotated, reap, restarts>>

(* The process stops: memory is lost and requests in flight fail.          *)
LoseMemory ==
    /\ restarts < MaxRestarts
    /\ restarts' = restarts + 1
    /\ pc' = [r \in Req |-> IF pc[r] = "idle" THEN "idle" ELSE "answered"]
    /\ result' = [r \in Req |-> IF pc[r] \in {"idle", "answered"}
                                THEN result[r] ELSE Failed]
    /\ fsCreateWg' = [f \in Fn |-> None]
    /\ idle' = {}
    /\ reap' = [p \in Pod |-> "no"]
    /\ UNCHANGED <<fn, pod, existing, waitsOn, podFn, annotated>>

(* Start without adoption: CleanupOldExecutorObjects deletes the pods with *)
(* the instance id of another executor, that is all that were chosen.      *)
RestartAndCleanUp ==
    /\ LoseMemory
    /\ byFunction' = [f \in Fn |-> None]
    /\ byAddress' = [p \in Pod |-> None]
    /\ podState' = [p \in Pod |-> IF podState[p] \in {"chosen", "live"}
                                  THEN "dead" ELSE podState[p]]

(* Start with adoption: every ready pod gets the new instance id and so    *)
(* survives the clean-up; those with all annotations are added to the      *)
(* cache, where the first one for a function wins.                         *)
RestartAndAdopt ==
    LET adoptable == {p \in annotated : podState[p] = "live"} IN
    /\ LoseMemory
    /\ byFunction' \in [Fn -> adoptable \cup {None}]
    /\ \A f \in Fn :
         IF \E p \in adoptable : podFn[p] = f
         THEN byFunction'[f] \in {p \in adoptable : podFn[p] = f}
         ELSE byFunction'[f] = None
    /\ byAddress' = [p \in Pod |-> IF \E f \in Fn : byFunction'[f] = p
                                   THEN podFn[p] ELSE None]
    /\ UNCHANGED podState
-----------------------------------------------------------------------------
Handler(r) ==
    \/ Lookup(r) \/ Validate(r) \/ EvictFunction(r) \/ EvictAddress(r)
    \/ WaitDone(r)

Creator(r) ==
    \/ \E p \in Pod : ChoosePod(r, p)
    \/ ChooseFails(r)
    \/ SpecializePod(r) \/ SpecializeFails(r)
    \/ AddFunction(r) \/ AddAddress(r) \/ AddTouches(r)
    \/ DeleteWg(r) \/ Signal(r)

Reaper(p) ==
    \/ ReapList(p) \/ ReapCheck(p)
    \/ ReapEvictFunction(p) \/ ReapEvictAddress(p) \/ ReapKill(p)

Next ==
    \/ \E r \in Req : Handler(r) \/ Serve(r) \/ Creator(r)
    \/ \E p \in Pod : Reaper(p) \/ TapService(p) \/ BecomeIdle(p) \/ PodDies(p)
    \/ RestartAndCleanUp
    \/ RestartAndAdopt

Spec == Init /\ [][Next]_vars

(* Goroutines are scheduled and the calls a creation makes return, with a  *)
(* result or an error: the context bounds the specialization.              *)
Fairness == \A r \in Req : WF_vars(Handler(r) \/ Serve(r) \/ Creator(r))

FairSpec == Spec /\ Fairness
-----------------------------------------------------------------------------
(* The map of WaitGroups holds exactly the creations in progress, so that  *)
(* for each function at most one goroutine specializes a pod at a time,    *)
(* and a waiter waits for a request for its own function.                  *)
CreationRecorded ==
    /\ \A r \in Req : pc[r] \in Creating \cup {"delete"} <=> fsCreateWg[fn[r]] = r
    /\ \A f \in Fn : fsCreateWg[f] # None => fn[fsCreateWg[f]] = f
    /\ \A r \in Req : pc[r] = "wait" => waitsOn[r] \in Req /\ fn[waitsOn[r]] = fn[r]

(* The address answered to a request, from the cache, from a creation or   *)
(* after a wait, is that of a pod specialized for the request's function.  *)
AnswersOwnFunction ==
    \A r \in Req : result[r] \in Pod => podFn[result[r]] = fn[r]

(* The idle reaper takes a service out of the cache before it deletes the  *)
(* pod, and no creation or adoption puts it back in between.               *)
EvictedBeforeKilled ==
    \A p \in Pod : reap[p] \in {"evictAddress", "kill"} =>
        \A f \in Fn : byFunction[f] # p

(* What the two properties above rest on.  A warm pod has no function      *)
(* label; a cached pod is labelled with the function it is cached for; so  *)
(* is the pod a request has in hand; a pod that is still to be added is    *)
(* neither cached nor known to the reaper.                                 *)
WarmUnlabelled ==
    \A p \in Pod : podState[p] = "warm" => podFn[p] = None /\ reap[p] = "no"

CachedForItsFunction ==
    \A f \in Fn : byFunction[f] \in Pod => podFn[byFunction[f]] = f

PodInHand ==
    \A r \in Req :
        /\ pc[r] \in {"validate", "evict", "evictAddress", "specialize",
                      "add", "addAddress", "touch"} =>
             pod[r] \in Pod /\ podFn[pod[r]] = fn[r]
        /\ pc[r] \in {"specialize", "add"} =>
             reap[pod[r]] = "no" /\ byFunction[fn[r]] # pod[r]

ReapedIsLabelled ==
    \A p \in Pod : reap[p] # "no" => podFn[p] \in Fn

IInv ==
    /\ TypeOK
    /\ CreationRecorded
    /\ WarmUnlabelled
    /\ CachedForItsFunction
    /\ PodInHand
    /\ ReapedIsLabelled
    /\ AnswersOwnFunction
    /\ EvictedBeforeKilled

(* A request that misses the cache is answered, whether or not the         *)
(* creation it starts or waits for succeeds.                               *)
EveryRequestAnswered ==
    \A r \in Req : pc[r] = "send" ~> pc[r] = "answered"

(* The requests whose goroutines are creating a service, per function.     *)
Running == [f \in Fn |-> {r \in Req : fn[r] = f /\ pc[r] \in Creating}]

Flight == INSTANCE SingleFlight WITH
    Worker <- Req, Key <- Fn, running <- Running

(* The executor is a single flight of creations per function: whatever the *)
(* interleaving, a creation starts only when the function has none, and    *)
(* creations for different functions do not hold each other up.            *)
FlightSpec == Flight!Spec

(* The comment on serveCreateFuncServices: for a given function only one   *)
(* request causes a pod to get specialized. Stated for behaviours in which *)
(* no pod dies and nothing is reaped or restarted. The code does not keep  *)
(* it: a creation may end between a request's lookup and its turn in the   *)
(* serve loop. No run checks it.                                           *)
OnePodPerFunction ==
    \A p, q \in Pod : podState[p] = "live" /\ podState[q] = "live"
                      /\ podFn[p] = podFn[q] /\ restarts = 0
                      /\ (\A x \in Pod : podState[x] # "dead" /\ reap[x] = "no")
                      => p = q

=============================================================================
