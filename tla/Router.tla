------------------------------- MODULE Router -------------------------------
(***************************************************************************)
(* pkg/router, functionHandler.go: RetryingRoundTripper.RoundTrip forwards *)
(* a request to the address of its function.  The address comes from the   *)
(* router's map (functionServiceMap, a cache whose entries expire) or,     *)
(* through the throttler, from the executor; it is retried, kept or        *)
(* dropped depending on the error that the transport returns.              *)
(*                                                                         *)
(* Every execution of getServiceEntry that misses the map is one call of   *)
(* the throttler's RunOnce, identified here by the request and the round   *)
(* of its retry loop.  The throttler is module Throttler itself.           *)
(*                                                                         *)
(* The executor is external: it answers a live address of the function or  *)
(* an error, within the 30 seconds of the call's context.  Back-off times  *)
(* are left out: between two steps of a request anything may happen.       *)
(***************************************************************************)
EXTENDS Naturals

CONSTANTS
    Req,                \* requests to the router
    Fn,                 \* functions (name, namespace and resource version)
    Url,                \* addresses the executor can answer
    MaxRetries,         \* ROUTER_ROUND_TRIP_MAX_RETRIES
    MaxFaults,          \* bound on the number of disturbances
    SvcAddrRetryCount,  \* ROUTER_SVC_ADDRESS_MAX_RETRIES
    None,               \* no address
    NoLock              \* no entry in the throttler's table

ASSUME RetryAssumption ==
    /\ MaxRetries \in Nat \ {0}
    /\ SvcAddrRetryCount \in Nat
    /\ MaxFaults \in Nat

Call == Req \X (0 .. MaxRetries - 1)

ASSUME NamesAssumption == None \notin Url \cup Fn /\ NoLock \notin Call

VARIABLES
    locks, wg, old, callPc, key, lock,  \* the throttler
    fmap,          \* fmap[f]: the address cached for function f
    expired,       \* functions whose entry is older than the expiry time
    fn,            \* fn[r]: the function of request r
    pc,            \* pc[r]: where request r is in RoundTrip
    round,         \* round[r]: the loop variable i
    retryCounter,  \* retryCounter[r]: dial timeouts of the address in use
    serviceUrl,    \* serviceUrl[r]: the address in use
    urlFromCache,  \* urlFromCache[r]: the flag returned by getServiceEntry
    live,          \* addresses that have a running pod
    owner,         \* owner[u]: the function that address u serves
    faults,        \* how often something failed, died, expired or became old
    fromMap        \* requests whose address was read from the map

thrVars == <<locks, wg, old, callPc, key, lock>>
mapVars == <<fmap, expired>>
reqVars == <<fn, pc, round, retryCounter, serviceUrl, urlFromCache, fromMap>>
podVars == <<live, owner>>
vars == <<thrVars, mapVars, reqVars, podVars, faults>>

Thr == INSTANCE Throttler WITH Key <- Fn, pc <- callPc

LoopTypeOK ==
    /\ fmap \in [Fn -> Url \cup {None}]
    /\ expired \subseteq Fn
    /\ fn \in [Req -> Fn]
    /\ pc \in [Req -> {"entry", "runOnce", "assign", "forward", "ok", "failed"}]
    /\ round \in [Req -> 0 .. MaxRetries]
    /\ retryCounter \in [Req -> 0 .. SvcAddrRetryCount]
    /\ serviceUrl \in [Req -> Url \cup {None}]
    /\ urlFromCache \in [Req -> BOOLEAN]
    /\ live \subseteq Url
    /\ owner \in [Url -> Fn \cup {None}]
    /\ faults \in 0 .. MaxFaults
    /\ fromMap \subseteq Req

(* Types of the throttler's variables and of the retry loop's.             *)
TypeOK == Thr!TypeOK /\ LoopTypeOK

Init ==
    /\ fn \in [Req -> Fn]
    /\ Thr!Init
    /\ key = [c \in Call |-> fn[c[1]]]
    /\ fmap = [f \in Fn |-> None]
    /\ expired = {}
    /\ pc = [r \in Req |-> "entry"]
    /\ round = [r \in Req |-> 0]
    /\ retryCounter = [r \in Req |-> 0]
    /\ serviceUrl = [r \in Req |-> None]
    /\ urlFromCache = [r \in Req |-> FALSE]
    /\ live = Url
    /\ owner = [u \in Url |-> None]
    /\ faults = 0
    /\ fromMap = {}
-----------------------------------------------------------------------------
CurrentCall(r) == <<r, round[r]>>

Goto(r, s) == pc' = [pc EXCEPT ![r] = s]

Use(r, u, cached) ==
    /\ serviceUrl' = [serviceUrl EXCEPT ![r] = u]
    /\ urlFromCache' = [urlFromCache EXCEPT ![r] = cached]

(* Something outside the router goes wrong.                                *)
Disturbance ==
    /\ faults < MaxFaults
    /\ faults' = faults + 1

(* An error that has a cause already is not a new disturbance.             *)
DisturbanceUnless(caused) == IF caused THEN UNCHANGED faults ELSE Disturbance

(* The loop's next round: a new address is sought when the counter is 0.   *)
NextRound(r, counter) ==
    /\ round' = [round EXCEPT ![r] = round[r] + 1]
    /\ retryCounter' = [retryCounter EXCEPT ![r] = counter]
    /\ Goto(r, IF round[r] + 1 >= MaxRetries THEN "failed"
               ELSE IF counter = 0 THEN "entry" ELSE "forward")

(* fmap.lookup: an expired entry is not found, and is deleted.             *)
Found(f) == fmap[f] # None /\ f \notin expired

DropExpired(f) ==
    /\ fmap' = IF f \in expired THEN [fmap EXCEPT ![f] = None] ELSE fmap
    /\ expired' = expired \ {f}

(* getServiceEntry, cache hit.                                             *)
EntryCached(r) ==
    /\ pc[r] = "entry"
    /\ Found(fn[r])
    /\ Use(r, fmap[fn[r]], TRUE)
    /\ fromMap' = fromMap \cup {r}
    /\ Goto(r, "forward")
    /\ UNCHANGED <<thrVars, mapVars, fn, round, retryCounter, podVars, faults>>

(* getServiceEntry, cache miss: RunOnce is called.                         *)
EntryMissing(r) ==
    /\ pc[r] = "entry"
    /\ ~Found(fn[r])
    /\ DropExpired(fn[r])
    /\ Goto(r, "runOnce")
    /\ UNCHANGED <<thrVars, fn, round, retryCounter, serviceUrl, urlFromCache, fromMap,
                   podVars, faults>>

(* The steps of RunOnce before the callback.                               *)
RunOnceBegins(r) ==
    /\ pc[r] = "runOnce"
    /\ \/ Thr!GetShared(CurrentCall(r))
       \/ Thr!GetFirst(CurrentCall(r))
       \/ Thr!WaitReleased(CurrentCall(r))
    /\ UNCHANGED <<mapVars, reqVars, podVars, faults>>

(* Faulty: after a wait that timed out the DELETE is sent all the same.    *)
RunOnceFailsWithDelete(r) ==
    /\ pc[r] = "runOnce"
    /\ callPc[CurrentCall(r)] = "waiting"
    /\ lock[CurrentCall(r)] \in old
    /\ callPc' = [callPc EXCEPT ![CurrentCall(r)] = "deleting"]
    /\ Goto(r, "failed")
    /\ UNCHANGED <<locks, wg, old, key, lock, mapVars, fn, round, retryCounter,
                   serviceUrl, urlFromCache, fromMap, podVars, faults>>

(* The wait for another goroutine's callback times out: an error.          *)
RunOnceFails(r) ==
    /\ pc[r] = "runOnce"
    /\ Thr!WaitTimeout(CurrentCall(r))
    /\ Goto(r, "failed")
    /\ UNCHANGED <<mapVars, fn, round, retryCounter, serviceUrl, urlFromCache, fromMap,
                   podVars, faults>>

Available(f, u) == u \in live /\ owner[u] \in {None, f}

(* The callback of the first goroutine: the executor answers an address... *)
ExecutorAnswers(r, u) ==
    /\ pc[r] = "runOnce"
    /\ callPc[CurrentCall(r)] = "first"
    /\ Available(fn[r], u)
    /\ owner' = [owner EXCEPT ![u] = fn[r]]
    /\ serviceUrl' = [serviceUrl EXCEPT ![r] = u]
    /\ Goto(r, "assign")
    /\ UNCHANGED <<thrVars, mapVars, fn, round, retryCounter, urlFromCache, fromMap, live,
                   faults>>

(* ... or an error.                                                        *)
ExecutorFails(r) ==
    /\ pc[r] = "runOnce"
    /\ callPc[CurrentCall(r)] = "first"
    /\ Thr!CallbackReturns(CurrentCall(r))
    /\ DisturbanceUnless(\A u \in Url : ~Available(fn[r], u))
    /\ Goto(r, "failed")
    /\ UNCHANGED <<mapVars, fn, round, retryCounter, serviceUrl, urlFromCache, fromMap,
                   podVars>>

(* Faulty: an address that is already in the map is taken for an error.    *)
AssignRefusesSecond(r) ==
    /\ pc[r] = "assign"
    /\ fmap' = [fmap EXCEPT ![fn[r]] = IF @ = None THEN serviceUrl[r] ELSE @]
    /\ Use(r, serviceUrl[r], TRUE)
    /\ Thr!CallbackReturns(CurrentCall(r))
    /\ Goto(r, IF fmap[fn[r]] = None THEN "forward" ELSE "failed")
    /\ fromMap' = fromMap \ {r}
    /\ UNCHANGED <<expired, fn, round, retryCounter, podVars, faults>>

(* Faulty: the map's key leaves out the function's name.                   *)
AssignWithoutName(r) ==
    /\ pc[r] = "assign"
    /\ fmap' = [f \in Fn |-> IF fmap[f] = None THEN serviceUrl[r] ELSE fmap[f]]
    /\ Use(r, serviceUrl[r], TRUE)
    /\ Thr!CallbackReturns(CurrentCall(r))
    /\ Goto(r, "forward")
    /\ fromMap' = fromMap \ {r}
    /\ UNCHANGED <<expired, fn, round, retryCounter, podVars, faults>>

(* fmap.assign keeps the address that is in the map, even an expired one,  *)
(* and the callback returns.  The record says fromCache, though the        *)
(* address comes from the executor.                                        *)
Assign(r) ==
    /\ pc[r] = "assign"
    /\ fmap' = [fmap EXCEPT ![fn[r]] = IF @ = None THEN serviceUrl[r] ELSE @]
    /\ Use(r, serviceUrl[r], TRUE)
    /\ Thr!CallbackReturns(CurrentCall(r))
    /\ Goto(r, "forward")
    /\ fromMap' = fromMap \ {r}
    /\ UNCHANGED <<expired, fn, round, retryCounter, podVars, faults>>

(* Faulty: a follower that finds nothing does not start another round.     *)
FollowerGivesNoRound(r) ==
    /\ pc[r] = "runOnce"
    /\ callPc[CurrentCall(r)] = "follower"
    /\ Found(fn[r])
    /\ Thr!CallbackReturns(CurrentCall(r))
    /\ Use(r, fmap[fn[r]], FALSE)
    /\ fromMap' = fromMap \cup {r}
    /\ Goto(r, "forward")
    /\ UNCHANGED <<mapVars, fn, round, retryCounter, podVars, faults>>

(* The callback of a follower reads the map; when there is no address the  *)
(* request goes on with the next round.                                    *)
FollowerReads(r) ==
    /\ pc[r] = "runOnce"
    /\ callPc[CurrentCall(r)] = "follower"
    /\ Thr!CallbackReturns(CurrentCall(r))
    /\ \/ /\ Found(fn[r])
          /\ Use(r, fmap[fn[r]], FALSE)
          /\ fromMap' = fromMap \cup {r}
          /\ Goto(r, "forward")
          /\ UNCHANGED <<mapVars, round, retryCounter>>
       \/ /\ ~Found(fn[r])
          /\ Use(r, None, FALSE)
          /\ fromMap' = fromMap \ {r}
          /\ DropExpired(fn[r])
          /\ NextRound(r, 0)
    /\ UNCHANGED <<fn, podVars, faults>>

(* The function responds.                                                  *)
ForwardSucceeds(r) ==
    /\ pc[r] = "forward"
    /\ serviceUrl[r] \in live
    /\ Goto(r, "ok")
    /\ UNCHANGED <<thrVars, mapVars, fn, round, retryCounter, serviceUrl, urlFromCache,
                   fromMap, podVars, faults>>

(* An error of the last round, or one that is not a dial error, is         *)
(* relayed.                                                                *)
ForwardRelaysError(r) ==
    /\ pc[r] = "forward"
    /\ DisturbanceUnless(serviceUrl[r] \notin live /\ round[r] = MaxRetries - 1)
    /\ Goto(r, "failed")
    /\ UNCHANGED <<thrVars, mapVars, fn, round, retryCounter, serviceUrl, urlFromCache,
                   fromMap, podVars>>

(* A dial error: the address is given up, and its entry removed if the     *)
(* flag says that it came from the cache, or it is tried again.            *)
DialFails(r) ==
    /\ pc[r] = "forward"
    /\ round[r] < MaxRetries - 1
    /\ DisturbanceUnless(serviceUrl[r] \notin live)
    /\ \/ (* not a timeout, or too many of them *)
          /\ fmap' = IF urlFromCache[r] THEN [fmap EXCEPT ![fn[r]] = None] ELSE fmap
          /\ expired' = IF urlFromCache[r] THEN expired \ {fn[r]} ELSE expired
          /\ NextRound(r, 0)
       \/ (* a timeout *)
          /\ retryCounter[r] < SvcAddrRetryCount
          /\ NextRound(r, retryCounter[r] + 1)
          /\ UNCHANGED mapVars
    /\ UNCHANGED <<thrVars, fn, serviceUrl, urlFromCache, fromMap, podVars>>
-----------------------------------------------------------------------------
(* The throttler's service goroutine handles the DELETE of a call.         *)
ThrottlerDelete(c) ==
    /\ Thr!Delete(c)
    /\ UNCHANGED <<mapVars, reqVars, podVars, faults>>

(* Time passes for a lock, and the throttler expires old ones.             *)
ThrottlerTime ==
    /\ \/ Thr!Expire /\ UNCHANGED faults
       \/ \E c \in Call : Thr!Age(c) /\ Disturbance
    /\ UNCHANGED <<mapVars, reqVars, podVars>>

(* Time passes for an entry of the map...                                  *)
EntryExpires(f) ==
    /\ Found(f)
    /\ expired' = expired \cup {f}
    /\ Disturbance
    /\ UNCHANGED <<thrVars, fmap, reqVars, podVars>>

(* ... and the cache's EXPIRE removes expired entries.                     *)
MapExpire ==
    /\ expired # {}
    /\ fmap' = [f \in Fn |-> IF f \in expired THEN None ELSE fmap[f]]
    /\ expired' = {}
    /\ UNCHANGED <<thrVars, reqVars, podVars, faults>>

(* The pod behind an address goes away.                                    *)
UrlDies(u) ==
    /\ u \in live
    /\ live' = live \ {u}
    /\ Disturbance
    /\ UNCHANGED <<thrVars, mapVars, reqVars, owner>>

RoundTrip(r) ==
    \/ EntryCached(r) \/ EntryMissing(r)
    \/ RunOnceBegins(r) \/ RunOnceFails(r)
    \/ \E u \in Url : ExecutorAnswers(r, u)
    \/ ExecutorFails(r)
    \/ Assign(r) \/ FollowerReads(r)
    \/ ForwardSucceeds(r) \/ ForwardRelaysError(r) \/ DialFails(r)

Next ==
    \/ \E r \in Req : RoundTrip(r)
    \/ \E c \in Call : ThrottlerDelete(c)
    \/ ThrottlerTime
    \/ \E f \in Fn : EntryExpires(f)
    \/ MapExpire
    \/ \E u \in Url : UrlDies(u)

Spec == Init /\ [][Next]_vars

(* Goroutines run: those of the requests, whose calls all have a timeout,  *)
(* and those that send the DELETEs.                                        *)
Fairness ==
    /\ \A r \in Req : WF_vars(RoundTrip(r))
    /\ \A c \in Call : WF_vars(ThrottlerDelete(c))

FairSpec == Spec /\ Fairness
-----------------------------------------------------------------------------
(* A request is forwarded to an address that the executor answered for its *)
(* own function, whichever goroutine put it in the map.                    *)
RightBackend ==
    \A r \in Req : pc[r] \in {"forward", "ok"} => owner[serviceUrl[r]] = fn[r]

(* As long as nothing fails, no request fails: the first goroutine stores  *)
(* the address before its waiters look for it, and a DELETE that comes     *)
(* late and releases somebody else's lock does not make a request run out  *)
(* of rounds.                                                              *)
CalmRequestsSucceed == faults = 0 => \A r \in Req : pc[r] # "failed"

(* The router uses the throttler as it is meant to be used: every step of  *)
(* the router is a step of the throttler or leaves it alone.               *)
ThrottlerSpec == Thr!Spec

(* Every request is answered, with a response or an error, however often   *)
(* addresses go stale and waiters are released early.                      *)
EveryRequestEnds == \A r \in Req : <>(pc[r] \in {"ok", "failed"})

(* The comment on RoundTrip: a request that cannot dial an address from    *)
(* the cache removes the entry before it looks for an address again. The   *)
(* code does not keep it: a follower that read the map counts as one that  *)
(* did not. No run checks it.                                              *)
StaleHitIsRemoved ==
    [][\A r \in fromMap : DialFails(r) /\ pc'[r] = "entry" =>
         fmap'[fn[r]] # serviceUrl[r]]_vars
=============================================================================
