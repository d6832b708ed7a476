------------------------------ MODULE Triggers ------------------------------
(***************************************************************************)
(* pkg/router: httpTriggers.go, functionReferenceResolver.go,              *)
(* mutablemux.go and ingress.go.  Two informers keep stores of HTTP        *)
(* triggers and of functions and ask, over a channel, for a new routing    *)
(* table.  One goroutine builds it: it resolves the function reference of  *)
(* every trigger, by way of a cache, and puts the table in place.          *)
(* Ingresses are changed by one goroutine for each event.                  *)
(*                                                                         *)
(* A version is a number that no other object or change has had.           *)
(***************************************************************************)
EXTENDS Integers, Sequences, FiniteSets

CONSTANTS
    Fn, Trigger,   \* names of functions and of HTTP triggers
    Capacity,      \* of updateRouterRequestChannel
    MaxEdits,      \* bound on changes by users
    MaxWeight,     \* the largest weight of a function in a trigger
    None           \* "no object"

ASSUME BoundAssumption ==
    Capacity \in Nat \ {0} /\ MaxEdits \in Nat /\ MaxWeight \in Nat

VARIABLES
    fn, trigger,          \* the objects: versions of functions (0: none), triggers
    fnEvents, trEvents,   \* events on their way to the informers
    fnStore, trStore,     \* the stores of the informers
    fnSends, trSends,     \* the informer's handler is to send a request
    channel,              \* the number of requests in the channel
    refCache,             \* the resolver's cache: trigger and version -> functions
    build,                \* the table that updateRouter is building
    table,                \* the table in use
    ingress,              \* version of the trigger that the ingress is made from
    ingressOps,           \* the goroutines that change ingresses
    edits,
    raced                 \* what has been overtaken: results, ingresses

apiVars == <<fn, trigger, edits>>
informerVars == <<fnEvents, trEvents, fnStore, trStore, fnSends, trSends, channel>>
routerVars == <<refCache, build, table>>
ingressVars == <<ingress, ingressOps>>
vars == <<apiVars, informerVars, routerVars, ingressVars, raced>>

Version == 0 .. MaxEdits + 1

TriggerObject == [version : Version, refs : SUBSET Fn \ {{}}, createIngress : BOOLEAN]

(* What a reference is resolved to: functions with their versions.         *)
Resolved == UNION {[s -> Version] : s \in SUBSET Fn}

Table == [routes : UNION {[s -> Resolved] : s \in SUBSET Trigger},
          functions : [Fn -> Version]]

Key == Trigger \X Version

NoFunctions == [s \in {} |-> 0]

TypeOK ==
    /\ fn \in [Fn -> Version] /\ fnStore \in [Fn -> Version]
    /\ trigger \in [Trigger -> TriggerObject \cup {None}]
    /\ trStore \in [Trigger -> TriggerObject \cup {None}]
    /\ fnEvents \in Seq(Fn \X Version)
    /\ trEvents \in Seq(Trigger \X (TriggerObject \cup {None}))
    /\ fnSends \in BOOLEAN /\ trSends \in BOOLEAN
    /\ channel \in 0 .. Capacity
    /\ DOMAIN refCache \subseteq Key
    /\ \A k \in DOMAIN refCache : refCache[k] \in Resolved
    /\ build.pc \in {"receive", "resolve", "cache"}
    /\ build.todo \subseteq Trigger
    /\ build.table \in Table /\ table \in Table
    /\ ingress \in [Trigger -> Version]
    /\ edits \in 0 .. MaxEdits
    /\ raced \subseteq {"result", "ingress"}

EmptyTable == [routes |-> [t \in {} |-> NoFunctions], functions |-> [f \in Fn |-> 0]]

Idle == [pc |-> "receive", triggers |-> [t \in Trigger |-> None], todo |-> {},
         found |-> <<>>, table |-> EmptyTable]

(* makeHTTPTriggerSet and subscribeRouter.  What exists already is listed  *)
(* by the informers as additions, and there is a first request.            *)
Init ==
    /\ LET f == CHOOSE g \in Fn : TRUE
           t == CHOOSE u \in Trigger : TRUE IN
       /\ fn = [g \in Fn |-> IF g = f THEN 1 ELSE 0]
       /\ trigger = [u \in Trigger |-> IF u = t
                       THEN [version |-> 1, refs |-> {f}, createIngress |-> TRUE]
                       ELSE None]
       /\ fnEvents = << <<f, 1>> >>
       /\ trEvents = << <<t, trigger[t]>> >>
    /\ fnStore = [f \in Fn |-> 0] /\ trStore = [t \in Trigger |-> None]
    /\ fnSends = FALSE /\ trSends = FALSE
    /\ channel = 1
    /\ refCache = [k \in {} |-> NoFunctions]
    /\ build = Idle /\ table = EmptyTable
    /\ ingress = [t \in Trigger |-> 0] /\ ingressOps = {}
    /\ edits = 0 /\ raced = {}
-----------------------------------------------------------------------------
(* The resolver.                                                           *)
KeyOf(t, object) == <<t, object.version>>

(* resolveByName and resolveByFunctionWeights need every function to be    *)
(* in the store.                                                           *)
Resolvable(object) == \A f \in object.refs : fnStore[f] # 0

Resolve(object) == [f \in object.refs |-> fnStore[f]]

(* Results in a cache that have another version of f than v.               *)
Outdated(cache, f, v) ==
    {k \in DOMAIN cache : f \in DOMAIN cache[k] /\ cache[k][f] # v}

Without(function, x) == [y \in DOMAIN function \ {x} |-> function[y]]

With(function, x, value) ==
    [y \in DOMAIN function \cup {x} |-> IF y = x THEN value ELSE function[y]]
-----------------------------------------------------------------------------
(* syncTriggers: a handler waits while the channel is full.                *)
SyncTriggers(waits) ==
    IF channel < Capacity THEN channel' = channel + 1 /\ ~waits
    ELSE UNCHANGED channel /\ waits

(* Faulty: the handler of updates leaves the cache alone.                  *)
FunctionEventKeepsResults ==
    LET f == fnEvents[1][1]
        v == fnEvents[1][2] IN
    /\ fnEvents # <<>> /\ ~fnSends
    /\ fnEvents' = Tail(fnEvents)
    /\ fnStore' = [fnStore EXCEPT ![f] = v]
    /\ \E waits \in BOOLEAN : SyncTriggers(waits) /\ fnSends' = waits
    /\ UNCHANGED <<apiVars, trEvents, trStore, trSends, routerVars, ingressVars, raced>>

(* initFunctionController: an event reaches the store and its handler.     *)
(* The handler of updates removes ONE outdated result from the cache; the  *)
(* handlers of additions and deletions leave the cache alone.              *)
FunctionEvent ==
    LET f == fnEvents[1][1]
        v == fnEvents[1][2]
        outdated == Outdated(refCache, f, v) IN
    /\ fnEvents # <<>> /\ ~fnSends
    /\ fnEvents' = Tail(fnEvents)
    /\ fnStore' = [fnStore EXCEPT ![f] = v]
    /\ IF fnStore[f] # 0 /\ v # 0 /\ outdated # {}
       THEN \E k \in outdated : refCache' = Without(refCache, k)
       ELSE UNCHANGED refCache
    /\ \E waits \in BOOLEAN : SyncTriggers(waits) /\ fnSends' = waits
    /\ raced' = IF build.pc = "cache" \/ Outdated(refCache', f, v) # {}
                THEN raced \cup {"result"} ELSE raced
    /\ UNCHANGED <<apiVars, trEvents, trStore, trSends, build, table, ingressVars>>

(* initTriggerController: the handlers start a goroutine for the ingress.  *)
TriggerEvent ==
    LET t == trEvents[1][1]
        object == trEvents[1][2] IN
    /\ trEvents # <<>> /\ ~trSends
    /\ trEvents' = Tail(trEvents)
    /\ trStore' = [trStore EXCEPT ![t] = object]
    /\ ingressOps' = ingressOps \cup {[name |-> t, old |-> trStore[t], new |-> object]}
    /\ \E waits \in BOOLEAN : SyncTriggers(waits) /\ trSends' = waits
    /\ raced' = IF \E op \in ingressOps : op.name = t
                THEN raced \cup {"ingress"} ELSE raced
    /\ UNCHANGED <<apiVars, fnEvents, fnStore, fnSends, routerVars, ingress>>

(* The channel was full, and is not any more.                              *)
SendLater ==
    /\ channel < Capacity
    /\ channel' = channel + 1
    /\ \/ fnSends /\ fnSends' = FALSE /\ UNCHANGED trSends
       \/ trSends /\ trSends' = FALSE /\ UNCHANGED fnSends
    /\ UNCHANGED <<apiVars, fnEvents, trEvents, fnStore, trStore, routerVars,
                   ingressVars, raced>>
-----------------------------------------------------------------------------
(* updateRouter takes a request and lists both stores.                     *)
UpdateRouter ==
    /\ build.pc = "receive"
    /\ channel > 0
    /\ channel' = channel - 1
    /\ build' = [Idle EXCEPT !.pc = "resolve", !.triggers = trStore,
                   !.todo = {t \in Trigger : trStore[t] # None},
                   !.table.functions = fnStore]
    /\ UNCHANGED <<apiVars, fnEvents, trEvents, fnStore, trStore, fnSends, trSends,
                   refCache, table, ingressVars, raced>>

(* The result is in the cache.                                             *)
Find(t) ==
    LET k == KeyOf(t, build.triggers[t]) IN
    /\ k \in DOMAIN refCache
    /\ build' = [build EXCEPT !.todo = @ \ {t}, !.table.routes = With(@, t, refCache[k])]

(* getRouter resolves a trigger: from the cache, or from the store of      *)
(* functions.  A trigger that cannot be resolved has no route.  The order  *)
(* of the triggers, which is that of a map, does not matter.               *)
ResolveTrigger(t) ==
    LET object == build.triggers[t] IN
    /\ build.pc = "resolve"
    /\ build.todo # {} /\ t = CHOOSE u \in build.todo : TRUE
    /\ \/ Find(t)
       \/ /\ KeyOf(t, object) \notin DOMAIN refCache
          /\ build' = IF Resolvable(object)
                      THEN [build EXCEPT !.pc = "cache", !.found = <<t, Resolve(object)>>]
                      ELSE [build EXCEPT !.todo = @ \ {t}]
    /\ UNCHANGED <<apiVars, informerVars, refCache, table, ingressVars, raced>>

(* The result is put into the cache.                                       *)
CacheResult ==
    LET t == build.found[1] IN
    /\ build.pc = "cache"
    /\ refCache' = With(refCache, KeyOf(t, build.triggers[t]), build.found[2])
    /\ build' = [build EXCEPT !.pc = "resolve", !.todo = @ \ {t}, !.found = <<>>,
                   !.table.routes = With(@, t, build.found[2])]
    /\ UNCHANGED <<apiVars, informerVars, table, ingressVars, raced>>

(* mutableRouter.updateRouter: the table is replaced as a whole.           *)
ReplaceTable ==
    /\ build.pc = "resolve"
    /\ build.todo = {}
    /\ table' = build.table
    /\ build' = Idle
    /\ UNCHANGED <<apiVars, informerVars, refCache, ingressVars, raced>>

(* A result has been in the cache for a minute.                            *)
ResultExpires(k) ==
    /\ refCache' = Without(refCache, k)
    /\ UNCHANGED <<apiVars, informerVars, build, table, ingressVars, raced>>
-----------------------------------------------------------------------------
(* resolveByFunctionWeights: the prefix sums of a list of weights.         *)
SumPrefix(weights) ==
    LET sum[i \in DOMAIN weights] == weights[i] + (IF i = 1 THEN 0 ELSE sum[i - 1]) IN
    sum

(* Faulty: a number equal to a prefix sum stays on its left.               *)
FindCeilLeft(number, sums) ==
    LET search[w \in (0 .. Len(sums)) \X (0 .. Len(sums))] ==
          LET low == w[1]
              high == w[2]
              mid == low + high \div 2 IN
          IF low >= high THEN low
          ELSE IF number > sums[mid + 1] THEN search[<<mid + 1, high>>]
          ELSE search[<<low, mid>>]
        low == search[<<0, Len(sums) - 1>>] IN
    IF sums[low + 1] >= number THEN low + 1 ELSE 0

(* findCeil: binary search for the function to which a number belongs; 0   *)
(* if there is none.  The middle is low + high/2, which serves lists of up *)
(* to three functions.                                                     *)
FindCeil(number, sums) ==
    LET search[w \in (0 .. Len(sums)) \X (0 .. Len(sums))] ==
          LET low == w[1]
              high == w[2]
              mid == low + high \div 2 IN
          IF low >= high THEN low
          ELSE IF number >= sums[mid + 1] THEN search[<<mid + 1, high>>]
          ELSE search[<<low, mid>>]
        low == search[<<0, Len(sums) - 1>>] IN
    IF sums[low + 1] >= number THEN low + 1 ELSE 0

(* getCanaryBackend: the numbers that may be drawn.                        *)
Drawn(sums) == 0 .. sums[Len(sums)]
-----------------------------------------------------------------------------
WantsIngress(object) == object # None /\ object.createIngress

(* createIngress leaves an ingress that exists as it is.                   *)
CreateIngress(t, object) ==
    ingress' = [ingress EXCEPT ![t] = IF @ = 0 THEN object.version ELSE @]

DeleteIngress(t) == ingress' = [ingress EXCEPT ![t] = 0]

(* Faulty: an ingress is not deleted when the trigger is updated.          *)
UpdateIngressKeeps(t, old, new) ==
    IF WantsIngress(new)
    THEN ingress' = [ingress EXCEPT ![t] = new.version]
    ELSE IF new = None THEN DeleteIngress(t) ELSE UNCHANGED ingress

(* updateIngress, or createIngress or deleteIngress if one is missing.     *)
UpdateIngress(t, old, new) ==
    CASE ~WantsIngress(old) /\ ~WantsIngress(new) -> UNCHANGED ingress
      [] ~WantsIngress(old) /\ WantsIngress(new) -> CreateIngress(t, new)
      [] WantsIngress(old) /\ ~WantsIngress(new) -> DeleteIngress(t)
      [] OTHER -> ingress' = [ingress EXCEPT ![t] = new.version]

(* A goroutine changes an ingress.                                         *)
IngressGoroutine(op) ==
    /\ ingressOps' = ingressOps \ {op}
    /\ UpdateIngress(op.name, op.old, op.new)
    /\ UNCHANGED <<apiVars, informerVars, routerVars, raced>>
-----------------------------------------------------------------------------
(* A user creates, changes or deletes a function or a trigger.             *)
EditFunction(f) ==
    /\ edits < MaxEdits
    /\ edits' = edits + 1
    /\ \E v \in {0, edits + 2} \ {fn[f]} :
         /\ fn' = [fn EXCEPT ![f] = v]
         /\ fnEvents' = Append(fnEvents, <<f, v>>)
    /\ UNCHANGED <<trigger, trEvents, fnStore, trStore, fnSends, trSends, channel,
                   routerVars, ingressVars, raced>>

EditTrigger(t) ==
    /\ edits < MaxEdits
    /\ edits' = edits + 1
    /\ \E object \in [version : {edits + 2}, refs : SUBSET Fn \ {{}},
                      createIngress : BOOLEAN] \cup {None} :
         /\ IF trigger[t] = None THEN object # None /\ ~object.createIngress
            ELSE object # None => (object.refs = trigger[t].refs
                                   <=> object.createIngress # trigger[t].createIngress)
         /\ trigger' = [trigger EXCEPT ![t] = object]
         /\ trEvents' = Append(trEvents, <<t, object>>)
    /\ UNCHANGED <<fn, fnEvents, fnStore, trStore, fnSends, trSends, channel,
                   routerVars, ingressVars, raced>>

Informers == FunctionEvent \/ TriggerEvent \/ SendLater

Builder == UpdateRouter \/ (\E t \in Trigger : ResolveTrigger(t)) \/ CacheResult \/ ReplaceTable

Next ==
    \/ Informers
    \/ Builder
    \/ \E k \in DOMAIN refCache : ResultExpires(k)
    \/ \E op \in ingressOps : IngressGoroutine(op)
    \/ \E f \in Fn : EditFunction(f)
    \/ \E t \in Trigger : EditTrigger(t)

Spec == Init /\ [][Next]_vars

(* The informers' goroutines, that of updateRouter and those of ingresses  *)
(* run.                                                                    *)
Fairness ==
    /\ WF_vars(FunctionEvent) /\ WF_vars(TriggerEvent) /\ WF_vars(SendLater)
    /\ WF_vars(Builder)
    /\ WF_vars(\E op \in ingressOps : IngressGoroutine(op))

FairSpec == Spec /\ Fairness
-----------------------------------------------------------------------------
(* A trigger that is deleted has no route, and one whose functions exist   *)
(* has a route to the functions it names now, not to those it named before.*)
RoutesOfTriggers ==
    \A t \in Trigger :
        /\ trigger[t] = None => t \notin DOMAIN table.routes
        /\ trigger[t] # None /\ (\A f \in trigger[t].refs : fn[f] # 0) =>
             t \in DOMAIN table.routes /\ DOMAIN table.routes[t] = trigger[t].refs

(* The routes of triggers lead to the present versions of their functions. *)
RoutesOfFunctions ==
    \A t \in DOMAIN table.routes :
        \A f \in DOMAIN table.routes[t] : table.routes[t][f] = fn[f]

(* Every change of a trigger reaches the table in the end, although        *)
(* results are kept in a cache and requests for a table pile up in the     *)
(* channel.  The internal routes, which the other kinds of triggers use    *)
(* and which do not go through the cache, lead to the functions there are. *)
(* So do the routes of triggers, if no function was changed while it was   *)
(* being resolved, and no change of a function left an outdated result in  *)
(* the cache (an update removes one, a deletion none).                     *)
RoutesFollow ==
    <>[](/\ RoutesOfTriggers
         /\ table.functions = fn
         /\ "result" \notin raced => RoutesOfFunctions)

(* A request to a trigger with weights goes to the function in whose share *)
(* the number drawn lies, in whatever order the weights were listed: every *)
(* function of the route is chosen for as many numbers as its weight says, *)
(* except the last one, which gets one more (also if its weight is zero,   *)
(* since the draw includes the sum).                                       *)
CanaryShares ==
    \A t \in DOMAIN table.routes :
    \A weights \in [1 .. Cardinality(DOMAIN table.routes[t]) -> 0 .. MaxWeight] :
        LET sums == SumPrefix(weights)
            share(i) == {x \in Drawn(sums) : FindCeil(x, sums) = i} IN
        \A i \in DOMAIN weights :
            share(i) = {x \in Drawn(sums) : sums[i] - weights[i] <= x /\ x < sums[i]}
                       \cup (IF i = Len(weights) THEN {sums[i]} ELSE {})

(* The ingress of a trigger follows it, if none of its goroutines was      *)
(* started before the one before it had ended.                             *)
IngressFollows ==
    <>[]("ingress" \notin raced => \A t \in Trigger :
           ingress[t] = IF WantsIngress(trigger[t]) THEN trigger[t].version ELSE 0)

(* The comment in the handler of updates: the resolver's cache is brought  *)
(* up to date. No result that the handler could see is older than the      *)
(* function it was called for. The code does not keep it: the loop ends    *)
(* after one outdated result. No run checks it.                            *)
UpdateInvalidates ==
    [][\A f \in Fn : fnStore[f] # 0 /\ fnStore'[f] \notin {0, fnStore[f]} =>
         Outdated(refCache', f, fnStore'[f]) = {}]_vars
=============================================================================
