---------------------------- MODULE RouterProofs ----------------------------
(***************************************************************************)
(* The router's retry loop over the throttler, for any number of requests, *)
(* functions, addresses, rounds and disturbances.  That the router uses    *)
(* the throttler as it is meant to be used carries the throttler's own     *)
(* theorems over to it.                                                    *)
(***************************************************************************)
EXTENDS Router, FiniteSetTheorems, TLAPS

ThrP == INSTANCE ThrottlerProofs WITH Key <- Fn, pc <- callPc

(* What the throttler keeps.                                               *)
ThrottlerInv ==
    /\ Thr!TypeOK /\ Thr!LocksAreCreated /\ Thr!LockHasReleaser
    /\ Thr!ReleasedExactlyOnce /\ Thr!FollowerAfterRelease

(* A call of the throttler is for the function of its request.             *)
KeysOK == \A c \in Call : key[c] = fn[c[1]]

(* A request that has not failed has a round left.                         *)
RoundsOK == \A r \in Req : pc[r] # "failed" => round[r] \in 0 .. MaxRetries - 1

(* An address that is kept or in use is one the executor has answered for  *)
(* that function.                                                          *)
AddressesOK ==
    /\ \A f \in Fn : fmap[f] # None => owner[fmap[f]] = f
    /\ \A r \in Req : pc[r] \in {"assign", "forward", "ok"} =>
          serviceUrl[r] \in Url /\ owner[serviceUrl[r]] = fn[r]

RouterInv == ThrottlerInv /\ TypeOK /\ KeysOK /\ RoundsOK /\ AddressesOK

(* While nothing has failed: nothing is old, expired or dead, every        *)
(* request is in its first round, and a function without an entry in the   *)
(* map has only calls that wait for the lock in the table or ask the       *)
(* executor...                                                             *)
CalmCalls ==
    \A c \in Call : fmap[key[c]] = None =>
        /\ callPc[c] \in {"idle", "waiting", "first"}
        /\ callPc[c] = "waiting" => lock[c] = locks[key[c]]

(* ... and an address that was answered is in use by a request, while a    *)
(* request that seeks one has none.                                        *)
CalmAddresses ==
    /\ \A u \in Url : owner[u] # None => \E r \in Req : serviceUrl[r] = u
    /\ \A r \in Req : pc[r] \in {"entry", "runOnce"} => serviceUrl[r] = None

CalmState ==
    /\ old = {} /\ expired = {} /\ live = Url
    /\ \A r \in Req : round[r] = 0 /\ pc[r] # "failed"
    /\ CalmCalls /\ CalmAddresses

Calm == faults = 0 => CalmState

(* The throttler's lemmas, with the router's functions as keys.            *)
LEMMA ThrottlerInvIs == ThrottlerInv <=> ThrP!IInv
BY DEF ThrottlerInv, ThrP!IInv, Thr!TypeOK, ThrP!TypeOK, Thr!CallState, ThrP!CallState,
       Thr!LocksAreCreated, ThrP!LocksAreCreated, Thr!LockHasReleaser, ThrP!LockHasReleaser,
       Thr!ReleasedExactlyOnce, ThrP!ReleasedExactlyOnce, Thr!InTable, ThrP!InTable,
       Thr!FollowerAfterRelease, ThrP!FollowerAfterRelease

LEMMA ThrottlerInvInit == Thr!Init => ThrottlerInv
BY NamesAssumption, ThrP!InitInv, ThrottlerInvIs DEF Thr!Init, ThrP!Init

LEMMA ThrottlerInvNext == ThrottlerInv /\ [Thr!Next]_thrVars => ThrottlerInv'
<1>1. ThrP!IInv /\ [ThrP!Next]_thrVars => ThrP!IInv'
    BY NamesAssumption, ThrP!NextInv DEF thrVars, ThrP!thrVars
<1>2. [Thr!Next]_thrVars => [ThrP!Next]_thrVars
    BY DEF Thr!Next, ThrP!Next, Thr!GetShared, ThrP!GetShared, Thr!GetFirst, ThrP!GetFirst,
       Thr!WaitReleased, ThrP!WaitReleased, Thr!WaitTimeout, ThrP!WaitTimeout,
       Thr!CallbackReturns, ThrP!CallbackReturns, Thr!Delete, ThrP!Delete, Thr!Age, ThrP!Age,
       Thr!Created, ThrP!Created, Thr!Expire, ThrP!Expire
<1>3. ThrottlerInv' <=> ThrP!IInv'
    BY ThrottlerInvIs, PTL
<1> QED
    BY <1>1, <1>2, <1>3, ThrottlerInvIs

-----------------------------------------------------------------------------
(* Refinement: every step of the router is a step of the throttler or      *)
(* leaves it alone.                                                        *)

(* The call of a request that runs is a call of the throttler.             *)
LEMMA CurrentCallIsCall ==
    ASSUME RoundsOK, NEW r \in Req, pc[r] # "failed"
    PROVE  CurrentCall(r) \in Call /\ CurrentCall(r)[1] = r
BY DEF RoundsOK, CurrentCall, Call

LEMMA StepIsThrottlerStep ==
    ASSUME RoundsOK, [Next]_vars
    PROVE  [Thr!Next]_thrVars
<1>1. ASSUME NEW r \in Req, RoundTrip(r)
      PROVE  [Thr!Next]_thrVars
  <2>1. CASE EntryCached(r) \/ EntryMissing(r) \/ (\E u \in Url : ExecutorAnswers(r, u))
             \/ ForwardSucceeds(r) \/ ForwardRelaysError(r) \/ DialFails(r)
      BY <2>1 DEF EntryCached, EntryMissing, ExecutorAnswers, ForwardSucceeds,
         ForwardRelaysError, DialFails
  <2>2. CASE RunOnceBegins(r) \/ RunOnceFails(r) \/ ExecutorFails(r) \/ Assign(r)
             \/ FollowerReads(r)
    <3>1. pc[r] # "failed"
        BY <2>2 DEF RunOnceBegins, RunOnceFails, ExecutorFails, Assign, FollowerReads
    <3>2. CurrentCall(r) \in Call
        BY <3>1, CurrentCallIsCall
    <3>3. \/ Thr!GetShared(CurrentCall(r)) \/ Thr!GetFirst(CurrentCall(r))
          \/ Thr!WaitReleased(CurrentCall(r)) \/ Thr!WaitTimeout(CurrentCall(r))
          \/ Thr!CallbackReturns(CurrentCall(r))
        BY <2>2 DEF RunOnceBegins, RunOnceFails, ExecutorFails, Assign, FollowerReads
    <3> QED
        BY <3>2, <3>3 DEF Thr!Next
  <2> QED
      BY <1>1, <2>1, <2>2 DEF RoundTrip
<1>2. ASSUME NEW c \in Call, ThrottlerDelete(c)
      PROVE  [Thr!Next]_thrVars
    BY <1>2 DEF ThrottlerDelete, Thr!Next
<1>3. CASE ThrottlerTime
    BY <1>3 DEF ThrottlerTime, Thr!Next
<1>4. CASE \/ MapExpire \/ (\E f \in Fn : EntryExpires(f)) \/ (\E u \in Url : UrlDies(u))
           \/ UNCHANGED vars
    BY <1>4 DEF MapExpire, EntryExpires, UrlDies, vars
<1> QED
    BY <1>1, <1>2, <1>3, <1>4 DEF Next

(* No step of the throttler changes what a call is for.                    *)
LEMMA KeysStay == [Thr!Next]_thrVars => UNCHANGED key
BY DEF Thr!Next, Thr!GetShared, Thr!GetFirst, Thr!WaitReleased, Thr!WaitTimeout,
   Thr!CallbackReturns, Thr!Delete, Thr!Age, Thr!Expire, thrVars

-----------------------------------------------------------------------------
(* The invariant.                                                          *)

LEMMA InitRouterInv == Init => RouterInv
<1> SUFFICES ASSUME Init PROVE RouterInv
    OBVIOUS
<1>1. ThrottlerInv
    BY ThrottlerInvInit DEF Init
<1>2. TypeOK
    BY <1>1, RetryAssumption DEF Init, TypeOK, LoopTypeOK, ThrottlerInv
<1>3. KeysOK /\ RoundsOK /\ AddressesOK
    BY RetryAssumption DEF Init, KeysOK, RoundsOK, AddressesOK
<1> QED
    BY <1>1, <1>2, <1>3 DEF RouterInv

(* The parts about the throttler are kept whatever the step.               *)
LEMMA ThrottlerPart ==
    ASSUME RouterInv, [Next]_vars
    PROVE  ThrottlerInv' /\ Thr!TypeOK' /\ UNCHANGED fn /\ KeysOK'
<1>1. [Thr!Next]_thrVars
    BY StepIsThrottlerStep DEF RouterInv
<1>2. ThrottlerInv' /\ Thr!TypeOK'
    BY <1>1, ThrottlerInvNext DEF RouterInv, ThrottlerInv
<1>3. UNCHANGED fn
    BY DEF Next, vars, reqVars, RoundTrip, EntryCached, EntryMissing, RunOnceBegins,
       RunOnceFails, ExecutorAnswers, ExecutorFails, Assign, FollowerReads, ForwardSucceeds,
       ForwardRelaysError, DialFails, ThrottlerDelete, ThrottlerTime, EntryExpires, MapExpire,
       UrlDies
<1> QED
    BY <1>1, <1>2, <1>3, KeysStay DEF RouterInv, KeysOK

(* The parts about the retry loop.                                         *)
LoopInv == LoopTypeOK /\ RoundsOK /\ AddressesOK

LEMMA DisturbanceCounts ==
    ASSUME LoopTypeOK, UNCHANGED faults \/ Disturbance
    PROVE  faults' \in 0 .. MaxFaults
BY RetryAssumption DEF LoopTypeOK, Disturbance

(* A new round, with or without an address.                                *)
LEMMA NextRoundRounds ==
    ASSUME LoopTypeOK, RoundsOK, NEW r \in Req, pc[r] # "failed",
           NEW n \in 0 .. SvcAddrRetryCount, NextRound(r, n)
    PROVE  /\ pc' \in [Req -> {"entry", "runOnce", "assign", "forward", "ok", "failed"}]
           /\ round' \in [Req -> 0 .. MaxRetries]
           /\ retryCounter' \in [Req -> 0 .. SvcAddrRetryCount]
           /\ RoundsOK'
           /\ \A q \in Req : q # r => pc'[q] = pc[q]
           /\ pc'[r] \in {"failed", "entry"} \cup (IF n = 0 THEN {} ELSE {"forward"})
<1>1. round[r] \in 0 .. MaxRetries - 1 /\ MaxRetries \in Nat \ {0}
    BY RetryAssumption DEF RoundsOK
<1>2. /\ round' = [round EXCEPT ![r] = round[r] + 1]
      /\ retryCounter' = [retryCounter EXCEPT ![r] = n]
      /\ pc' = [pc EXCEPT ![r] = IF round[r] + 1 >= MaxRetries THEN "failed"
                                 ELSE IF n = 0 THEN "entry" ELSE "forward"]
    BY DEF NextRound, Goto
<1>3. round[r] + 1 \in 0 .. MaxRetries
    BY <1>1
<1>4. /\ round' \in [Req -> 0 .. MaxRetries]
      /\ retryCounter' \in [Req -> 0 .. SvcAddrRetryCount]
      /\ pc' \in [Req -> {"entry", "runOnce", "assign", "forward", "ok", "failed"}]
    BY <1>2, <1>3 DEF LoopTypeOK
<1>5. \A q \in Req : q # r => pc'[q] = pc[q] /\ round'[q] = round[q]
    BY <1>2 DEF LoopTypeOK
<1>6. round'[r] = round[r] + 1 /\ pc'[r] = (IF round[r] + 1 >= MaxRetries THEN "failed"
                                            ELSE IF n = 0 THEN "entry" ELSE "forward")
    BY <1>2 DEF LoopTypeOK
<1>7. RoundsOK'
    BY <1>1, <1>5, <1>6 DEF RoundsOK
<1> QED
    BY <1>4, <1>5, <1>6, <1>7

LEMMA DropExpiredKeeps ==
    ASSUME LoopTypeOK, NEW f \in Fn, DropExpired(f)
    PROVE  /\ fmap' \in [Fn -> Url \cup {None}] /\ expired' \subseteq Fn
           /\ \A g \in Fn : fmap'[g] # None => fmap'[g] = fmap[g]
BY DEF LoopTypeOK, DropExpired

-----------------------------------------------------------------------------
(* The retry loop's part, action by action.                                *)

LEMMA EntryCachedStep ==
    ASSUME LoopInv, NEW r \in Req, EntryCached(r)
    PROVE  LoopInv'
<1> USE DEF LoopInv
<1>1. /\ UNCHANGED <<fmap, expired, fn, round, retryCounter, live, owner, faults>>
      /\ pc[r] = "entry" /\ fmap[fn[r]] # None
      /\ serviceUrl' = [serviceUrl EXCEPT ![r] = fmap[fn[r]]]
      /\ urlFromCache' = [urlFromCache EXCEPT ![r] = TRUE]
      /\ pc' = [pc EXCEPT ![r] = "forward"] /\ fromMap' = fromMap \cup {r}
    BY DEF EntryCached, mapVars, podVars, Use, Goto, Found
<1>2. fn[r] \in Fn /\ fmap[fn[r]] \in Url /\ owner[fmap[fn[r]]] = fn[r]
    BY <1>1 DEF LoopTypeOK, AddressesOK
<1>3. LoopTypeOK'
    BY <1>1, <1>2 DEF LoopTypeOK
<1>4. RoundsOK'
    BY <1>1 DEF RoundsOK, LoopTypeOK
<1>5. AddressesOK'
    BY <1>1, <1>2 DEF AddressesOK, LoopTypeOK
<1> QED
    BY <1>3, <1>4, <1>5

LEMMA EntryMissingStep ==
    ASSUME LoopInv, NEW r \in Req, EntryMissing(r)
    PROVE  LoopInv'
<1> USE DEF LoopInv
<1>1. /\ UNCHANGED <<fn, round, retryCounter, serviceUrl, urlFromCache, fromMap, live, owner,
                     faults>>
      /\ pc[r] = "entry" /\ DropExpired(fn[r]) /\ pc' = [pc EXCEPT ![r] = "runOnce"]
    BY DEF EntryMissing, podVars, Goto
<1>2. /\ fmap' \in [Fn -> Url \cup {None}] /\ expired' \subseteq Fn
      /\ \A g \in Fn : fmap'[g] # None => fmap'[g] = fmap[g]
    BY <1>1, DropExpiredKeeps DEF LoopTypeOK
<1>3. LoopTypeOK'
    BY <1>1, <1>2 DEF LoopTypeOK
<1>4. RoundsOK'
    BY <1>1 DEF RoundsOK, LoopTypeOK
<1>5. AddressesOK'
    BY <1>1, <1>2 DEF AddressesOK, LoopTypeOK
<1> QED
    BY <1>3, <1>4, <1>5

(* A request that ends, or starts no more than a call of the throttler.    *)
LEMMA EndingStep ==
    ASSUME LoopInv, NEW r \in Req,
           UNCHANGED <<fmap, expired, fn, round, retryCounter, serviceUrl, urlFromCache, fromMap,
                       live, owner>>,
           \/ UNCHANGED pc
           \/ pc' = [pc EXCEPT ![r] = "failed"]
           \/ pc[r] = "forward" /\ pc' = [pc EXCEPT ![r] = "ok"],
           UNCHANGED faults \/ Disturbance
    PROVE  LoopInv'
<1> USE DEF LoopInv
<1>1. faults' \in 0 .. MaxFaults
    BY DisturbanceCounts
<1>2. LoopTypeOK'
    BY <1>1 DEF LoopTypeOK
<1>3. RoundsOK'
    BY DEF RoundsOK, LoopTypeOK
<1>4. AddressesOK'
    BY DEF AddressesOK, LoopTypeOK
<1> QED
    BY <1>2, <1>3, <1>4

(* An address that the executor answers is given to one function for good. *)
LEMMA ExecutorAnswersStep ==
    ASSUME LoopInv, NEW r \in Req, NEW u \in Url, ExecutorAnswers(r, u)
    PROVE  LoopInv'
<1> USE DEF LoopInv
<1>1. /\ UNCHANGED <<fmap, expired, fn, round, retryCounter, urlFromCache, fromMap, live, faults>>
      /\ pc[r] = "runOnce" /\ owner[u] \in {None, fn[r]}
      /\ owner' = [owner EXCEPT ![u] = fn[r]]
      /\ serviceUrl' = [serviceUrl EXCEPT ![r] = u] /\ pc' = [pc EXCEPT ![r] = "assign"]
    BY DEF ExecutorAnswers, mapVars, Available, Goto
<1>2. \A v \in Url : owner[v] # None => owner'[v] = owner[v]
    BY <1>1 DEF LoopTypeOK
<1>3. LoopTypeOK'
    BY <1>1 DEF LoopTypeOK
<1>4. RoundsOK'
    BY <1>1 DEF RoundsOK, LoopTypeOK
<1>5. AddressesOK'
  <2>1. ASSUME NEW f \in Fn, fmap'[f] # None PROVE owner'[fmap'[f]] = f
      BY <1>1, <1>2, <2>1, NamesAssumption DEF AddressesOK, LoopTypeOK
  <2>2. ASSUME NEW q \in Req, pc'[q] \in {"assign", "forward", "ok"}
        PROVE  serviceUrl'[q] \in Url /\ owner'[serviceUrl'[q]] = fn'[q]
    <3>1. CASE q = r
        BY <1>1, <3>1 DEF LoopTypeOK
    <3>2. CASE q # r
      <4>1. serviceUrl[q] \in Url /\ owner[serviceUrl[q]] = fn[q] /\ fn[q] \in Fn
          BY <1>1, <2>2, <3>2 DEF AddressesOK, LoopTypeOK
      <4> QED
          BY <1>1, <1>2, <3>2, <4>1, NamesAssumption DEF LoopTypeOK
    <3> QED
        BY <3>1, <3>2
  <2> QED
      BY <2>1, <2>2 DEF AddressesOK
<1> QED
    BY <1>3, <1>4, <1>5

LEMMA AssignStep ==
    ASSUME LoopInv, NEW r \in Req, Assign(r)
    PROVE  LoopInv'
<1> USE DEF LoopInv
<1> DEFINE u == IF fmap[fn[r]] = None THEN serviceUrl[r] ELSE fmap[fn[r]]
<1>1. /\ UNCHANGED <<expired, fn, round, retryCounter, live, owner, faults>>
      /\ pc[r] = "assign"
      /\ fmap' = [fmap EXCEPT ![fn[r]] = u]
      /\ serviceUrl' = [serviceUrl EXCEPT ![r] = serviceUrl[r]]
      /\ urlFromCache' = [urlFromCache EXCEPT ![r] = TRUE]
      /\ pc' = [pc EXCEPT ![r] = "forward"] /\ fromMap' = fromMap \ {r}
    BY DEF Assign, podVars, Use, Goto
<1>2. fn[r] \in Fn /\ serviceUrl[r] \in Url /\ owner[serviceUrl[r]] = fn[r]
    BY <1>1 DEF LoopTypeOK, AddressesOK
<1>3. u \in Url /\ owner[u] = fn[r]
    BY <1>2 DEF LoopTypeOK, AddressesOK
<1> HIDE DEF u
<1>4. serviceUrl' = serviceUrl
    BY <1>1 DEF LoopTypeOK
<1>5. LoopTypeOK'
    BY <1>1, <1>2, <1>3, <1>4 DEF LoopTypeOK
<1>6. RoundsOK'
    BY <1>1 DEF RoundsOK, LoopTypeOK
<1>7. AddressesOK'
    BY <1>1, <1>2, <1>3, <1>4 DEF AddressesOK, LoopTypeOK
<1> QED
    BY <1>5, <1>6, <1>7

LEMMA FollowerReadsStep ==
    ASSUME LoopInv, NEW r \in Req, FollowerReads(r)
    PROVE  LoopInv'
<1> USE DEF LoopInv
<1>1. pc[r] = "runOnce" /\ UNCHANGED <<fn, live, owner, faults>>
    BY DEF FollowerReads, podVars
<1>2. CASE /\ Found(fn[r]) /\ Use(r, fmap[fn[r]], FALSE) /\ fromMap' = fromMap \cup {r}
           /\ Goto(r, "forward") /\ UNCHANGED <<mapVars, round, retryCounter>>
  <2>1. /\ fn[r] \in Fn /\ fmap[fn[r]] \in Url /\ owner[fmap[fn[r]]] = fn[r]
      BY <1>2 DEF LoopTypeOK, AddressesOK, Found
  <2>2. /\ UNCHANGED <<fmap, expired, round, retryCounter>>
        /\ serviceUrl' = [serviceUrl EXCEPT ![r] = fmap[fn[r]]]
        /\ urlFromCache' = [urlFromCache EXCEPT ![r] = FALSE]
        /\ pc' = [pc EXCEPT ![r] = "forward"]
      BY <1>2 DEF mapVars, Use, Goto
  <2>3. LoopTypeOK'
      BY <1>1, <1>2, <2>1, <2>2 DEF LoopTypeOK
  <2>4. RoundsOK'
      BY <1>1, <2>2 DEF RoundsOK, LoopTypeOK
  <2>5. AddressesOK'
      BY <1>1, <2>1, <2>2 DEF AddressesOK, LoopTypeOK
  <2> QED
      BY <2>3, <2>4, <2>5
<1>3. CASE /\ Use(r, None, FALSE) /\ fromMap' = fromMap \ {r} /\ DropExpired(fn[r])
           /\ NextRound(r, 0)
  <2>1. /\ fmap' \in [Fn -> Url \cup {None}] /\ expired' \subseteq Fn
        /\ \A g \in Fn : fmap'[g] # None => fmap'[g] = fmap[g]
      BY <1>3, DropExpiredKeeps DEF LoopTypeOK
  <2>2. /\ serviceUrl' = [serviceUrl EXCEPT ![r] = None]
        /\ urlFromCache' = [urlFromCache EXCEPT ![r] = FALSE]
      BY <1>3 DEF Use
  <2>3. 0 \in 0 .. SvcAddrRetryCount
      BY RetryAssumption
  <2>4. /\ pc' \in [Req -> {"entry", "runOnce", "assign", "forward", "ok", "failed"}]
        /\ round' \in [Req -> 0 .. MaxRetries]
        /\ retryCounter' \in [Req -> 0 .. SvcAddrRetryCount]
        /\ RoundsOK'
        /\ \A q \in Req : q # r => pc'[q] = pc[q]
        /\ pc'[r] \in {"failed", "entry"}
      BY <1>1, <1>3, <2>3, NextRoundRounds
  <2>5. LoopTypeOK'
      BY <1>1, <1>3, <2>1, <2>2, <2>4 DEF LoopTypeOK
  <2>6. AddressesOK'
      BY <1>1, <2>1, <2>2, <2>4 DEF AddressesOK, LoopTypeOK
  <2> QED
      BY <2>4, <2>5, <2>6
<1> QED
    BY <1>2, <1>3 DEF FollowerReads

LEMMA DialFailsStep ==
    ASSUME LoopInv, NEW r \in Req, DialFails(r)
    PROVE  LoopInv'
<1> USE DEF LoopInv
<1>1. /\ pc[r] = "forward" /\ (UNCHANGED faults \/ Disturbance)
      /\ UNCHANGED <<fn, serviceUrl, urlFromCache, fromMap, live, owner>>
    BY DEF DialFails, podVars, DisturbanceUnless
<1>2. faults' \in 0 .. MaxFaults
    BY <1>1, DisturbanceCounts
<1>3. /\ fmap' \in [Fn -> Url \cup {None}] /\ expired' \subseteq Fn
      /\ \A g \in Fn : fmap'[g] # None => fmap'[g] = fmap[g]
    BY DEF DialFails, mapVars, LoopTypeOK
<1>4. PICK n \in 0 .. SvcAddrRetryCount : NextRound(r, n)
  <2>1. 0 \in 0 .. SvcAddrRetryCount
      BY RetryAssumption
  <2>2. retryCounter[r] < SvcAddrRetryCount => retryCounter[r] + 1 \in 0 .. SvcAddrRetryCount
      BY RetryAssumption DEF LoopTypeOK
  <2> QED
      BY <2>1, <2>2 DEF DialFails
<1>5. /\ pc' \in [Req -> {"entry", "runOnce", "assign", "forward", "ok", "failed"}]
      /\ round' \in [Req -> 0 .. MaxRetries]
      /\ retryCounter' \in [Req -> 0 .. SvcAddrRetryCount]
      /\ RoundsOK'
      /\ \A q \in Req : q # r => pc'[q] = pc[q]
      /\ pc'[r] \in {"failed", "entry", "forward"}
    BY <1>1, <1>4, NextRoundRounds
<1>6. LoopTypeOK'
    BY <1>1, <1>2, <1>3, <1>5 DEF LoopTypeOK
<1>7. AddressesOK'
    BY <1>1, <1>3, <1>5 DEF AddressesOK, LoopTypeOK
<1> QED
    BY <1>5, <1>6, <1>7

(* Time passes for entries and pods.                                       *)
LEMMA OutsideStep ==
    ASSUME LoopInv,
           \/ ThrottlerTime \/ (\E c \in Call : ThrottlerDelete(c)) \/ MapExpire
           \/ (\E f \in Fn : EntryExpires(f)) \/ (\E u \in Url : UrlDies(u)) \/ UNCHANGED vars
    PROVE  LoopInv'
<1> USE DEF LoopInv
<1>1. /\ UNCHANGED <<reqVars, owner>>
      /\ UNCHANGED faults \/ Disturbance
    BY DEF ThrottlerTime, ThrottlerDelete, MapExpire, EntryExpires, UrlDies, podVars, vars
<1>2. UNCHANGED <<fn, pc, round, retryCounter, serviceUrl, urlFromCache, fromMap>>
    BY <1>1 DEF reqVars
<1>3. faults' \in 0 .. MaxFaults
    BY <1>1, DisturbanceCounts
<1>4. /\ fmap' \in [Fn -> Url \cup {None}] /\ expired' \subseteq Fn /\ live' \subseteq Url
      /\ \A g \in Fn : fmap'[g] # None => fmap'[g] = fmap[g]
    BY DEF ThrottlerTime, ThrottlerDelete, MapExpire, EntryExpires, UrlDies, podVars, mapVars,
       vars, LoopTypeOK
<1>5. LoopTypeOK'
    BY <1>1, <1>2, <1>3, <1>4 DEF LoopTypeOK
<1>6. RoundsOK' /\ AddressesOK'
    BY <1>1, <1>2, <1>4 DEF RoundsOK, AddressesOK, LoopTypeOK
<1> QED
    BY <1>5, <1>6

LEMMA NextRouterInv == RouterInv /\ [Next]_vars => RouterInv'
<1> SUFFICES ASSUME RouterInv, [Next]_vars PROVE RouterInv'
    OBVIOUS
<1>1. LoopInv
    BY DEF RouterInv, LoopInv, TypeOK
<1>2. ASSUME NEW r \in Req, RunOnceBegins(r) \/ RunOnceFails(r) \/ ExecutorFails(r)
                            \/ ForwardSucceeds(r) \/ ForwardRelaysError(r)
      PROVE  LoopInv'
  <2>1. /\ UNCHANGED <<fmap, expired, fn, round, retryCounter, serviceUrl, urlFromCache, fromMap,
                       live, owner>>
        /\ \/ UNCHANGED pc
           \/ pc' = [pc EXCEPT ![r] = "failed"]
           \/ pc[r] = "forward" /\ pc' = [pc EXCEPT ![r] = "ok"]
        /\ UNCHANGED faults \/ Disturbance
      BY <1>2 DEF RunOnceBegins, RunOnceFails, ExecutorFails, ForwardSucceeds,
         ForwardRelaysError, mapVars, podVars, reqVars, Goto, DisturbanceUnless
  <2> QED
      BY <1>1, <2>1, EndingStep
<1>3. ASSUME NEW r \in Req, RoundTrip(r)
      PROVE  LoopInv'
    BY <1>1, <1>2, <1>3, EntryCachedStep, EntryMissingStep, ExecutorAnswersStep, AssignStep,
       FollowerReadsStep, DialFailsStep DEF RoundTrip
<1>4. LoopInv'
    BY <1>1, <1>3, OutsideStep DEF Next
<1> QED
    BY <1>4, ThrottlerPart DEF RouterInv, LoopInv, TypeOK

-----------------------------------------------------------------------------
(* The inductive invariant holds always.                                   *)
THEOREM Invariance == Spec => []RouterInv
BY InitRouterInv, NextRouterInv, PTL DEF Spec

(* Every variable of the router and of its throttler keeps its type.       *)
THEOREM TypeCorrect == Spec => []TypeOK
<1>1. RouterInv => TypeOK
    BY DEF RouterInv
<1> QED
    BY <1>1, Invariance, PTL

(* However addresses are shared, expire, are dropped and answered again, a *)
(* request goes to an address that is its function's.                      *)
THEOREM BackendSafety == Spec => []RightBackend
<1>1. RouterInv => RightBackend
    BY DEF RouterInv, AddressesOK, RightBackend
<1> QED
    BY <1>1, Invariance, PTL

(* The router implements the throttler's specification: its retry loop     *)
(* calls RunOnce once a round, and never touches the locks otherwise.      *)
THEOREM ThrottlerUse == Spec => ThrottlerSpec
<1>1. Init => Thr!Init
    BY DEF Init
<1>2. RouterInv /\ [Next]_vars => [Thr!Next]_(Thr!thrVars)
    BY StepIsThrottlerStep DEF RouterInv, thrVars, Thr!thrVars
<1> QED
    BY <1>1, <1>2, Invariance, PTL DEF Spec, ThrottlerSpec, Thr!Spec

-----------------------------------------------------------------------------
(* Calm behaviours.                                                        *)

(* There is an address for every request.                                  *)
EnoughAddresses ==
    IsFiniteSet(Req) /\ IsFiniteSet(Url) /\ Cardinality(Req) <= Cardinality(Url)

(* Then one is left for a request that seeks an address: each of the       *)
(* others has taken one at most.                                           *)
LEMMA AddressLeft ==
    ASSUME EnoughAddresses, LoopTypeOK, CalmState, NEW r \in Req, pc[r] = "runOnce"
    PROVE  \E u \in Url : Available(fn[r], u)
<1> SUFFICES ASSUME \A u \in Url : ~Available(fn[r], u) PROVE FALSE
    OBVIOUS
<1>1. \A u \in Url : owner[u] # None
    BY DEF Available, CalmState
<1> DEFINE userOf(u) == CHOOSE q \in Req : serviceUrl[q] = u
           user == [u \in Url |-> userOf(u)]
<1>2. \A u \in Url : userOf(u) \in Req /\ serviceUrl[userOf(u)] = u
    BY <1>1 DEF CalmState, CalmAddresses
<1>3. serviceUrl[r] \notin Url
    BY NamesAssumption DEF CalmState, CalmAddresses
<1> HIDE DEF userOf
<1>4. user \in [Url -> Req \ {r}] /\ \A u \in Url : serviceUrl[user[u]] = u
    BY <1>2, <1>3
<1> HIDE DEF user
<1>5. /\ IsFiniteSet(Req \ {r}) /\ Cardinality(Req \ {r}) = Cardinality(Req) - 1
      /\ Cardinality(Req) \in Nat /\ Cardinality(Url) \in Nat
    BY FS_RemoveElement, FS_CardinalityType DEF EnoughAddresses
<1>6. Cardinality(Req \ {r}) < Cardinality(Url)
    BY <1>5 DEF EnoughAddresses
<1>7. \E u, v \in Url : u # v /\ user[u] = user[v]
    BY <1>4, <1>5, <1>6, FS_PigeonHole DEF EnoughAddresses
<1> QED
    BY <1>4, <1>7

(* A disturbance ends the calm.                                            *)
LEMMA CalmBefore ==
    ASSUME LoopTypeOK, UNCHANGED faults \/ Disturbance, faults' = 0
    PROVE  faults = 0 /\ UNCHANGED faults /\ ~Disturbance
BY DEF LoopTypeOK, Disturbance

(* The calls, when the throttler does not move.                            *)
LEMMA CalmCallsStay ==
    ASSUME CalmCalls, UNCHANGED thrVars, \A c \in Call : fmap'[key[c]] = fmap[key[c]]
    PROVE  CalmCalls'
BY DEF CalmCalls, thrVars

(* A call that gets a lock, waits or creates one leaves the calls of a     *)
(* function without an address waiting for the lock in the table.          *)
LEMMA CalmRunOnceBegins ==
    ASSUME RouterInv, CalmState, NEW r \in Req, RunOnceBegins(r)
    PROVE  CalmState'
<1> USE DEF RouterInv
<1> DEFINE c == CurrentCall(r)
<1>1. /\ UNCHANGED <<fmap, expired, fn, pc, round, serviceUrl, live, owner>> /\ pc[r] = "runOnce"
      /\ Thr!GetShared(c) \/ Thr!GetFirst(c) \/ Thr!WaitReleased(c)
    BY DEF RunOnceBegins, mapVars, reqVars, podVars
<1>2. c \in Call
    BY <1>1, CurrentCallIsCall
<1>3. /\ locks \in [Fn -> Call \cup {NoLock}] /\ callPc \in [Call -> Thr!CallState]
      /\ key \in [Call -> Fn] /\ lock \in [Call -> Call \cup {NoLock}]
    BY DEF ThrottlerInv, Thr!TypeOK
<1> HIDE DEF c
<1>4. CalmCalls' /\ old' = {}
  <2>1. CASE Thr!GetShared(c)
      BY <1>1, <1>2, <1>3, <2>1 DEF CalmState, CalmCalls, Thr!GetShared
  <2>2. CASE Thr!GetFirst(c)
    <3>1. /\ locks' = [locks EXCEPT ![key[c]] = c] /\ lock' = [lock EXCEPT ![c] = c]
          /\ callPc' = [callPc EXCEPT ![c] = "first"] /\ UNCHANGED <<old, key>>
          /\ locks[key[c]] = NoLock
        BY <2>2 DEF Thr!GetFirst, CalmState
    <3>2. ASSUME NEW d \in Call, key[d] = key[c], fmap[key[d]] = None PROVE callPc[d] # "waiting"
        BY <3>1, <3>2, NamesAssumption DEF CalmState, CalmCalls, ThrottlerInv,
           Thr!LocksAreCreated
    <3>3. ASSUME NEW d \in Call, fmap'[key'[d]] = None
          PROVE  /\ callPc'[d] \in {"idle", "waiting", "first"}
                 /\ callPc'[d] = "waiting" => lock'[d] = locks'[key'[d]]
      <4>1. CASE d = c
          BY <1>2, <1>3, <3>1, <4>1
      <4>2. CASE d # c
          BY <1>1, <1>2, <1>3, <3>1, <3>2, <3>3, <4>2 DEF CalmState, CalmCalls
      <4> QED
          BY <4>1, <4>2
    <3> QED
        BY <3>1, <3>3 DEF CalmCalls, CalmState
  <2>3. CASE Thr!WaitReleased(c)
    <3>1. /\ callPc[c] = "waiting" /\ wg[lock[c]] = 0 /\ callPc' = [callPc EXCEPT ![c] = "follower"]
          /\ UNCHANGED <<locks, old, key, lock>>
        BY <2>3 DEF Thr!WaitReleased
    <3>2. fmap[key[c]] # None
      <4> SUFFICES ASSUME fmap[key[c]] = None PROVE FALSE
          OBVIOUS
      <4>1. lock[c] = locks[key[c]] /\ lock[c] \in Call
          BY <1>2, <3>1 DEF CalmState, CalmCalls, ThrottlerInv, Thr!LocksAreCreated
      <4>2. Thr!InTable(lock[c])
          BY <1>2, <1>3, <4>1 DEF Thr!InTable
      <4>3. wg[lock[c]] = 1
          BY <4>1, <4>2 DEF ThrottlerInv, Thr!ReleasedExactlyOnce
      <4> QED
          BY <3>1, <4>3
    <3> QED
        BY <1>1, <1>2, <1>3, <3>1, <3>2 DEF CalmState, CalmCalls
  <2> QED
      BY <1>1, <2>1, <2>2, <2>3
<1>5. CalmAddresses'
    BY <1>1 DEF CalmState, CalmAddresses
<1> QED
    BY <1>1, <1>4, <1>5 DEF CalmState

LEMMA CalmRoundTrip ==
    ASSUME RouterInv, CalmState, EnoughAddresses, NEW r \in Req, RoundTrip(r), faults' = 0
    PROVE  CalmState'
<1> USE DEF RouterInv
<1>0. /\ LoopTypeOK /\ fn[r] \in Fn
      /\ pc \in [Req -> {"entry", "runOnce", "assign", "forward", "ok", "failed"}]
      /\ serviceUrl \in [Req -> Url \cup {None}] /\ owner \in [Url -> Fn \cup {None}]
      /\ fmap \in [Fn -> Url \cup {None}]
    BY DEF TypeOK, LoopTypeOK
<1>1. CASE EntryCached(r)
  <2>1. /\ UNCHANGED <<thrVars, fmap, expired, fn, round, live, owner>> /\ pc[r] = "entry"
        /\ serviceUrl' = [serviceUrl EXCEPT ![r] = fmap[fn[r]]] /\ pc' = [pc EXCEPT ![r] = "forward"]
      BY <1>1 DEF EntryCached, mapVars, podVars, Use, Goto
  <2>2. CalmCalls'
      BY <2>1, CalmCallsStay DEF CalmState
  <2>3. CalmAddresses'
      BY <1>0, <2>1, NamesAssumption DEF CalmState, CalmAddresses
  <2> QED
      BY <1>0, <2>1, <2>2, <2>3 DEF CalmState, thrVars
<1>2. CASE EntryMissing(r)
  <2>1. /\ UNCHANGED <<thrVars, fn, round, serviceUrl, live, owner>> /\ pc[r] = "entry"
        /\ pc' = [pc EXCEPT ![r] = "runOnce"] /\ DropExpired(fn[r])
      BY <1>2 DEF EntryMissing, podVars, Goto
  <2>2. UNCHANGED <<fmap, expired>>
      BY <2>1 DEF DropExpired, CalmState
  <2>3. CalmCalls'
      BY <2>1, <2>2, CalmCallsStay DEF CalmState
  <2>4. CalmAddresses'
      BY <1>0, <2>1 DEF CalmState, CalmAddresses
  <2> QED
      BY <1>0, <2>1, <2>2, <2>3, <2>4 DEF CalmState, thrVars
<1>3. CASE RunOnceBegins(r)
    BY <1>3, CalmRunOnceBegins
<1>4. CASE RunOnceFails(r)
    BY <1>4 DEF RunOnceFails, Thr!WaitTimeout, CalmState
<1>5. ASSUME NEW u \in Url, ExecutorAnswers(r, u)
      PROVE  CalmState'
  <2>1. /\ UNCHANGED <<thrVars, fmap, expired, fn, round, live>> /\ pc[r] = "runOnce"
        /\ owner' = [owner EXCEPT ![u] = fn[r]] /\ serviceUrl' = [serviceUrl EXCEPT ![r] = u]
        /\ pc' = [pc EXCEPT ![r] = "assign"]
      BY <1>5 DEF ExecutorAnswers, mapVars, Goto
  <2>2. CalmCalls'
      BY <2>1, CalmCallsStay DEF CalmState
  <2>3. ASSUME NEW v \in Url, owner'[v] # None PROVE \E q \in Req : serviceUrl'[q] = v
    <3>1. CASE v = u
        BY <1>0, <2>1, <3>1
    <3>2. CASE v # u
      <4>1. PICK q \in Req : serviceUrl[q] = v
          BY <1>0, <2>1, <2>3, <3>2 DEF CalmState, CalmAddresses
      <4>2. q # r
          BY <2>1, <4>1, NamesAssumption DEF CalmState, CalmAddresses
      <4> QED
          BY <1>0, <2>1, <4>1, <4>2
    <3> QED
        BY <3>1, <3>2
  <2>4. CalmAddresses'
      BY <1>0, <2>1, <2>3 DEF CalmState, CalmAddresses
  <2> QED
      BY <1>0, <2>1, <2>2, <2>4 DEF CalmState, thrVars
<1>6. CASE ExecutorFails(r)
  <2>1. pc[r] = "runOnce" /\ (Disturbance \/ \A u \in Url : ~Available(fn[r], u))
      BY <1>6 DEF ExecutorFails, DisturbanceUnless
  <2> QED
      BY <1>0, <2>1, AddressLeft, CalmBefore
<1>7. CASE Assign(r)
  <2> DEFINE c == CurrentCall(r)
  <2>1. /\ UNCHANGED <<expired, fn, round, live, owner>> /\ pc[r] = "assign"
        /\ fmap' = [fmap EXCEPT ![fn[r]] = IF @ = None THEN serviceUrl[r] ELSE @]
        /\ serviceUrl' = [serviceUrl EXCEPT ![r] = serviceUrl[r]]
        /\ pc' = [pc EXCEPT ![r] = "forward"]
        /\ UNCHANGED <<locks, old, key, lock>> /\ callPc' = [callPc EXCEPT ![c] = "deleting"]
      BY <1>7 DEF Assign, podVars, Use, Goto, Thr!CallbackReturns
  <2>2. c \in Call /\ key[c] = fn[r] /\ key \in [Call -> Fn] /\ callPc \in [Call -> Thr!CallState]
      BY <2>1, CurrentCallIsCall DEF KeysOK, ThrottlerInv, Thr!TypeOK
  <2>3. serviceUrl' = serviceUrl /\ serviceUrl[r] # None
      BY <1>0, <2>1, NamesAssumption DEF AddressesOK
  <2> HIDE DEF c
  <2>4. /\ fmap'[key[c]] # None
        /\ \A f \in Fn : f # fn[r] => fmap'[f] = fmap[f]
      BY <1>0, <2>1, <2>2, <2>3
  <2>5. ASSUME NEW d \in Call, fmap'[key'[d]] = None
        PROVE  /\ callPc'[d] \in {"idle", "waiting", "first"}
               /\ callPc'[d] = "waiting" => lock'[d] = locks'[key'[d]]
    <3>1. key[d] # fn[r] /\ d # c /\ key'[d] = key[d]
        BY <2>1, <2>2, <2>4, <2>5
    <3>2. fmap[key[d]] = None
        BY <2>1, <2>2, <2>4, <2>5, <3>1
    <3> QED
        BY <2>1, <2>2, <3>1, <3>2 DEF CalmState, CalmCalls
  <2>6. CalmCalls'
      BY <2>5 DEF CalmCalls
  <2>7. CalmAddresses'
      BY <1>0, <2>1, <2>3 DEF CalmState, CalmAddresses
  <2> QED
      BY <1>0, <2>1, <2>6, <2>7 DEF CalmState
<1>8. CASE FollowerReads(r)
  <2> DEFINE c == CurrentCall(r)
  <2>1. /\ pc[r] = "runOnce" /\ callPc[c] = "follower" /\ UNCHANGED <<fn, live, owner>>
        /\ UNCHANGED <<locks, old, key, lock>> /\ callPc' = [callPc EXCEPT ![c] = "deleting"]
      BY <1>8 DEF FollowerReads, podVars, Thr!CallbackReturns
  <2>2. c \in Call /\ key[c] = fn[r] /\ key \in [Call -> Fn] /\ callPc \in [Call -> Thr!CallState]
      BY <2>1, CurrentCallIsCall DEF KeysOK, ThrottlerInv, Thr!TypeOK
  <2>3. fmap[fn[r]] # None /\ Found(fn[r])
      BY <2>1, <2>2 DEF CalmState, CalmCalls, Found
  <2>4. /\ serviceUrl' = [serviceUrl EXCEPT ![r] = fmap[fn[r]]]
        /\ pc' = [pc EXCEPT ![r] = "forward"] /\ UNCHANGED <<fmap, expired, round>>
      BY <1>8, <2>3 DEF FollowerReads, Use, Goto, mapVars
  <2> HIDE DEF c
  <2>5. CalmCalls'
      BY <2>1, <2>2, <2>3, <2>4 DEF CalmState, CalmCalls
  <2>6. CalmAddresses'
      BY <1>0, <2>1, <2>4, NamesAssumption DEF CalmState, CalmAddresses
  <2> QED
      BY <1>0, <2>1, <2>4, <2>5, <2>6 DEF CalmState
<1>9. CASE ForwardSucceeds(r)
  <2>1. /\ UNCHANGED <<thrVars, fmap, expired, fn, round, serviceUrl, live, owner>>
        /\ pc' = [pc EXCEPT ![r] = "ok"]
      BY <1>9 DEF ForwardSucceeds, mapVars, podVars, Goto
  <2>2. CalmCalls'
      BY <2>1, CalmCallsStay DEF CalmState
  <2>3. CalmAddresses'
      BY <1>0, <2>1 DEF CalmState, CalmAddresses
  <2> QED
      BY <1>0, <2>1, <2>2, <2>3 DEF CalmState, thrVars
<1>10. CASE ForwardRelaysError(r) \/ DialFails(r)
  <2>1. pc[r] = "forward" /\ (Disturbance \/ serviceUrl[r] \notin live)
      BY <1>10 DEF ForwardRelaysError, DialFails, DisturbanceUnless
  <2> QED
      BY <1>0, <2>1, CalmBefore DEF CalmState, AddressesOK
<1> QED
    BY <1>1, <1>2, <1>3, <1>4, <1>5, <1>6, <1>7, <1>8, <1>9, <1>10 DEF RoundTrip

(* Without a disturbance time passes for nothing; a DELETE is for a        *)
(* function that has an address already.                                   *)
LEMMA CalmOutside ==
    ASSUME RouterInv, CalmState, faults' = 0,
           \/ ThrottlerTime \/ (\E c \in Call : ThrottlerDelete(c)) \/ MapExpire
           \/ (\E f \in Fn : EntryExpires(f)) \/ (\E u \in Url : UrlDies(u)) \/ UNCHANGED vars
    PROVE  CalmState'
<1> USE DEF RouterInv
<1>1. ~Disturbance
    BY CalmBefore DEF TypeOK
<1>2. CASE ThrottlerTime \/ MapExpire \/ (\E f \in Fn : EntryExpires(f))
           \/ (\E u \in Url : UrlDies(u))
    BY <1>1, <1>2 DEF ThrottlerTime, MapExpire, EntryExpires, UrlDies, CalmState, Thr!Expire
<1>3. ASSUME NEW c \in Call, ThrottlerDelete(c)
      PROVE  CalmState'
  <2>1. /\ UNCHANGED <<fmap, expired, pc, round, serviceUrl, live, owner>>
        /\ callPc[c] = "deleting" /\ locks' = [locks EXCEPT ![key[c]] = NoLock]
        /\ callPc' = [callPc EXCEPT ![c] = "done"] /\ UNCHANGED <<old, key, lock>>
      BY <1>3 DEF ThrottlerDelete, mapVars, reqVars, podVars, Thr!Delete
  <2>2. /\ locks \in [Fn -> Call \cup {NoLock}] /\ callPc \in [Call -> Thr!CallState]
        /\ key \in [Call -> Fn]
      BY DEF ThrottlerInv, Thr!TypeOK
  <2>3. fmap[key[c]] # None
      BY <2>1 DEF CalmState, CalmCalls
  <2>4. CalmCalls'
      BY <2>1, <2>2, <2>3 DEF CalmState, CalmCalls
  <2>5. CalmAddresses'
      BY <2>1 DEF CalmState, CalmAddresses
  <2> QED
      BY <2>1, <2>4, <2>5 DEF CalmState
<1>4. CASE UNCHANGED vars
  <2>1. UNCHANGED <<thrVars, fmap, expired, pc, round, serviceUrl, live, owner>>
      BY <1>4 DEF vars, mapVars, reqVars, podVars
  <2>2. CalmCalls'
      BY <2>1, CalmCallsStay DEF CalmState
  <2> QED
      BY <2>1, <2>2 DEF CalmState, CalmAddresses, thrVars
<1> QED
    BY <1>2, <1>3, <1>4

LEMMA NextCalm == EnoughAddresses /\ RouterInv /\ Calm /\ [Next]_vars => Calm'
<1> SUFFICES ASSUME EnoughAddresses, RouterInv, Calm, [Next]_vars, faults' = 0 PROVE CalmState'
    BY DEF Calm
<1>1. UNCHANGED faults \/ Disturbance
    BY DEF Next, vars, RoundTrip, EntryCached, EntryMissing, RunOnceBegins, RunOnceFails,
       ExecutorAnswers, ExecutorFails, Assign, FollowerReads, ForwardSucceeds,
       ForwardRelaysError, DialFails, ThrottlerDelete, ThrottlerTime, EntryExpires, MapExpire,
       UrlDies, DisturbanceUnless
<1>2. CalmState
    BY <1>1, CalmBefore DEF Calm, RouterInv, TypeOK
<1> QED
    BY <1>2, CalmRoundTrip, CalmOutside DEF Next

LEMMA InitCalm == Init => Calm
BY NamesAssumption DEF Init, Calm, CalmState, CalmCalls, CalmAddresses, Thr!Init

(* With an address for every request, no request fails as long as nothing  *)
(* outside the router does, whichever goroutines wait for which and        *)
(* whenever the DELETEs of their locks arrive.                             *)
THEOREM CalmSafety == EnoughAddresses => (Spec => []CalmRequestsSucceed)
<1> SUFFICES ASSUME EnoughAddresses PROVE Spec => []CalmRequestsSucceed
    OBVIOUS
<1>1. RouterInv /\ Calm /\ [Next]_vars => Calm'
    BY NextCalm
<1>2. Calm => CalmRequestsSucceed
    BY DEF Calm, CalmState, CalmRequestsSucceed
<1> QED
    BY <1>1, <1>2, InitCalm, Invariance, PTL DEF Spec
=============================================================================
