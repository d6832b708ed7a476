-------------------------- MODULE ThrottlerProofs --------------------------
(* Safety of pkg/throttler for any number of calls and keys.               *)
EXTENDS Throttler, TLAPS

(* GET that becomes the first goroutine: the new lock is not in the table  *)
(* yet, because only calls past "idle" are, and an old lock that is taken  *)
(* over was under this key only.                                           *)
LEMMA GetFirstPreserves ==
    ASSUME NEW c \in Call, IInv, GetFirst(c)
    PROVE  IInv'
<1> USE NoLockAssumption DEF IInv, TypeOK
<1> DEFINE l == locks[key[c]]
<1>1. ~InTable(c)
  BY DEF GetFirst, LockHasReleaser, InTable
<1>2. \A x \in Call : InTable(x)' <=> (x = c \/ (InTable(x) /\ x # l))
  <2> SUFFICES ASSUME NEW x \in Call
               PROVE  InTable(x)' <=> (x = c \/ (InTable(x) /\ x # l))
    OBVIOUS
  <2>1. locks'[key[c]] = c /\ \A k \in Key \ {key[c]} : locks'[k] = locks[k]
    BY DEF GetFirst
  <2>2. ASSUME NEW k \in Key, locks[k] = l, l # NoLock
        PROVE  k = key[c]
    BY <2>2 DEF LockHasReleaser
  <2> QED BY <2>1, <2>2, <1>1 DEF InTable
<1>3. LocksAreCreated'
  BY DEF GetFirst, LocksAreCreated
<1>4. LockHasReleaser'
  BY DEF GetFirst, LockHasReleaser
<1>5. ReleasedExactlyOnce'
  <2> SUFFICES ASSUME NEW x \in Call
               PROVE  wg'[x] = (IF InTable(x)' THEN 1 ELSE 0)
    BY DEF ReleasedExactlyOnce
  <2>1. wg'[x] = IF x = c THEN 1 ELSE IF x = l THEN wg[x] - 1 ELSE wg[x]
    BY DEF GetFirst
  <2>2. wg[x] = IF InTable(x) THEN 1 ELSE 0
    BY DEF ReleasedExactlyOnce
  <2>3. x = l => InTable(x)
    BY DEF InTable
  <2> QED BY <2>1, <2>2, <2>3, <1>1, <1>2
<1>6. FollowerAfterRelease'
  BY <1>2 DEF GetFirst, FollowerAfterRelease, LocksAreCreated
<1>7. TypeOK'
  BY <1>5 DEF GetFirst, ReleasedExactlyOnce, CallState
<1> QED BY <1>3, <1>4, <1>5, <1>6, <1>7

(* DELETE: the lock under the key is there once, so it is released once.   *)
LEMMA DeletePreserves ==
    ASSUME NEW c \in Call, IInv, Delete(c)
    PROVE  IInv'
<1> USE NoLockAssumption DEF IInv, TypeOK
<1> DEFINE l == locks[key[c]]
<1>1. \A x \in Call : InTable(x)' <=> (InTable(x) /\ x # l)
  <2> SUFFICES ASSUME NEW x \in Call
               PROVE  InTable(x)' <=> (InTable(x) /\ x # l)
    OBVIOUS
  <2>1. locks'[key[c]] = NoLock /\ \A k \in Key \ {key[c]} : locks'[k] = locks[k]
    BY DEF Delete
  <2>2. ASSUME NEW k \in Key, locks[k] = l, l # NoLock
        PROVE  k = key[c]
    BY <2>2 DEF LockHasReleaser
  <2> QED BY <2>1, <2>2 DEF InTable
<1>2. LocksAreCreated'
  BY DEF Delete, LocksAreCreated
<1>3. LockHasReleaser'
  BY DEF Delete, LockHasReleaser
<1>4. ReleasedExactlyOnce'
  <2> SUFFICES ASSUME NEW x \in Call
               PROVE  wg'[x] = (IF InTable(x)' THEN 1 ELSE 0)
    BY DEF ReleasedExactlyOnce
  <2>1. wg'[x] = IF x = l THEN wg[x] - 1 ELSE wg[x]
    BY DEF Delete
  <2>2. wg[x] = IF InTable(x) THEN 1 ELSE 0
    BY DEF ReleasedExactlyOnce
  <2>3. x = l => InTable(x)
    BY DEF InTable
  <2> QED BY <2>1, <2>2, <2>3, <1>1
<1>5. FollowerAfterRelease'
  BY <1>1 DEF Delete, FollowerAfterRelease, LocksAreCreated
<1>6. TypeOK'
  BY <1>4 DEF Delete, ReleasedExactlyOnce, CallState
<1> QED BY <1>2, <1>3, <1>4, <1>5, <1>6

(* EXPIRE: an old lock that is in the table leaves it and is released.     *)
LEMMA ExpirePreserves ==
    ASSUME IInv, Expire
    PROVE  IInv'
<1> USE NoLockAssumption DEF IInv, TypeOK
<1>1. \A x \in Call : InTable(x)' <=> (InTable(x) /\ x \notin old)
  BY DEF Expire, InTable
<1>2. LocksAreCreated'
  BY DEF Expire, LocksAreCreated
<1>3. LockHasReleaser'
  BY DEF Expire, LockHasReleaser
<1>4. ReleasedExactlyOnce'
  <2> SUFFICES ASSUME NEW x \in Call
               PROVE  wg'[x] = (IF InTable(x)' THEN 1 ELSE 0)
    BY DEF ReleasedExactlyOnce
  <2>1. wg'[x] = IF x \in old /\ InTable(x) THEN wg[x] - 1 ELSE wg[x]
    BY DEF Expire, InTable
  <2>2. wg[x] = IF InTable(x) THEN 1 ELSE 0
    BY DEF ReleasedExactlyOnce
  <2> QED BY <2>1, <2>2, <1>1
<1>5. FollowerAfterRelease'
  BY <1>1 DEF Expire, FollowerAfterRelease, LocksAreCreated
<1>6. TypeOK'
  BY <1>4 DEF Expire, ReleasedExactlyOnce
<1> QED BY <1>2, <1>3, <1>4, <1>5, <1>6

(* The steps that leave the table and the counters alone.                  *)
CallerStep(c) ==
    \/ GetShared(c) \/ WaitReleased(c) \/ WaitTimeout(c)
    \/ CallbackReturns(c) \/ Age(c)

(* A step of a caller keeps the invariant: a waiter that becomes a follower*)
(* found the counter at zero, so its lock was out of the table.            *)
LEMMA CallerStepPreserves ==
    ASSUME NEW c \in Call, IInv, CallerStep(c)
    PROVE  IInv'
<1> USE NoLockAssumption DEF IInv, TypeOK, CallerStep
<1>1. UNCHANGED <<locks, wg, key>>
  BY DEF GetShared, WaitReleased, WaitTimeout, CallbackReturns, Age
<1>2. \A x \in Call : InTable(x)' <=> InTable(x)
  BY <1>1 DEF InTable
<1>3. ReleasedExactlyOnce'
  BY <1>1, <1>2 DEF ReleasedExactlyOnce
<1>4. LocksAreCreated'
  BY DEF LocksAreCreated, LockHasReleaser, GetShared, WaitReleased,
         WaitTimeout, CallbackReturns, Age
<1>5. LockHasReleaser'
  BY <1>1 DEF LockHasReleaser, GetShared, WaitReleased, WaitTimeout,
              CallbackReturns, Age
<1>6. FollowerAfterRelease'
  <2>1. CASE WaitReleased(c)
    <3>1. ~InTable(lock[c])
      BY <2>1 DEF WaitReleased, ReleasedExactlyOnce, LocksAreCreated
    <3> QED BY <2>1, <3>1, <1>2 DEF WaitReleased, FollowerAfterRelease,
                                   LocksAreCreated
  <2>2. CASE GetShared(c)
    BY <2>2, <1>2 DEF GetShared, FollowerAfterRelease, LocksAreCreated
  <2>3. CASE WaitTimeout(c) \/ CallbackReturns(c) \/ Age(c)
    BY <2>3, <1>2 DEF WaitTimeout, CallbackReturns, Age,
                      FollowerAfterRelease, LocksAreCreated
  <2> QED BY <2>1, <2>2, <2>3
<1>7. TypeOK'
  BY DEF GetShared, WaitReleased, WaitTimeout, CallbackReturns, Age, CallState
<1> QED BY <1>3, <1>4, <1>5, <1>6, <1>7
-----------------------------------------------------------------------------
(* The invariant holds initially, and every step keeps it.                 *)
LEMMA InitInv == Init => IInv
BY NoLockAssumption DEF Init, IInv, TypeOK, CallState, LocksAreCreated,
   LockHasReleaser, ReleasedExactlyOnce, FollowerAfterRelease, InTable

LEMMA NextInv == IInv /\ [Next]_thrVars => IInv'
<1> SUFFICES ASSUME IInv, [Next]_thrVars
             PROVE  IInv'
  OBVIOUS
<1>1. CASE UNCHANGED thrVars
  BY <1>1 DEF thrVars, IInv, TypeOK, LocksAreCreated, LockHasReleaser,
              ReleasedExactlyOnce, FollowerAfterRelease, InTable
<1>2. CASE \E c \in Call : GetFirst(c) \/ Delete(c)
  BY <1>2, GetFirstPreserves, DeletePreserves
<1>3. CASE \E c \in Call : CallerStep(c)
  BY <1>3, CallerStepPreserves
<1>4. CASE Expire
  BY <1>4, ExpirePreserves
<1> QED BY <1>1, <1>2, <1>3, <1>4 DEF Next, CallerStep

(* The inductive invariant holds of every behaviour.                       *)
THEOREM InductiveInvariant == Spec => []IInv
BY InitInv, NextInv, PTL DEF Spec

(* The variables keep their types; in particular no WaitGroup counter is   *)
(* ever negative, which would panic the process.                           *)
THEOREM TypeCorrect == Spec => []TypeOK
BY InductiveInvariant, PTL DEF IInv

(* RunOnce never calls Done twice on a WaitGroup and never drops a lock    *)
(* without it.                                                             *)
THEOREM ReleaseSafety == Spec => []ReleasedExactlyOnce
BY InductiveInvariant, PTL DEF IInv

(* A lock in the table always has a call that will delete it.              *)
THEOREM ReleaserSafety == Spec => []LockHasReleaser
BY InductiveInvariant, PTL DEF IInv

(* A follower runs its callback only after its lock has left the table.    *)
THEOREM FollowerSafety == Spec => []FollowerAfterRelease
BY InductiveInvariant, PTL DEF IInv
=============================================================================
