----------------------------- MODULE Throttler -----------------------------
(***************************************************************************)
(* pkg/throttler: RunOnce lets the first goroutine that asks for a key do  *)
(* some work while later goroutines wait for it.  One service goroutine    *)
(* owns the table of locks and serves GET, DELETE and EXPIRE requests one  *)
(* at a time, so each request is one atomic action here.  What interleaves *)
(* are the callers: between the GET, the callback and the DELETE (sent by  *)
(* a goroutine of its own after the callback) anything may happen.         *)
(*                                                                         *)
(* A call is one execution of RunOnce.  A call creates at most one lock,   *)
(* so a lock is identified by the call that created it.                    *)
(***************************************************************************)
EXTENDS Integers

CONSTANTS
    Call,      \* executions of RunOnce
    Key,       \* resource keys
    NoLock     \* "no entry" in the table of locks

ASSUME NoLockAssumption == NoLock \notin Call

VARIABLES
    locks,     \* locks[k]: the lock under key k (Throttler.locks)
    wg,        \* wg[l]: the counter of lock l's WaitGroup
    old,       \* the locks whose isOld() is true
    pc,        \* pc[c]: where call c is in RunOnce
    key,       \* key[c]: the resourceKey argument of call c
    lock       \* lock[c]: the lock in the response to the GET of call c

thrVars == <<locks, wg, old, pc, key, lock>>

CallState == {"idle", "waiting", "first", "follower", "deleting", "done",
              "timedout"}

TypeOK ==
    /\ locks \in [Key -> Call \cup {NoLock}]
    /\ wg \in [Call -> Nat]
    /\ old \in SUBSET Call
    /\ pc \in [Call -> CallState]
    /\ key \in [Call -> Key]
    /\ lock \in [Call -> Call \cup {NoLock}]

Init ==
    /\ locks = [k \in Key |-> NoLock]
    /\ wg = [l \in Call |-> 0]
    /\ old = {}
    /\ pc = [c \in Call |-> "idle"]
    /\ key \in [Call -> Key]
    /\ lock = [c \in Call |-> NoLock]
-----------------------------------------------------------------------------
Created(l) == lock[l] = l

(* GET of a key under a lock that is not old: the call becomes a waiter.   *)
GetShared(c) ==
    LET l == locks[key[c]] IN
    /\ pc[c] = "idle"
    /\ l # NoLock
    /\ l \notin old
    /\ lock' = [lock EXCEPT ![c] = l]
    /\ pc' = [pc EXCEPT ![c] = "waiting"]
    /\ UNCHANGED <<locks, wg, old, key>>

(* GET of a key with no lock, or with an old one, which is released: the   *)
(* call becomes the first goroutine of a new lock.                         *)
GetFirst(c) ==
    LET l == locks[key[c]] IN
    /\ pc[c] = "idle"
    /\ l # NoLock => l \in old
    /\ wg' = [x \in Call |-> IF x = c THEN 1
                             ELSE IF x = l THEN wg[x] - 1 ELSE wg[x]]
    /\ locks' = [locks EXCEPT ![key[c]] = c]
    /\ lock' = [lock EXCEPT ![c] = c]
    /\ pc' = [pc EXCEPT ![c] = "first"]
    /\ UNCHANGED <<old, key>>

(* actionLock.wait returns nil: the counter of the WaitGroup is zero.      *)
WaitReleased(c) ==
    /\ pc[c] = "waiting"
    /\ wg[lock[c]] = 0
    /\ pc' = [pc EXCEPT ![c] = "follower"]
    /\ UNCHANGED <<locks, wg, old, key, lock>>

(* Faulty: wait reports success when the timer fires.                      *)
WaitTimeoutAsSuccess(c) ==
    /\ pc[c] = "waiting"
    /\ lock[c] \in old
    /\ pc' = [pc EXCEPT ![c] = "follower"]
    /\ UNCHANGED <<locks, wg, old, key, lock>>

(* Faulty: wait has no timer.                                              *)
WaitWithoutTimer(c) ==
    /\ FALSE
    /\ pc[c] = "waiting"
    /\ UNCHANGED thrVars

(* actionLock.wait gives up after timeExpiry.  The wait began after the    *)
(* lock was created and lasts as long as a lock takes to become old, so    *)
(* the lock is old by then.  RunOnce returns without sending a DELETE.     *)
WaitTimeout(c) ==
    /\ pc[c] = "waiting"
    /\ lock[c] \in old
    /\ pc' = [pc EXCEPT ![c] = "timedout"]
    /\ UNCHANGED <<locks, wg, old, key, lock>>

(* Faulty: the first goroutine returns without the deferred DELETE.        *)
CallbackWithoutDelete(c) ==
    /\ pc[c] \in {"first", "follower"}
    /\ pc' = [pc EXCEPT ![c] = IF pc[c] = "first" THEN "done" ELSE "deleting"]
    /\ UNCHANGED <<locks, wg, old, key, lock>>

(* callbackFunc returns; the deferred function starts the goroutine that   *)
(* will send the DELETE.  Followers send one too.                          *)
CallbackReturns(c) ==
    /\ pc[c] \in {"first", "follower"}
    /\ pc' = [pc EXCEPT ![c] = "deleting"]
    /\ UNCHANGED <<locks, wg, old, key, lock>>

(* Faulty: the DELETE releases the WaitGroup of the lock that the caller   *)
(* was given instead of the one found in the table.                        *)
DeleteOwnLock(c) ==
    /\ pc[c] = "deleting"
    /\ wg' = [wg EXCEPT ![lock[c]] = wg[lock[c]] - 1]
    /\ locks' = [locks EXCEPT ![key[c]] = NoLock]
    /\ pc' = [pc EXCEPT ![c] = "done"]
    /\ UNCHANGED <<old, key, lock>>

(* The service handles the DELETE: whichever lock is under the key goes.   *)
Delete(c) ==
    LET l == locks[key[c]] IN
    /\ pc[c] = "deleting"
    /\ wg' = [x \in Call |-> IF x = l THEN wg[x] - 1 ELSE wg[x]]
    /\ locks' = [locks EXCEPT ![key[c]] = NoLock]
    /\ pc' = [pc EXCEPT ![c] = "done"]
    /\ UNCHANGED <<old, key, lock>>

(* The service handles an EXPIRE: every old lock is removed and released.  *)
Expire ==
    /\ \E k \in Key : locks[k] \in old
    /\ wg' = [x \in Call |-> IF x \in old /\ \E k \in Key : locks[k] = x
                             THEN wg[x] - 1 ELSE wg[x]]
    /\ locks' = [k \in Key |-> IF locks[k] \in old THEN NoLock ELSE locks[k]]
    /\ UNCHANGED <<old, pc, key, lock>>

(* Time passes: lock l is now older than timeExpiry.                       *)
Age(l) ==
    /\ Created(l)
    /\ l \notin old
    /\ old' = old \cup {l}
    /\ UNCHANGED <<locks, wg, pc, key, lock>>

Next ==
    \/ \E c \in Call :
         \/ GetShared(c)
         \/ GetFirst(c)
         \/ WaitReleased(c)
         \/ WaitTimeout(c)
         \/ CallbackReturns(c)
         \/ Delete(c)
         \/ Age(c)
    \/ Expire

Spec == Init /\ [][Next]_thrVars

(* A waiter's own select loop runs, and time passes.  Nothing is assumed   *)
(* of the callbacks: one that hangs must not keep the waiters.             *)
WaiterFairness ==
    \A c \in Call :
        /\ WF_thrVars(WaitReleased(c))
        /\ WF_thrVars(WaitTimeout(c))
        /\ WF_thrVars(Age(c))

FairSpec == Spec /\ WaiterFairness
-----------------------------------------------------------------------------
InTable(l) == \E k \in Key : locks[k] = l

(* The WaitGroup of a lock counts one exactly while the lock is in the     *)
(* table: DELETE, EXPIRE and the takeover of an old lock release each lock *)
(* once, whatever their order.  A second Done would panic the router, a    *)
(* missing one would strand the waiters.                                   *)
ReleasedExactlyOnce == \A l \in Call : wg[l] = (IF InTable(l) THEN 1 ELSE 0)

(* A lock in the table belongs to a call that has still to send its DELETE *)
(* for that key, so no lock stays behind to stall later calls until EXPIRE.*)
LockHasReleaser ==
    \A k \in Key : locks[k] # NoLock =>
        /\ pc[locks[k]] \in {"first", "deleting"}
        /\ key[locks[k]] = k

(* A waiter runs its callback as a follower only when the lock it waited   *)
(* for has left the table, that is after the first goroutine is finished   *)
(* or has lost the lock; a wait that times out never reaches the callback. *)
FollowerAfterRelease ==
    \A c \in Call : pc[c] = "follower" => ~InTable(lock[c])

(* A waiter gets out of actionLock.wait even when the first goroutine's    *)
(* callback never returns.                                                 *)
WaiterReturns == \A c \in Call : pc[c] = "waiting" ~> pc[c] # "waiting"

-----------------------------------------------------------------------------
(* What the safety properties rest on: a call waits for, or has waited     *)
(* for, a lock that some call has created.                                 *)
LocksAreCreated ==
    \A c \in Call :
        /\ pc[c] \in {"waiting", "follower"} => lock[c] \in Call
        /\ lock[c] \in Call => pc[lock[c]] # "idle"

IInv ==
    /\ TypeOK
    /\ LocksAreCreated
    /\ LockHasReleaser
    /\ ReleasedExactlyOnce
    /\ FollowerAfterRelease
=============================================================================
