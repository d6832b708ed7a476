---------------------------- MODULE EventSources -----------------------------
(***************************************************************************)
(* The timer (pkg/timer) and the Kubernetes watcher (pkg/kubewatcher),     *)
(* each with the webhook publisher.  The two are processes of their own;   *)
(* source says which one a behaviour is about, if any.                     *)
(***************************************************************************)
EXTENDS TriggerList, Publisher

CONSTANTS MaxTicks,        \* jobs started by crons
          MaxObjectEvents, \* changes of the watched Kubernetes objects
          MaxTimeouts      \* watches closed by the server

ASSUME SourceAssumption ==
  MaxTicks \in Nat /\ MaxObjectEvents \in Nat /\ MaxTimeouts \in Nat

VARIABLES
  source, \* "timer" or "watcher", or "none" when neither runs
  phase,  \* where the goroutine of the polling loop and svc is
  crons,  \* timer: the crons that run, by the key of their trigger
  jobs,   \* timer: jobs of crons that have been started and not published
  subs,   \* watcher: the subscription made for every UID
  kept,   \* watcher: the UIDs in the map of KubeWatcher
  latest, \* version of the last change of the watched objects
  closed, \* watches that the server has closed so far
  late    \* events published by a subscription after it was stopped

timerVars == <<crons, jobs>>
watchVars == <<subs, kept, latest, closed, late>>
sourceVars == <<listVars, publisherVars, source, phase, timerVars, watchVars>>

Loops == {"none", "check", "wait", "publish", "restart", "ended"}

\* loop: where eventDispatchLoop is.  stopped: the flag that the copy in the
\* map shares.  mine: the copy's kubeWatch is the one the loop reads.  open:
\* the loop's kubeWatch has not been closed.  pos: the version up to which it
\* has delivered.  last: lastResourceVersion, 0 standing for the empty one.
Subscriptions ==
  [loop : Loops, stopped : BOOLEAN, mine : BOOLEAN, open : BOOLEAN,
   pos : 0 .. MaxObjectEvents, last : 0 .. MaxObjectEvents]

NoSubscription ==
  [loop |-> "none", stopped |-> FALSE, mine |-> FALSE, open |-> FALSE,
   pos |-> 0, last |-> 0]

LoopsTypeOK ==
  /\ source \in {"timer", "watcher", "none"}
  /\ phase \in {"list", "add", "copy", "remove", "stop"}
  /\ crons \in SUBSET Keys /\ jobs \in SUBSET Keys
  /\ subs \in [Uids -> Subscriptions]
  /\ kept \in SUBSET Uids
  /\ latest \in 0 .. MaxObjectEvents
  /\ closed \in 0 .. MaxTimeouts
  /\ late \in [Uids -> Nat]

SourceTypeOK == ListTypeOK /\ PublisherTypeOK /\ LoopsTypeOK

SourceInit ==
  /\ ListInit /\ PublisherInit
  /\ source \in {"timer", "watcher", "none"}
  /\ phase = "list" /\ crons = {} /\ jobs = {}
  /\ subs = [u \in Uids |-> NoSubscription]
  /\ kept = {} /\ latest = 0 /\ closed = 0
  /\ late = [u \in Uids |-> 0]

------------------------------------------------------------------------------
\* TimerSync.syncSvc: a network error is retried, any other is fatal.
TimerList ==
  /\ source = "timer" /\ phase = "list"
  /\ \E failed \in BOOLEAN :
       /\ Fails(failed)
       /\ listed' = IF failed THEN listed ELSE trigger
       /\ phase' = IF failed THEN "list" ELSE "add"
  /\ UNCHANGED <<trigger, changes, publisherVars, source, timerVars, watchVars>>

\* syncCron, first loop: a trigger with a new key gets a cron.  (A key names
\* one resource version, so a trigger found under its key never has another
\* cron specification.)
AddCrons ==
  /\ source = "timer" /\ phase = "add"
  /\ crons' = crons \union listed
  /\ phase' = "remove"
  /\ UNCHANGED <<listVars, publisherVars, source, jobs, watchVars>>

\* Mutant: the crons of triggers that are gone are looked up by UID.
RemoveCronsByUid ==
  /\ source = "timer" /\ phase = "remove"
  /\ crons' = {c \in crons : \E t \in listed : t.uid = c.uid}
  /\ phase' = "list"
  /\ UNCHANGED <<listVars, publisherVars, source, jobs, watchVars>>

\* syncCron, second loop: crons whose key was not listed are stopped.
RemoveCrons ==
  /\ source = "timer" /\ phase = "remove"
  /\ crons' = crons \intersect listed
  /\ phase' = "list"
  /\ UNCHANGED <<listVars, publisherVars, source, jobs, watchVars>>

\* A cron starts its job in a goroutine of its own; Stop does not end it.
Tick ==
  /\ source = "timer" /\ published + Cardinality(jobs) < MaxTicks
  /\ \E c \in crons \ jobs : jobs' = jobs \union {c}
  /\ UNCHANGED <<listVars, publisherVars, source, phase, crons, watchVars>>

\* The job publishes, and waits as long as the channel is full.
Job ==
  /\ source = "timer"
  /\ \E c \in jobs : jobs' = jobs \ {c}
  /\ Publish
  /\ UNCHANGED <<listVars, source, phase, crons, watchVars>>

------------------------------------------------------------------------------
\* What svc does when it has these UIDs to watch and those in the map: it
\* removes watches, then it adds watches, then it answers.
Phase(uids, watched) ==
  IF ~(watched \subseteq uids) THEN "remove"
  ELSE IF ~(uids \subseteq watched) THEN "add" ELSE "list"

\* WatchSync.syncSvc lists and calls Sync.  (An error of the list is fatal.)
WatchList ==
  /\ source = "watcher" /\ phase = "list"
  /\ listed' = trigger /\ phase' = Phase({t.uid : t \in trigger}, kept)
  /\ UNCHANGED <<trigger, changes, faults, publisherVars, source, timerVars, watchVars>>

ListedUids == {t.uid : t \in listed}

\* removeWatch, first half: the map forgets the watch, stop sets the flag.
RemoveWatch ==
  /\ source = "watcher" /\ phase = "remove"
  /\ \E u \in kept \ ListedUids :
       /\ kept' = kept \ {u}
       /\ subs' = [subs EXCEPT ![u].stopped = TRUE]
  /\ phase' = "stop"
  /\ UNCHANGED <<listVars, publisherVars, source, timerVars, latest, closed, late>>

\* stop, second half: the watch that the map's copy holds is stopped, which is
\* the loop's watch unless that was restarted.
StopWatch ==
  /\ source = "watcher" /\ phase = "stop"
  /\ subs' = [u \in Uids |-> IF subs[u].stopped /\ subs[u].mine
                             THEN [subs[u] EXCEPT !.open = FALSE] ELSE subs[u]]
  /\ phase' = Phase(ListedUids, kept)
  /\ UNCHANGED <<listVars, publisherVars, source, timerVars, kept, latest, closed, late>>

\* createKubernetesWatch from a version: from the empty one it begins with the
\* present state of the objects, otherwise with the change that follows.
Started(s) ==
  [s EXCEPT !.open = TRUE, !.loop = "check",
            !.pos = IF s.last > 0 THEN s.last
                    ELSE IF latest > 0 THEN latest - 1 ELSE 0]

\* addWatch of a trigger whose UID is not in the map: MakeWatchSubscription
\* starts the watch and the loop; if it cannot, the next round tries again.
AddWatch ==
  /\ source = "watcher" /\ phase = "add"
  /\ \E failed \in BOOLEAN, u \in ListedUids \ kept :
       /\ Fails(failed)
       /\ subs' = IF failed THEN subs ELSE [subs EXCEPT ![u] = Started(NoSubscription)]
       /\ phase' = IF failed THEN "list" ELSE "copy"
  /\ UNCHANGED <<trigger, changes, listed, publisherVars, source, timerVars, kept,
                 latest, closed, late>>

\* addWatch stores a copy of the subscription, with the watch it has then.
CopyWatch ==
  /\ source = "watcher" /\ phase = "copy"
  /\ kept' = kept \union ListedUids
  /\ subs' = [u \in Uids |-> IF u \in ListedUids \ kept
                             THEN [subs[u] EXCEPT !.mine = TRUE] ELSE subs[u]]
  /\ phase' = "list"
  /\ UNCHANGED <<listVars, publisherVars, source, timerVars, latest, closed, late>>

\* A step of the eventDispatchLoop of u that leaves it as s.
Dispatch(u, s) ==
  /\ source = "watcher" /\ subs' = [subs EXCEPT ![u] = s]
  /\ UNCHANGED <<listVars, source, phase, timerVars, kept, latest>>

\* Mutant: the loop does not look at the flag before it waits.
CheckNothing(u) ==
  /\ subs[u].loop = "check"
  /\ Dispatch(u, [subs[u] EXCEPT !.loop = "wait"])
  /\ UNCHANGED <<publisherVars, closed, late>>

\* The top of the loop: it ends if the subscription was stopped.
CheckStopped(u) ==
  /\ subs[u].loop = "check"
  /\ Dispatch(u, [subs[u] EXCEPT !.loop = IF subs[u].stopped THEN "ended" ELSE "wait"])
  /\ UNCHANGED <<publisherVars, closed, late>>

\* An event arrives, and its version becomes lastResourceVersion.
Receive(u) ==
  /\ subs[u].loop = "wait" /\ subs[u].open /\ subs[u].pos < latest
  /\ Dispatch(u, [subs[u] EXCEPT !.loop = "publish", !.pos = @ + 1, !.last = subs[u].pos + 1])
  /\ UNCHANGED <<publisherVars, closed, late>>

\* The event is published; the loop waits as long as the channel is full.
PublishEvent(u) ==
  /\ subs[u].loop = "publish" /\ Publish
  /\ late' = [late EXCEPT ![u] = IF subs[u].stopped THEN @ + 1 ELSE @]
  /\ Dispatch(u, [subs[u] EXCEPT !.loop = "check"])
  /\ UNCHANGED closed

\* The channel is closed: a stopped subscription ends, another is restarted.
Closed(u) ==
  /\ subs[u].loop = "wait" /\ ~subs[u].open
  /\ Dispatch(u, [subs[u] EXCEPT !.loop = IF subs[u].stopped THEN "ended" ELSE "restart"])
  /\ UNCHANGED <<publisherVars, closed, late>>

\* The server sends an error, such as a version that is too old: the watch
\* starts from the beginning.
WatchError(u) ==
  /\ subs[u].loop = "wait" /\ subs[u].open
  /\ source = "watcher" /\ Fault
  /\ subs' = [subs EXCEPT ![u] = [subs[u] EXCEPT !.loop = "restart", !.last = 0]]
  /\ UNCHANGED <<trigger, changes, listed, publisherVars, source, phase, timerVars, kept,
                 latest, closed, late>>

\* restartWatch: the loop goes on with another watch than the map's copy has.
RestartWatch(u) ==
  /\ subs[u].loop = "restart"
  /\ Dispatch(u, [Started(subs[u]) EXCEPT !.mine = FALSE])
  /\ UNCHANGED <<publisherVars, closed, late>>

\* restartWatch fails 60 times: the loop panics and the process starts anew.
Panic ==
  /\ source = "watcher"
  /\ \E u \in Uids : subs[u].loop = "restart"
  /\ Fault /\ LosePublisher
  /\ subs' = [u \in Uids |-> NoSubscription] /\ kept' = {}
  /\ phase' = "list" /\ listed' = {}
  /\ UNCHANGED <<trigger, changes, source, timerVars, latest, closed, late>>

\* The server closes a watch after TimeoutSeconds.  MaxTimeouts bounds this for
\* watches that will be restarted.
Timeout(u) ==
  /\ source = "watcher" /\ subs[u].open
  /\ subs[u].loop \notin {"none", "ended", "restart"}
  /\ IF subs[u].stopped THEN UNCHANGED closed
     ELSE closed < MaxTimeouts /\ closed' = closed + 1
  /\ subs' = [subs EXCEPT ![u].open = FALSE]
  /\ UNCHANGED <<listVars, publisherVars, source, phase, timerVars, kept, latest, late>>

\* A watched object changes.
ObjectChange ==
  /\ source = "watcher" /\ latest < MaxObjectEvents
  /\ latest' = latest + 1
  /\ UNCHANGED <<listVars, publisherVars, source, phase, timerVars, subs, kept, closed, late>>

------------------------------------------------------------------------------
TimerSync == TimerList \/ AddCrons \/ RemoveCrons
WatchSync == WatchList \/ RemoveWatch \/ StopWatch \/ AddWatch \/ CopyWatch
Loop(u) == CheckStopped(u) \/ Receive(u) \/ PublishEvent(u) \/ Closed(u)
           \/ WatchError(u) \/ RestartWatch(u)

\* For the watcher the requests that fail are bounded by MaxFaults.
Publishing ==
  /\ \/ (Post \/ Answer \/ PutBack) /\ NoFault
     \/ Retry /\ Fails(source = "watcher")
  /\ UNCHANGED <<trigger, changes, listed, source, phase, timerVars, watchVars>>

Changing ==
  Change /\ UNCHANGED <<publisherVars, source, phase, timerVars, watchVars>>

SourceNext ==
  \/ Changing \/ Publishing
  \/ TimerSync \/ Tick \/ Job
  \/ WatchSync \/ Panic \/ ObjectChange
  \/ \E u \in Uids : Loop(u) \/ Timeout(u)

\* Polling loops and goroutines that can run do run, and the server closes a
\* watch after two minutes.
SourceFairness ==
  /\ PublisherFairness
  /\ WF_sourceVars(TimerSync \/ WatchSync)
  /\ SF_sourceVars(Job)
  /\ \A u \in Uids : /\ WF_sourceVars(CheckStopped(u) \/ Receive(u) \/ Closed(u)
                                      \/ RestartWatch(u))
                     /\ SF_sourceVars(PublishEvent(u))
                     /\ WF_sourceVars(subs[u].stopped /\ Timeout(u))
==============================================================================
